--------------------------- MODULE OperatorProofs ---------------------------
(***************************************************************************)
(* Theorems about what the operator sees and changes: Lifecycle, RuleBook, *)
(* ShadowPlan and RuntimeMetrics, for any callers, settings, rules,        *)
(* targets, names, clock readings, windows, plans, keys, lifetimes and     *)
(* crashes.                                                                *)
(***************************************************************************)
EXTENDS Lifecycle, RuleBook, ShadowPlan, RuntimeMetrics, Integers, FiniteSetTheorems,
        FunctionTheorems, SequenceTheorems, WellFoundedInduction, TLAPS

---------------------------------------------------------------------------
(* Lifecycle.                                                              *)

Modes == {"observe", "enforce"}
Hosts == Binds \cup {"", "0.0.0.0", "::", "localhost", "127.0.0.1"}
AnySettings == [port : Nat, bind : Hosts, enforce : Modes]
Address == [port : Nat, ip : Hosts]
AnyProxy == [listener : Address, active : Address, sockets : SUBSET Address,
             enforce : Modes]

\* What the database may hold: what was saved, or what was read of it and saved
\* again by a rollback.
Storable ==
  Settings \cup {[s EXCEPT !.port = DefaultPort] : s \in {t \in Settings : t.port = 0}}

---------------------------------------------------------------------------
(* Settings and listeners.                                                 *)

LEMMA StorableSettings == Storable \subseteq AnySettings
  BY LifecycleAssumption DEF Storable, AnySettings, Modes, Hosts

LEMMA ReadBack ==
  ASSUME stored \in Storable
  PROVE  /\ GetSettings \in Storable /\ GetSettings.enforce = stored.enforce
         /\ CurrentSettings(GetSettings) \in AnySettings
         /\ CurrentSettings(GetSettings).bind # ""
  <1>1. stored \in AnySettings /\ DefaultPort \in Nat
    BY StorableSettings, LifecycleAssumption
  <1>2. GetSettings \in AnySettings /\ GetSettings.enforce = stored.enforce
    BY <1>1 DEF GetSettings, AnySettings
  <1>3. GetSettings \in Storable
    <2>1. CASE stored.port # 0
      <3>1. GetSettings = stored
        BY <1>1, <2>1 DEF GetSettings, AnySettings
      <3> QED
        BY <3>1
    <2>2. CASE stored.port = 0
      <3>1. GetSettings = [stored EXCEPT !.port = DefaultPort]
        BY <1>1, <2>2 DEF GetSettings, AnySettings
      <3>2. CASE stored \in Settings
        BY <2>2, <3>1, <3>2 DEF Storable
      <3>3. CASE stored \notin Settings
        <4>1. stored.port = DefaultPort
          BY <3>3, LifecycleAssumption DEF Storable
        <4> QED
          BY <1>1, <3>1, <4>1 DEF AnySettings
      <3> QED
        BY <3>2, <3>3
    <2> QED
      BY <2>1, <2>2
  <1> QED
    BY <1>1, <1>2, <1>3 DEF CurrentSettings, AnySettings, Hosts

LEMMA AddressServes ==
  ASSUME NEW s \in AnySettings, s.bind # ""
  PROVE  /\ AddressOf(s) \in Address /\ AddressOf(s) # Nowhere
         /\ ListenerMatchesSettings(AddressOf(s), s)
  BY DEF AnySettings, AddressOf, Address, Nowhere, ListenerMatchesSettings, Unspecified, Resolved, Hosts

LEMMA NowhereIsAddress == Nowhere \in Address
  BY DEF Nowhere, Address, Hosts

\* A proxy without a socket behind its listener's back.
SocketsTidy(p) ==
  /\ p \in AnyProxy /\ p.listener = p.active
  /\ p.sockets = {p.listener} \ {Nowhere}

LEMMA InstallTidy ==
  ASSUME NEW p, NEW a \in Address, p \in AnyProxy, p.sockets = {}
  PROVE  SocketsTidy(Install(p, a)) \/ a = Nowhere
  BY DEF SocketsTidy, AnyProxy, Install

LEMMA ClosedTidy ==
  ASSUME NEW p, SocketsTidy(p)
  PROVE  /\ SocketsTidy(Shut(Detach(p), p.listener))
         /\ Shut(Detach(p), p.listener).sockets = {}
         /\ Shut(Detach(p), p.listener).listener = Nowhere
  BY NowhereIsAddress DEF SocketsTidy, AnyProxy, Shut, Detach

\* How a restart may end.
Well(p, s, e) ==
  /\ SocketsTidy(e.proxy) /\ e.failures \in {0, 1, 2}
  /\ e.ok => e.proxy.listener # Nowhere /\ ListenerMatchesSettings(e.proxy.listener, s)
  /\ p.listener # Nowhere /\ e.proxy.listener = Nowhere => e.failures = 2

LEMMA OneAndOne == 1 + 1 = 2
  OBVIOUS

LEMMA StaysPut ==
  ASSUME NEW p, SocketsTidy(p), NEW s,
         p.listener # Nowhere, ListenerMatchesSettings(p.listener, s), NEW e \in RestartEnds(p, s)
  PROVE  Well(p, s, e)
  <1>1. e = End(p, TRUE, 0)
    BY DEF RestartEnds
  <1>2. e.proxy = p /\ e.failures = 0
    BY <1>1 DEF End
  <1> QED
    BY <1>2 DEF Well

\* A restart on the port it holds.  It takes two failures to be left without
\* a listener: the new bind's and the old one's.
LEMMA SamePort ==
  ASSUME NEW p, SocketsTidy(p), NEW s \in AnySettings, s.bind # "", p.listener # Nowhere,
         NEW e \in RestartSamePort(p, s)
  PROVE  Well(p, s, e)
  <1> DEFINE a == AddressOf(s)
             closed == Shut(Detach(p), p.listener)
  <1>1. a \in Address /\ a # Nowhere /\ ListenerMatchesSettings(a, s)
    BY AddressServes
  <1>2. SocketsTidy(closed) /\ closed.sockets = {} /\ closed.listener = Nowhere /\ closed \in AnyProxy
    BY ClosedTidy DEF SocketsTidy
  <1>3. \/ e = End(Install(closed, a), TRUE, 0)
        \/ e = End(Install(closed, p.active), FALSE, 1)
        \/ e = End(closed, FALSE, 2)
    BY OneAndOne DEF RestartSamePort, RestoreAfterRestartFailure
  <1>4. p.active \in Address /\ p.active # Nowhere
    BY DEF SocketsTidy, AnyProxy
  <1> HIDE DEF closed, a
  <1>5. SocketsTidy(Install(closed, a)) /\ SocketsTidy(Install(closed, p.active))
    BY <1>1, <1>2, <1>4, InstallTidy
  <1>6. Install(closed, a).listener = a /\ Install(closed, p.active).listener = p.active
    BY <1>2 DEF Install, AnyProxy
  <1>7. CASE e = End(Install(closed, a), TRUE, 0)
    <2>1. e.proxy = Install(closed, a) /\ e.failures = 0
      BY <1>7 DEF End
    <2> QED
      BY <1>1, <1>5, <1>6, <2>1 DEF Well
  <1>8. CASE e = End(Install(closed, p.active), FALSE, 1)
    <2>1. e.proxy = Install(closed, p.active) /\ ~e.ok /\ e.failures = 1
      BY <1>8 DEF End
    <2> QED
      BY <1>4, <1>5, <1>6, <2>1 DEF Well
  <1>9. CASE e = End(closed, FALSE, 2)
    <2>1. e.proxy = closed /\ ~e.ok /\ e.failures = 2
      BY <1>9 DEF End
    <2> QED
      BY <1>2, <2>1 DEF Well
  <1> QED
    BY <1>3, <1>7, <1>8, <1>9

\* A restart on another port, or a first start: the old listener is closed
\* only once the new one is there.
LEMMA OtherPort ==
  ASSUME NEW p, SocketsTidy(p), NEW s \in AnySettings, s.bind # "",
         p.listener = Nowhere \/ ~ListenerMatchesSettings(p.listener, s),
         NEW e \in RestartOtherPort(p, s)
  PROVE  Well(p, s, e)
  <1> DEFINE a == AddressOf(s)
             moved == Shut(Install(p, a), p.listener)
  <1>1. a \in Address /\ a # Nowhere /\ ListenerMatchesSettings(a, s)
    BY AddressServes
  <1>2. a # p.listener
    BY <1>1
  <1>3. SocketsTidy(moved) /\ moved.listener = a
    BY <1>1, <1>2 DEF SocketsTidy, AnyProxy, Install, Shut
  <1>4. e = End(moved, TRUE, 0) \/ e = End(p, FALSE, 1) \/ e = End(moved, FALSE, 1)
    BY DEF RestartOtherPort
  <1> HIDE DEF moved, a
  <1>5. CASE e = End(moved, TRUE, 0)
    <2>1. e.proxy = moved /\ e.failures = 0
      BY <1>5 DEF End
    <2> QED
      BY <1>1, <1>3, <2>1 DEF Well
  <1>6. CASE e = End(p, FALSE, 1)
    <2>1. e.proxy = p /\ ~e.ok /\ e.failures = 1
      BY <1>6 DEF End
    <2>2. SocketsTidy(e.proxy)
      BY <2>1
    <2>3. e.failures \in {0, 1, 2}
      BY <2>1
    <2>4. p.listener # Nowhere /\ e.proxy.listener = Nowhere => e.failures = 2
      BY <2>1
    <2>5. e.ok => e.proxy.listener # Nowhere /\ ListenerMatchesSettings(e.proxy.listener, s)
      BY <2>1
    <2> QED
      BY <2>2, <2>3, <2>4, <2>5 DEF Well
  <1>7. CASE e = End(moved, FALSE, 1)
    <2>1. e.proxy = moved /\ ~e.ok /\ e.failures = 1
      BY <1>7 DEF End
    <2> QED
      BY <1>1, <1>3, <2>1 DEF Well
  <1> QED
    BY <1>4, <1>5, <1>6, <1>7

LEMMA RestartEndsWell ==
  ASSUME NEW p, SocketsTidy(p), NEW s \in AnySettings, s.bind # "", NEW e \in RestartEnds(p, s)
  PROVE  Well(p, s, e)
  <1> DEFINE match == ListenerMatchesSettings(p.listener, s)
  <1>1. CASE p.listener # Nowhere /\ match
    BY <1>1, StaysPut
  <1>2. CASE p.listener # Nowhere /\ ~match /\ p.active.port = s.port
    <2>1. e \in RestartSamePort(p, s)
      BY <1>2 DEF RestartEnds
    <2> QED
      BY <1>2, <2>1, SamePort
  <1>3. CASE p.listener = Nowhere \/ (~match /\ p.active.port # s.port)
    <2>1. e \in RestartOtherPort(p, s)
      BY <1>3 DEF RestartEnds
    <2> QED
      BY <1>3, <2>1, OtherPort
  <1>4. match \in BOOLEAN
    BY DEF ListenerMatchesSettings
  <1> HIDE DEF match
  <1> QED
    BY <1>1, <1>2, <1>3, <1>4

---------------------------------------------------------------------------
(* The inductive invariant.                                                *)

Restarting == {"asked", "restart", "restore"}
CallPlaces == {"idle", "persist", "rollback"} \cup Restarting

Kept ==
  /\ stored \in Storable /\ SocketsTidy(proxy)
  /\ mishaps \in 0 .. MaxMishaps /\ claim \in BOOLEAN /\ wanted \in BOOLEAN

Call == [at : CallPlaces, prev : AnySettings, next : AnySettings]

\* What a call remembers, and that only a restarting call holds the lock.
CallsInv ==
  /\ caller \in [Callers -> Call]
  /\ \A c \in Callers :
       /\ caller[c].at = "persist" => caller[c].next \in Settings
       /\ caller[c].at \in {"persist", "restart", "rollback"} => caller[c].prev \in Storable
  /\ lock = {} \/ \E c \in Callers : lock = {c}
  /\ \A c \in lock : /\ c \in Callers /\ caller[c].at \in Restarting
                     /\ caller[c].next \in AnySettings /\ caller[c].next.bind # ""

Underway == \E c \in Callers : caller[c].at \in {"restart", "rollback", "restore"}

Agreed ==
  /\ Running => ListenerMatchesSettings(proxy.listener, CurrentSettings(GetSettings))
  /\ proxy.enforce # stored.enforce => proxy.enforce = "observe" /\ mishaps > 0

\* A good report is about the settings now stored, or another is on its way.
ClaimHolds == claim => Underway \/ Agreed

\* The lock holder restarts with the stored settings, unless a call overtook it
\* that has its own restart to come.
Current ==
  \A c \in lock :
    \/ caller[c].next = CurrentSettings(GetSettings)
    \/ \E d \in Callers \ {c} : caller[d].at \in {"restart", "restore"}

Survives == wanted /\ mishaps <= 1 => Running

LifeInv == Kept /\ CallsInv /\ ClaimHolds /\ Current /\ Survives

\* What a step leaves alone of another call.
OthersKept(c) == \A d \in Callers \ {c} : caller'[d] = caller[d]

LEMMA UnsetIsSettings == Unset \in AnySettings /\ NoCall \in Call
  BY DEF Unset, NoCall, AnySettings, Hosts, Modes, Call, CallPlaces, Restarting

LEMMA CallGoesOn ==
  ASSUME caller \in [Callers -> Call], NEW c \in Callers, NEW place \in CallPlaces, Goes(c, place)
  PROVE  /\ caller' \in [Callers -> Call] /\ OthersKept(c)
         /\ caller'[c].at = place /\ caller'[c].prev = caller[c].prev
         /\ caller'[c].next = caller[c].next
  BY DEF Goes, Call, OthersKept

LEMMA CallOver ==
  ASSUME caller \in [Callers -> Call], NEW c \in Callers, CallEnds(c)
  PROVE  /\ caller' \in [Callers -> Call] /\ OthersKept(c)
         /\ caller'[c].at = "idle"
  BY UnsetIsSettings DEF CallEnds, NoCall, OthersKept

\* A call is either over or, when its first restart failed, at its rollback.
LEMMA Conclusion ==
  ASSUME CallsInv, NEW c \in Callers, NEW ok, Concluded(c, ok)
  PROVE  /\ caller' \in [Callers -> Call] /\ OthersKept(c)
         /\ \/ caller'[c].at = "idle" /\ claim' = ok
            \/ /\ caller'[c].at = "rollback" /\ caller[c].at = "restart" /\ claim' = claim
               /\ caller'[c].prev = caller[c].prev
  <1>1. CASE caller[c].at = "restart" /\ ~ok
    <2>1. caller' = [caller EXCEPT ![c].at = "rollback", ![c].next = Unset] /\ claim' = claim
      BY <1>1 DEF Concluded
    <2> QED
      BY <1>1, <2>1, UnsetIsSettings DEF CallsInv, Call, OthersKept, CallPlaces
  <1>2. CASE ~(caller[c].at = "restart" /\ ~ok)
    BY <1>2, CallOver DEF Concluded, CallsInv
  <1> QED
    BY <1>1, <1>2

\* How a step of one call keeps the calls, whatever it does with the lock.
LEMMA CallsKept ==
  ASSUME CallsInv, NEW c \in Callers, caller' \in [Callers -> Call], OthersKept(c),
         caller'[c].at = "persist" => caller'[c].next \in Settings,
         caller'[c].at \in {"persist", "restart", "rollback"} => caller'[c].prev \in Storable,
         \/ lock' = lock /\ c \notin lock
         \/ lock' = {}
         \/ /\ lock' = {c} /\ caller'[c].at \in Restarting
            /\ caller'[c].next \in AnySettings /\ caller'[c].next.bind # ""
  PROVE  CallsInv'
  <1>1. /\ \A d \in Callers :
               /\ caller'[d].at = "persist" => caller'[d].next \in Settings
               /\ caller'[d].at \in {"persist", "restart", "rollback"} => caller'[d].prev \in Storable
    BY DEF CallsInv, OthersKept
  <1>2. lock' = {} \/ \E d \in Callers : lock' = {d}
    BY DEF CallsInv
  <1>3. ASSUME NEW d \in lock'
        PROVE  /\ d \in Callers /\ caller'[d].at \in Restarting
               /\ caller'[d].next \in AnySettings /\ caller'[d].next.bind # ""
    <2>1. CASE lock' = {c} /\ caller'[c].at \in Restarting
                /\ caller'[c].next \in AnySettings /\ caller'[c].next.bind # ""
      BY <1>3, <2>1
    <2>2. CASE lock' = lock /\ c \notin lock
      BY <1>3, <2>2 DEF CallsInv, OthersKept
    <2> QED
      BY <1>3, <2>1, <2>2
  <1> QED
    BY <1>1, <1>2, <1>3 DEF CallsInv, Storable

\* The lock holder's settings stay current when a step stores nothing and calls
\* off no restart to come.
LEMMA CurrentKept ==
  ASSUME CallsInv, Current, NEW c \in Callers, c \notin lock, stored' = stored, lock' = lock,
         OthersKept(c),
         caller[c].at \in {"restart", "restore"} => caller'[c].at \in {"restart", "restore"}
  PROVE  Current'
  <1> SUFFICES ASSUME NEW h \in lock'
               PROVE  \/ caller'[h].next = CurrentSettings(GetSettings)'
                      \/ \E d \in Callers \ {h} : caller'[d].at \in {"restart", "restore"}
    BY DEF Current
  <1>1. h \in lock /\ h \in Callers /\ caller'[h] = caller[h]
    BY DEF CallsInv, OthersKept
  <1>2. CurrentSettings(GetSettings)' = CurrentSettings(GetSettings)
    BY DEF GetSettings, CurrentSettings
  <1>3. CASE caller[h].next = CurrentSettings(GetSettings)
    BY <1>1, <1>2, <1>3
  <1>4. CASE \E d \in Callers \ {h} : caller[d].at \in {"restart", "restore"}
    BY <1>1, <1>4 DEF OthersKept
  <1> QED
    BY <1>1, <1>3, <1>4 DEF Current

LEMMA StartKeeps ==
  ASSUME LifeInv, NEW c \in Callers, Start(c)
  PROVE  LifeInv'
  <1> DEFINE s == CurrentSettings(GetSettings)
  <1>1. /\ s \in AnySettings /\ s.bind # ""
        /\ AddressOf(s) \in Address /\ AddressOf(s) # Nowhere
        /\ ListenerMatchesSettings(AddressOf(s), s)
    BY ReadBack, AddressServes DEF LifeInv, Kept
  <1>2. UNCHANGED <<stored, caller, lock, claim>> /\ lock = {} /\ ~Running
    BY DEF Start
  <1>3. s' = s
    BY <1>2 DEF GetSettings, CurrentSettings
  <1>4. CallsInv' /\ Current' /\ (Underway' <=> Underway)
    BY <1>2 DEF LifeInv, CallsInv, Current, Underway, Storable
  <1>5. mishaps' \in 0 .. MaxMishaps /\ mishaps' >= mishaps
    BY LifecycleAssumption DEF LifeInv, Kept, Start, Mishap
  <1>6. \/ proxy' = Install(proxy, AddressOf(s)) /\ wanted' = TRUE /\ mishaps' = mishaps
        \/ proxy' = proxy /\ wanted' = wanted
    BY DEF Start
  <1> HIDE DEF s
  <1>7. CASE proxy' = Install(proxy, AddressOf(s)) /\ wanted' = TRUE /\ mishaps' = mishaps
    <2>1. /\ proxy \in AnyProxy /\ proxy.sockets = {}
      BY <1>2 DEF LifeInv, Kept, SocketsTidy, Running
    <2>2. SocketsTidy(proxy)' /\ proxy'.listener = AddressOf(s) /\ proxy'.enforce = proxy.enforce
      <3>1. SocketsTidy(Install(proxy, AddressOf(s)))
        BY <1>1, <2>1, InstallTidy
      <3>2. SocketsTidy(proxy')
        BY <1>7, <3>1
      <3> QED
        BY <1>7, <2>1, <3>2 DEF Install, AnyProxy, SocketsTidy, Address, Hosts, Modes
    <2>3. Running' /\ wanted' \in BOOLEAN /\ claim' \in BOOLEAN
      BY <1>1, <1>2, <1>7, <2>2 DEF Running, Nowhere, LifeInv, Kept
    <2>4. ListenerMatchesSettings(proxy'.listener, CurrentSettings(GetSettings)')
      BY <1>1, <1>3, <2>2 DEF s
    <2>5. Agreed => Agreed'
      BY <1>2, <1>7, <2>2, <2>4 DEF Agreed, ListenerMatchesSettings, Unspecified
    <2> QED
      BY <1>2, <1>4, <1>5, <2>2, <2>3, <2>5 DEF LifeInv, Kept, ClaimHolds, Survives
  <1>8. CASE proxy' = proxy /\ wanted' = wanted
    <2>1. SocketsTidy(proxy)' /\ (Running' <=> Running)
      BY <1>8 DEF LifeInv, Kept, SocketsTidy, Running, Nowhere
    <2>2. Agreed => Agreed'
      BY <1>2, <1>5, <1>8, <2>1 DEF Agreed, LifeInv, Kept
    <2> QED
      BY <1>2, <1>4, <1>5, <1>8, <2>1, <2>2, LifecycleAssumption DEF LifeInv, Kept, ClaimHolds, Survives
  <1> QED
    BY <1>6, <1>7, <1>8

LEMMA StopKeeps ==
  ASSUME LifeInv, NEW c \in Callers, Stop(c)
  PROVE  LifeInv'
  <1>1. UNCHANGED <<stored, caller, lock, mishaps, claim>> /\ wanted' = FALSE
    BY DEF Stop
  <1>2. CallsInv' /\ Current' /\ (Underway' <=> Underway)
    <2>1. CurrentSettings(GetSettings)' = CurrentSettings(GetSettings)
      BY <1>1 DEF GetSettings, CurrentSettings
    <2> QED
      BY <1>1, <2>1 DEF LifeInv, CallsInv, Current, Underway, Storable
  <1>3. SocketsTidy(proxy') /\ proxy'.listener = Nowhere
    BY ClosedTidy DEF LifeInv, Kept, Stop
  <1>4. proxy'.enforce = proxy.enforce
    BY DEF LifeInv, Kept, SocketsTidy, AnyProxy, Stop, Shut, Detach
  <1>5. SocketsTidy(proxy)' /\ ~Running'
    BY <1>3 DEF SocketsTidy, Running, Nowhere, AnyProxy, Address, Hosts, Modes
  <1>6. Agreed => Agreed'
    BY <1>1, <1>4, <1>5 DEF Agreed
  <1> QED
    BY <1>1, <1>2, <1>5, <1>6 DEF LifeInv, Kept, ClaimHolds, Survives

\* A step that leaves the proxy, the store and the history alone.
LEMMA OnlyCalls ==
  ASSUME LifeInv, UNCHANGED <<stored, proxy, claim, wanted>>,
         mishaps' \in 0 .. MaxMishaps, mishaps' >= mishaps,
         claim => (Underway => Underway')
  PROVE  Kept' /\ ClaimHolds' /\ Survives'
  <1>1. SocketsTidy(proxy)' /\ (Running' <=> Running)
    BY DEF LifeInv, Kept, SocketsTidy, Running, Nowhere, AnyProxy, Address, Hosts, Modes
  <1>2. CurrentSettings(GetSettings)' = CurrentSettings(GetSettings)
    BY DEF GetSettings, CurrentSettings
  <1>3. Agreed => Agreed'
    BY <1>1, <1>2 DEF Agreed, LifeInv, Kept, ListenerMatchesSettings, Resolved, Unspecified
  <1>4. Kept' /\ ClaimHolds'
    BY <1>1, <1>3 DEF LifeInv, Kept, ClaimHolds, Storable
  <1>5. Survives'
    BY <1>1, LifecycleAssumption DEF LifeInv, Kept, Survives
  <1> QED
    BY <1>4, <1>5

LEMMA AskRestartKeeps ==
  ASSUME LifeInv, NEW c \in Callers, AskRestart(c)
  PROVE  LifeInv'
  <1>1. /\ caller[c].at = "idle" /\ Goes(c, "asked")
        /\ UNCHANGED <<stored, proxy, lock, mishaps, claim, wanted>>
    BY DEF AskRestart
  <1>2. /\ caller' \in [Callers -> Call] /\ OthersKept(c) /\ caller'[c].at = "asked"
    BY <1>1, CallGoesOn DEF LifeInv, CallsInv, CallPlaces, Restarting
  <1>3. c \notin lock
    BY <1>1 DEF LifeInv, CallsInv, Restarting
  <1>4. CallsInv'
    BY <1>1, <1>2, <1>3, CallsKept DEF LifeInv
  <1>5. Current'
    BY <1>1, <1>2, <1>3, CurrentKept DEF LifeInv
  <1>6. Underway => Underway'
    BY <1>1, <1>2 DEF Underway, OthersKept
  <1>7. mishaps' \in 0 .. MaxMishaps /\ mishaps' >= mishaps
    BY <1>1, LifecycleAssumption DEF LifeInv, Kept
  <1> QED
    BY <1>1, <1>4, <1>5, <1>6, <1>7, OnlyCalls DEF LifeInv

LEMMA ReadPreviousKeeps ==
  ASSUME LifeInv, NEW c \in Callers, NEW s \in Settings, ReadPrevious(c, s)
  PROVE  LifeInv'
  <1>1. /\ caller[c].at = "idle" /\ UNCHANGED <<stored, proxy, lock, mishaps, claim, wanted>>
        /\ caller' = [caller EXCEPT ![c] = [at |-> "persist", prev |-> GetSettings, next |-> s]]
    BY DEF ReadPrevious
  <1>2. GetSettings \in Storable /\ GetSettings \in AnySettings /\ s \in AnySettings
    BY ReadBack, StorableSettings DEF LifeInv, Kept, Storable
  <1>3. [at |-> "persist", prev |-> GetSettings, next |-> s] \in Call
    BY <1>2 DEF Call, CallPlaces
  <1>4. /\ caller' \in [Callers -> Call] /\ OthersKept(c) /\ caller'[c].at = "persist"
        /\ caller'[c].prev = GetSettings /\ caller'[c].next = s
    BY <1>1, <1>3 DEF LifeInv, CallsInv, OthersKept
  <1>5. c \notin lock
    BY <1>1 DEF LifeInv, CallsInv, Restarting
  <1>6. CallsInv'
    BY <1>1, <1>2, <1>4, <1>5, CallsKept DEF LifeInv
  <1>7. Current'
    BY <1>1, <1>4, <1>5, CurrentKept DEF LifeInv
  <1>8. Underway => Underway'
    BY <1>1, <1>4 DEF Underway, OthersKept
  <1>9. mishaps' \in 0 .. MaxMishaps /\ mishaps' >= mishaps
    BY <1>1, LifecycleAssumption DEF LifeInv, Kept
  <1> QED
    BY <1>1, <1>6, <1>7, <1>8, <1>9, OnlyCalls DEF LifeInv

LEMMA PersistKeeps ==
  ASSUME LifeInv, NEW c \in Callers, Persist(c)
  PROVE  LifeInv'
  <1>1. caller[c].at = "persist" /\ UNCHANGED <<proxy, lock, claim, wanted>>
    BY DEF Persist
  <1>2. c \notin lock
    BY <1>1 DEF LifeInv, CallsInv, Restarting
  <1>3. CASE /\ stored' = caller[c].next /\ UNCHANGED mishaps
             /\ caller' = [caller EXCEPT ![c].at = "restart", ![c].next = Unset]
    <2>1. /\ caller' \in [Callers -> Call] /\ OthersKept(c)
          /\ caller'[c].at = "restart" /\ caller'[c].prev = caller[c].prev
      BY <1>3, UnsetIsSettings DEF LifeInv, CallsInv, OthersKept, Call, CallPlaces, Restarting
    <2>2. caller'[c].prev \in Storable /\ stored' \in Settings
      BY <1>1, <1>3, <2>1 DEF LifeInv, CallsInv
    <2>3. CallsInv'
      BY <1>1, <1>2, <2>1, <2>2, CallsKept DEF LifeInv
    <2>4. Underway'
      BY <2>1 DEF Underway
    <2>5. Current'
      <3>1. \A h \in lock : h \in Callers /\ h # c
        BY <1>2 DEF LifeInv, CallsInv
      <3> QED
        BY <1>1, <2>1, <3>1 DEF Current
    <2>6. Kept' /\ ClaimHolds' /\ Survives'
      <3>1. SocketsTidy(proxy)' /\ (Running' <=> Running)
        BY <1>1 DEF LifeInv, Kept, SocketsTidy, Running, Nowhere, AnyProxy, Address, Hosts, Modes
      <3> QED
        BY <1>1, <1>3, <2>2, <2>4, <3>1 DEF LifeInv, Kept, Storable, ClaimHolds, Survives
    <2> QED
      BY <2>3, <2>5, <2>6 DEF LifeInv
  <1>4. CASE Mishap(1) /\ CallEnds(c) /\ UNCHANGED stored
    <2>1. caller' \in [Callers -> Call] /\ OthersKept(c) /\ caller'[c].at = "idle"
      BY <1>4, CallOver DEF LifeInv, CallsInv
    <2>2. CallsInv'
      BY <1>1, <1>2, <2>1, CallsKept DEF LifeInv
    <2>3. Current'
      BY <1>1, <1>2, <1>4, <2>1, CurrentKept DEF LifeInv
    <2>4. Underway => Underway'
      BY <1>1, <2>1 DEF Underway, OthersKept
    <2>5. mishaps' \in 0 .. MaxMishaps /\ mishaps' >= mishaps
      BY <1>4, LifecycleAssumption DEF LifeInv, Kept, Mishap
    <2> QED
      BY <1>1, <1>4, <2>2, <2>3, <2>4, <2>5, OnlyCalls DEF LifeInv
  <1> QED
    BY <1>3, <1>4 DEF Persist

\* A step that admits that the settings may not be served.
LEMMA Admitted ==
  ASSUME LifeInv, UNCHANGED <<proxy, wanted>>, stored' \in Storable, claim' = FALSE,
         mishaps' \in 0 .. MaxMishaps, mishaps' >= mishaps
  PROVE  Kept' /\ ClaimHolds' /\ Survives'
  <1>1. SocketsTidy(proxy)' /\ (Running' <=> Running)
    BY DEF LifeInv, Kept, SocketsTidy, Running, Nowhere, AnyProxy, Address, Hosts, Modes
  <1>2. Survives'
    BY <1>1, LifecycleAssumption DEF LifeInv, Kept, Survives
  <1>3. claim' \in BOOLEAN /\ wanted' \in BOOLEAN
    BY DEF LifeInv, Kept
  <1>4. Kept'
    BY <1>1, <1>3 DEF Kept, Storable
  <1> QED
    BY <1>2, <1>4 DEF ClaimHolds

\* A call whose read fails is at its rollback, or gives up and says so.
LEMMA ReadSettingsKeeps ==
  ASSUME LifeInv, NEW c \in Callers, ReadSettings(c)
  PROVE  LifeInv'
  <1>1. /\ caller[c].at \in Restarting /\ lock = {} /\ UNCHANGED <<stored, proxy, wanted>>
    BY DEF ReadSettings, Restarting
  <1> DEFINE s == CurrentSettings(GetSettings)
  <1>2. s \in AnySettings /\ s.bind # "" /\ s' = s
    BY <1>1, ReadBack DEF LifeInv, Kept, GetSettings, CurrentSettings
  <1> HIDE DEF s
  <1>3. CASE /\ caller' = [caller EXCEPT ![c].next = s]
             /\ lock' = {c} /\ UNCHANGED <<mishaps, claim>>
    <2>1. /\ caller' \in [Callers -> Call] /\ OthersKept(c) /\ caller'[c].next = s
          /\ caller'[c].prev = caller[c].prev /\ caller'[c].at = caller[c].at
      BY <1>2, <1>3 DEF LifeInv, CallsInv, OthersKept, Call
    <2>2. CallsInv'
      <3>1. caller'[c].at \in Restarting /\ caller'[c].at # "persist"
        BY <1>1, <2>1 DEF Restarting
      <3>2. caller'[c].at \in {"persist", "restart", "rollback"} => caller'[c].prev \in Storable
        BY <2>1 DEF LifeInv, CallsInv
      <3> QED
        BY <1>2, <1>3, <2>1, <3>1, <3>2, CallsKept DEF LifeInv
    <2>3. Current'
      BY <1>2, <1>3, <2>1 DEF Current, s
    <2>4. Underway => Underway'
      BY <2>1 DEF Underway, OthersKept
    <2>5. mishaps' \in 0 .. MaxMishaps /\ mishaps' >= mishaps
      BY <1>3, LifecycleAssumption DEF LifeInv, Kept
    <2> QED
      BY <1>1, <1>3, <2>2, <2>3, <2>4, <2>5, OnlyCalls DEF LifeInv
  <1>4. CASE Mishap(1) /\ Concluded(c, FALSE) /\ UNCHANGED lock
    <2>1. /\ caller' \in [Callers -> Call] /\ OthersKept(c)
          /\ \/ caller'[c].at = "idle" /\ claim' = FALSE
             \/ /\ caller'[c].at = "rollback" /\ caller[c].at = "restart" /\ claim' = claim
                /\ caller'[c].prev = caller[c].prev
      BY <1>4, Conclusion DEF LifeInv
    <2>2. CallsInv'
      BY <1>1, <1>4, <2>1, CallsKept DEF LifeInv, CallsInv
    <2>3. Current'
      BY <1>1, <1>4 DEF Current
    <2>4. mishaps' \in 0 .. MaxMishaps /\ mishaps' >= mishaps
      BY <1>4, LifecycleAssumption DEF LifeInv, Kept, Mishap
    <2>5. CASE claim' = claim /\ caller'[c].at = "rollback"
      <3>1. Underway'
        BY <2>5 DEF Underway
      <3> QED
        BY <1>1, <2>2, <2>3, <2>4, <2>5, <3>1, OnlyCalls DEF LifeInv
    <2>6. CASE claim' = FALSE
      <3>1. stored' \in Storable
        BY <1>1 DEF LifeInv, Kept
      <3> QED
        BY <1>1, <2>2, <2>3, <2>4, <2>6, <3>1, Admitted DEF LifeInv
    <2> QED
      BY <2>1, <2>5, <2>6
  <1> QED
    BY <1>3, <1>4 DEF ReadSettings, s

LEMMA RollBackKeeps ==
  ASSUME LifeInv, NEW c \in Callers, RollBack(c)
  PROVE  LifeInv'
  <1>1. caller[c].at = "rollback" /\ UNCHANGED <<proxy, lock, wanted>>
    BY DEF RollBack
  <1>2. c \notin lock
    BY <1>1 DEF LifeInv, CallsInv, Restarting
  <1>3. CASE stored' = caller[c].prev /\ Goes(c, "restore") /\ UNCHANGED <<mishaps, claim>>
    <2>1. /\ caller' \in [Callers -> Call] /\ OthersKept(c) /\ caller'[c].at = "restore"
      BY <1>3, CallGoesOn DEF LifeInv, CallsInv, CallPlaces, Restarting
    <2>2. stored' \in Storable
      BY <1>1, <1>3 DEF LifeInv, CallsInv
    <2>3. CallsInv'
      BY <1>1, <1>2, <2>1, CallsKept DEF LifeInv
    <2>4. Underway'
      BY <2>1 DEF Underway
    <2>5. Current'
      <3>1. \A h \in lock : h \in Callers /\ h # c
        BY <1>2 DEF LifeInv, CallsInv
      <3> QED
        BY <1>1, <2>1, <3>1 DEF Current
    <2>6. Kept' /\ ClaimHolds' /\ Survives'
      <3>1. SocketsTidy(proxy)' /\ (Running' <=> Running)
        BY <1>1 DEF LifeInv, Kept, SocketsTidy, Running, Nowhere, AnyProxy, Address, Hosts, Modes
      <3> QED
        BY <1>1, <1>3, <2>2, <2>4, <3>1 DEF LifeInv, Kept, Storable, ClaimHolds, Survives
    <2> QED
      BY <2>3, <2>5, <2>6 DEF LifeInv
  <1>4. CASE Mishap(1) /\ CallEnds(c) /\ claim' = FALSE /\ UNCHANGED stored
    <2>1. caller' \in [Callers -> Call] /\ OthersKept(c) /\ caller'[c].at = "idle"
      BY <1>4, CallOver DEF LifeInv, CallsInv
    <2>2. CallsInv'
      BY <1>1, <1>2, <2>1, CallsKept DEF LifeInv
    <2>3. Current'
      BY <1>1, <1>2, <1>4, <2>1, CurrentKept DEF LifeInv
    <2>4. mishaps' \in 0 .. MaxMishaps /\ mishaps' >= mishaps
      BY <1>4, LifecycleAssumption DEF LifeInv, Kept, Mishap
    <2>5. stored' \in Storable
      BY <1>4 DEF LifeInv, Kept
    <2> QED
      BY <1>1, <1>4, <2>2, <2>3, <2>4, <2>5, Admitted DEF LifeInv
  <1> QED
    BY <1>3, <1>4 DEF RollBack

\* The end of a restart tells the truth.
LEMMA EndsSayWhether ==
  ASSUME NEW p, NEW s, NEW e \in RestartEnds(p, s)
  PROVE  e.ok \in BOOLEAN
  <1>1. \E q, n : e = End(q, TRUE, n) \/ e = End(q, FALSE, n)
    BY DEF RestartEnds, RestartSamePort, RestartOtherPort, RestoreAfterRestartFailure
  <1>2. PICK q, n : e = End(q, TRUE, n) \/ e = End(q, FALSE, n)
    BY <1>1
  <1>3. CASE e = End(q, TRUE, n)
    BY <1>3 DEF End
  <1>4. CASE e = End(q, FALSE, n)
    BY <1>4 DEF End
  <1> QED
    BY <1>2, <1>3, <1>4

LEMMA RebindKeeps ==
  ASSUME LifeInv, NEW c \in Callers, Rebind(c)
  PROVE  LifeInv'
  <1>1. lock = {c} /\ lock' = {} /\ UNCHANGED stored
    BY DEF Rebind
  <1> DEFINE s == caller[c].next
  <1>2. caller[c].at \in Restarting /\ s \in AnySettings /\ s.bind # "" /\ SocketsTidy(proxy)
    BY <1>1 DEF LifeInv, CallsInv, Kept
  <1>3. PICK lost \in {0, 1}, e \in RestartEnds(proxy, s) :
          /\ Mishap(lost + e.failures)
          /\ proxy' = [e.proxy EXCEPT !.enforce = IF lost = 1 THEN "observe" ELSE GetSettings.enforce]
          /\ Concluded(c, e.ok)
          /\ wanted' = (wanted \/ e.ok)
    BY DEF Rebind
  <1>4. Well(proxy, s, e) /\ e.ok \in BOOLEAN
    BY <1>2, RestartEndsWell, EndsSayWhether
  <1>5. /\ caller' \in [Callers -> Call] /\ OthersKept(c)
        /\ \/ caller'[c].at = "idle" /\ claim' = e.ok
           \/ /\ caller'[c].at = "rollback" /\ caller[c].at = "restart" /\ claim' = claim
              /\ caller'[c].prev = caller[c].prev
    BY <1>3, Conclusion DEF LifeInv
  <1>6. CallsInv'
    BY <1>1, <1>5, CallsKept DEF LifeInv, CallsInv
  <1>7. Current'
    BY <1>1 DEF Current
  <1>8. GetSettings.enforce = stored.enforce /\ stored.enforce \in Modes
    BY ReadBack, StorableSettings DEF LifeInv, Kept, AnySettings
  <1>9. SocketsTidy(proxy') /\ proxy'.listener = e.proxy.listener
    BY <1>3, <1>4, <1>8 DEF Well, SocketsTidy, AnyProxy, Modes
  <1>10. proxy'.enforce = IF lost = 1 THEN "observe" ELSE stored.enforce
    BY <1>3, <1>4, <1>8 DEF Well, SocketsTidy, AnyProxy
  <1>11. /\ mishaps' \in 0 .. MaxMishaps /\ mishaps' >= mishaps
         /\ lost = 1 => mishaps' > 0
         /\ e.failures = 2 => mishaps' >= 2
    <2>1. lost \in {0, 1} /\ e.failures \in {0, 1, 2} /\ mishaps \in 0 .. MaxMishaps
      BY <1>4 DEF Well, LifeInv, Kept
    <2>2. mishaps' = mishaps + (lost + e.failures) /\ mishaps' <= MaxMishaps
      BY <1>3 DEF Mishap
    <2> QED
      BY <2>1, <2>2, LifecycleAssumption
  <1>12. SocketsTidy(proxy)' /\ Running' = (e.proxy.listener # Nowhere)
    BY <1>9 DEF SocketsTidy, Running, Nowhere, AnyProxy, Address, Hosts, Modes
  <1>13. Kept'
    <2>1. claim' \in BOOLEAN /\ wanted' \in BOOLEAN
      BY <1>3, <1>4, <1>5 DEF LifeInv, Kept
    <2> QED
      BY <1>1, <1>11, <1>12, <2>1 DEF LifeInv, Kept, Storable
  <1>14. ClaimHolds'
    <2>1. CASE caller'[c].at = "rollback"
      BY <2>1 DEF ClaimHolds, Underway
    <2>2. CASE claim' = e.ok
      <3>1. SUFFICES ASSUME e.ok PROVE Underway' \/ Agreed'
        BY <2>2 DEF ClaimHolds
      <3>2. CASE \E d \in Callers \ {c} : caller[d].at \in {"restart", "restore"}
        BY <1>5, <3>2 DEF OthersKept, Underway
      <3>3. CASE s = CurrentSettings(GetSettings)
        <4>1. ListenerMatchesSettings(proxy'.listener, s)
          BY <1>4, <1>9, <3>1 DEF Well
        <4>2. CurrentSettings(GetSettings)' = s
          BY <1>1, <3>3 DEF GetSettings, CurrentSettings
        <4>3. ListenerMatchesSettings(proxy.listener, CurrentSettings(GetSettings))'
          BY <4>1, <4>2 DEF ListenerMatchesSettings, Resolved, Unspecified
        <4>4. (proxy.enforce # stored.enforce => proxy.enforce = "observe" /\ mishaps > 0)'
          BY <1>1, <1>10, <1>11
        <4> QED
          BY <4>3, <4>4 DEF Agreed
      <3> QED
        BY <1>1, <3>2, <3>3 DEF LifeInv, Current
    <2> QED
      BY <1>5, <2>1, <2>2
  <1>15. Survives'
    <2> SUFFICES ASSUME wanted', mishaps' <= 1 PROVE Running'
      BY DEF Survives
    <2>1. mishaps <= 1 /\ e.failures # 2
      BY <1>11, LifecycleAssumption DEF LifeInv, Kept
    <2>2. CASE e.ok
      BY <1>4, <1>12, <2>2 DEF Well
    <2>3. CASE ~e.ok
      <3>1. Running
        BY <1>3, <2>1, <2>3 DEF LifeInv, Survives
      <3> QED
        BY <1>4, <1>12, <2>1, <3>1 DEF Well, Running
    <2> QED
      BY <2>2, <2>3
  <1> QED
    BY <1>6, <1>7, <1>13, <1>14, <1>15 DEF LifeInv

---------------------------------------------------------------------------
(* The theorems.                                                           *)

LEMMA LifeStarts == LifeInit => LifeInv
  <1> SUFFICES ASSUME LifeInit PROVE LifeInv
    OBVIOUS
  <1>1. stored \in Settings /\ stored.enforce \in Modes
    BY LifecycleAssumption DEF LifeInit, Modes
  <1>2. SocketsTidy(proxy) /\ ~Running /\ proxy.enforce = stored.enforce
    BY <1>1, NowhereIsAddress DEF LifeInit, SocketsTidy, AnyProxy, Running
  <1>3. Kept
    <2>1. mishaps \in 0 .. MaxMishaps
      BY LifecycleAssumption DEF LifeInit
    <2> QED
      BY <1>1, <1>2, <2>1 DEF LifeInit, Kept, Storable
  <1>4. CallsInv
    BY UnsetIsSettings DEF LifeInit, CallsInv, NoCall
  <1> QED
    BY <1>2, <1>3, <1>4 DEF LifeInit, LifeInv, ClaimHolds, Agreed, Current, Survives

LEMMA StepKeeps == LifeInv /\ [LifeNext]_lifeVars => LifeInv'
  <1> SUFFICES ASSUME LifeInv, [LifeNext]_lifeVars PROVE LifeInv'
    OBVIOUS
  <1>1. CASE LifeNext
    <2>1. PICK c \in Callers :
            \/ Start(c) \/ Stop(c) \/ AskRestart(c) \/ \E s \in Settings : ReadPrevious(c, s)
            \/ Persist(c) \/ ReadSettings(c) \/ Rebind(c) \/ RollBack(c)
      BY <1>1 DEF LifeNext
    <2> QED
      BY <2>1, StartKeeps, StopKeeps, AskRestartKeeps, ReadPreviousKeeps, PersistKeeps,
         ReadSettingsKeeps, RebindKeeps, RollBackKeeps
  <1>2. CASE UNCHANGED lifeVars
    <2>1. CurrentSettings(GetSettings)' = CurrentSettings(GetSettings)
      BY <1>2 DEF lifeVars, GetSettings, CurrentSettings
    <2>2. CallsInv' /\ Current' /\ (Underway' <=> Underway)
      BY <1>2, <2>1 DEF lifeVars, LifeInv, CallsInv, Current, Underway, Storable
    <2>3. UNCHANGED <<stored, proxy, claim, wanted, mishaps>>
      BY <1>2 DEF lifeVars
    <2>4. mishaps' \in 0 .. MaxMishaps /\ mishaps' >= mishaps
      BY <2>3, LifecycleAssumption DEF LifeInv, Kept
    <2> QED
      BY <2>2, <2>3, <2>4, OnlyCalls DEF LifeInv
  <1> QED
    BY <1>1, <1>2

\* What the invariant is for.
LEMMA LifeTyped == LifeInv => LifeTypeOK
  <1> SUFFICES ASSUME LifeInv PROVE LifeTypeOK
    OBVIOUS
  <1>1. \/ stored \in Settings
        \/ \E s \in Settings : s.port = 0 /\ stored = [s EXCEPT !.port = DefaultPort]
    BY DEF LifeInv, Kept, Storable
  <1>2. proxy.listener = proxy.active /\ proxy.enforce \in {"observe", "enforce"}
    BY DEF LifeInv, Kept, SocketsTidy, AnyProxy, Modes
  <1>3. \A c \in Callers :
          caller[c].at \in {"idle", "asked", "persist", "restart", "rollback", "restore"}
    BY DEF LifeInv, CallsInv, Call, CallPlaces, Restarting
  <1>4. Cardinality(lock) <= 1 /\ lock \subseteq Callers
    <2>1. CASE lock = {}
      BY <2>1, FS_EmptySet
    <2>2. CASE \E c \in Callers : lock = {c}
      BY <2>2, FS_Singleton
    <2> QED
      BY <2>1, <2>2 DEF LifeInv, CallsInv
  <1> QED
    BY <1>1, <1>2, <1>3, <1>4 DEF LifeTypeOK, LifeInv, Kept

LEMMA LifeHonest == LifeInv => ListenerHonest
  <1> SUFFICES ASSUME LifeInv PROVE ListenerHonest
    OBVIOUS
  <1>1. proxy.sockets = {proxy.listener} \ {Nowhere}
    BY DEF LifeInv, Kept, SocketsTidy
  <1>2. ASSUME claim, \A c \in Callers : caller[c].at = "idle"
        PROVE  Agreed
    BY <1>2 DEF LifeInv, ClaimHolds, Underway
  <1>3. wanted /\ mishaps <= 1 => Running
    BY DEF LifeInv, Survives
  <1> QED
    BY <1>1, <1>2, <1>3 DEF ListenerHonest, Agreed

LEMMA InductiveInvariant == LifeSpec => []LifeInv
  BY LifeStarts, StepKeeps, PTL DEF LifeSpec

\* The settings, the proxy and the calls have their types, for any callers and
\* settings: the lock has one holder at most, and the listener and the settings
\* it was opened with are set and cleared together.
THEOREM LifecycleTyping == LifeSpec => []LifeTypeOK
  BY LifeTyped, InductiveInvariant, PTL

\* What the operator was told holds (Start, Stop, Restart and SaveSettings of
\* internal/proxy/proxy.go and internal/api/app.go), for any number of calls at
\* once, any settings and any number of failures: no socket is left open or
\* closed behind the listener's back, a reported success is about the settings
\* that are stored, and one failure never takes a started proxy down.
THEOREM OperatorNotMisled == LifeSpec => []ListenerHonest
  BY LifeHonest, InductiveInvariant, PTL

---------------------------------------------------------------------------
(* What is listed in an order.                                             *)

\* R is a strict total order on S.
StrictlyTotal(R, S) ==
  /\ \A a \in S : <<a, a>> \notin R
  /\ \A a, b \in S : a # b => <<a, b>> \in R \/ <<b, a>> \in R
  /\ \A a, b, c \in S : <<a, b>> \in R /\ <<b, c>> \in R => <<a, c>> \in R

Ascends(s, R) == \A i, j \in DOMAIN s : i < j => <<s[i], s[j]>> \in R

\* A set of numbers has a least one.
LEMMA LeastOf ==
  ASSUME NEW T, T \subseteq Nat, T # {}
  PROVE  \E n \in T : \A m \in T : n <= m
<1>1. \E n \in T : \A m \in T : <<m, n>> \notin OpToRel(<, Nat)
  BY NatLessThanWellFounded, WFMin
<1>2. PICK n \in T : \A m \in T : <<m, n>> \notin OpToRel(<, Nat)
  BY <1>1
<1>3. ASSUME NEW m \in T PROVE n <= m
  <2>1. ~(m < n)
    BY <1>2 DEF OpToRel
  <2> QED BY <2>1
<1> QED BY <1>3

\* The sequences that hold a finite set once are the bijections.
LEMMA Listings ==
  ASSUME NEW S, IsFiniteSet(S), NEW s
  PROVE  /\ Cardinality(S) \in Nat
         /\ s \in SetToSeqs(S) <=> /\ s \in [1 .. Cardinality(S) -> S]
                                   /\ \A i, j \in 1 .. Cardinality(S) : i # j => s[i] # s[j]
         /\ s \in SetToSeqs(S) => /\ s \in Seq(S) /\ Len(s) = Cardinality(S)
                                  /\ DOMAIN s = 1 .. Cardinality(S)
                                  /\ \A x \in S : \E i \in DOMAIN s : s[i] = x
<1> DEFINE n == Cardinality(S)
<1>1. n \in Nat
  BY FS_CardinalityType
<1>2. s \in SetToSeqs(S) <=> /\ s \in [1 .. n -> S]
                             /\ \A i, j \in 1 .. n : i # j => s[i] # s[j]
  BY DEF SetToSeqs
<1>3. ASSUME s \in SetToSeqs(S)
      PROVE  /\ s \in Seq(S) /\ Len(s) = n /\ DOMAIN s = 1 .. n
             /\ \A x \in S : \E i \in DOMAIN s : s[i] = x
  <2>1. s \in [1 .. n -> S] /\ \A i, j \in 1 .. n : s[i] = s[j] => i = j
    BY <1>2, <1>3
  <2>2. s \in Injection(1 .. n, S)
    BY <2>1, Fun_IsInj
  <2>3. Cardinality(1 .. n) = n
    BY <1>1, FS_Interval
  <2>4. s \in Surjection(1 .. n, S)
    BY <2>2, <2>3, FS_Injection
  <2> HIDE DEF n
  <2>5. \A x \in S : \E i \in 1 .. n : s[i] = x
    BY <2>4 DEF Surjection
  <2>6. s \in Seq(S) /\ Len(s) = n
    BY <1>1, <2>1, SeqDef
  <2> QED BY <2>1, <2>5, <2>6
<1> QED BY <1>1, <1>2, <1>3

\* Of the listings of a set at most one ascends.
LEMMA OneOrder ==
  ASSUME NEW S, IsFiniteSet(S), NEW R, StrictlyTotal(R, S),
         NEW s \in SetToSeqs(S), NEW t \in SetToSeqs(S), Ascends(s, R), Ascends(t, R)
  PROVE  s = t
<1> DEFINE n == Cardinality(S)
           Bad == {i \in 1 .. n : s[i] # t[i]}
<1>1. /\ n \in Nat /\ s \in [1 .. n -> S] /\ t \in [1 .. n -> S]
      /\ DOMAIN s = 1 .. n /\ DOMAIN t = 1 .. n
      /\ \A i, j \in 1 .. n : i # j => s[i] # s[j] /\ t[i] # t[j]
      /\ \A x \in S : (\E i \in 1 .. n : s[i] = x) /\ (\E i \in 1 .. n : t[i] = x)
  <2>1. /\ n \in Nat /\ s \in [1 .. n -> S] /\ DOMAIN s = 1 .. n
        /\ \A i, j \in 1 .. n : i # j => s[i] # s[j]
        /\ \A x \in S : \E i \in DOMAIN s : s[i] = x
    BY Listings
  <2>2. /\ t \in [1 .. n -> S] /\ DOMAIN t = 1 .. n
        /\ \A i, j \in 1 .. n : i # j => t[i] # t[j]
        /\ \A x \in S : \E i \in DOMAIN t : t[i] = x
    BY Listings
  <2> HIDE DEF n
  <2> QED BY <2>1, <2>2
<1> HIDE DEF n
<1>2. SUFFICES ASSUME Bad # {} PROVE FALSE
  <2>1. s = [i \in 1 .. n |-> s[i]] /\ t = [i \in 1 .. n |-> t[i]]
    BY <1>1
  <2> QED BY <1>2, <2>1
<1>3. PICK k \in Bad : \A m \in Bad : k <= m
  <2>1. Bad \subseteq Nat
    BY <1>1
  <2> HIDE DEF Bad
  <2> QED BY <1>2, <2>1, LeastOf
<1>4. k \in 1 .. n /\ s[k] # t[k] /\ s[k] \in S /\ t[k] \in S
  BY <1>1, <1>3
<1>5. ASSUME NEW m \in 1 .. n, m < k PROVE s[m] = t[m]
  <2>1. m \notin Bad
    BY <1>3, <1>4, <1>5, <1>1
  <2> QED BY <2>1
<1>6. PICK j \in 1 .. n : t[j] = s[k]
  BY <1>1, <1>4
<1>7. PICK l \in 1 .. n : s[l] = t[k]
  BY <1>1, <1>4
<1>8. k < j
  <2>1. j # k
    BY <1>4, <1>6
  <2>2. ~(j < k)
    BY <1>1, <1>4, <1>5, <1>6
  <2> QED BY <2>1, <2>2, <1>1, <1>4
<1>9. k < l
  <2>1. l # k
    BY <1>4, <1>7
  <2>2. ~(l < k)
    BY <1>1, <1>4, <1>5, <1>7
  <2> QED BY <2>1, <2>2, <1>1, <1>4
<1>10. <<s[k], t[k]>> \in R
  BY <1>1, <1>4, <1>7, <1>9 DEF Ascends
<1>11. <<t[k], s[k]>> \in R
  BY <1>1, <1>4, <1>6, <1>8 DEF Ascends
<1> QED BY <1>4, <1>10, <1>11 DEF StrictlyTotal

\* And one does.
LEMMA SomeOrder ==
  ASSUME NEW S, IsFiniteSet(S), NEW R, StrictlyTotal(R, S)
  PROVE  \E s \in SetToSeqs(S) : Ascends(s, R)
<1> DEFINE n == Cardinality(S)
           below(x) == {y \in S : <<y, x>> \in R}
           rank == [x \in S |-> Cardinality(below(x)) + 1]
<1>1. n \in Nat
  BY FS_CardinalityType
<1>2. ASSUME NEW x \in S
      PROVE  IsFiniteSet(below(x)) /\ Cardinality(below(x)) \in Nat
  <2>1. below(x) \in SUBSET S
    OBVIOUS
  <2> QED BY <2>1, FS_Subset, FS_CardinalityType
<1>3. ASSUME NEW x \in S PROVE Cardinality(below(x)) + 1 \in 1 .. n
  <2>1. below(x) \in SUBSET (S \ {x})
    BY DEF StrictlyTotal
  <2>2. IsFiniteSet(S \ {x}) /\ Cardinality(S \ {x}) = n - 1
    BY FS_RemoveElement
  <2>3. Cardinality(below(x)) <= Cardinality(S \ {x})
    BY <2>1, <2>2, FS_Subset
  <2> HIDE DEF n, below
  <2> QED BY <1>1, <1>2, <2>2, <2>3
<1>4. ASSUME NEW x \in S, NEW y \in S, <<x, y>> \in R PROVE rank[x] < rank[y]
  <2>1. below(x) \cup {x} \in SUBSET below(y)
    BY <1>4 DEF StrictlyTotal
  <2>2. x \notin below(x)
    BY DEF StrictlyTotal
  <2>3. Cardinality(below(x) \cup {x}) = Cardinality(below(x)) + 1
    BY <1>2, <2>2, FS_AddElement
  <2>4. Cardinality(below(x) \cup {x}) <= Cardinality(below(y))
    BY <1>2, <2>1, FS_Subset
  <2> HIDE DEF below
  <2> QED BY <1>2, <2>3, <2>4
<1>5. rank \in [S -> 1 .. n] /\ \A x, y \in S : rank[x] = rank[y] => x = y
  <2>1. rank \in [S -> 1 .. n]
    BY <1>3
  <2>2. ASSUME NEW x \in S, NEW y \in S, x # y PROVE rank[x] # rank[y]
    <3>1. rank[x] < rank[y] \/ rank[y] < rank[x]
      BY <1>4, <2>2 DEF StrictlyTotal
    <3>2. rank[x] \in Int /\ rank[y] \in Int
      BY <2>1
    <3> HIDE DEF rank
    <3> QED BY <3>1, <3>2
  <2> QED BY <2>1, <2>2
<1> HIDE DEF rank
<1>6. rank \in Injection(S, 1 .. n)
  BY <1>5, Fun_IsInj
<1>7. IsFiniteSet(1 .. n) /\ Cardinality(1 .. n) = n
  BY <1>1, FS_Interval
<1>8. rank \in Surjection(S, 1 .. n)
  BY <1>6, <1>7, FS_Injection
<1>9. \A i \in 1 .. n : \E x \in S : rank[x] = i
  BY <1>8, Fun_SurjectionProperties
<1> DEFINE s == [i \in 1 .. n |-> CHOOSE x \in S : rank[x] = i]
<1>10. \A i \in 1 .. n : s[i] \in S /\ rank[s[i]] = i
  BY <1>9
<1>11. s \in [1 .. n -> S] /\ DOMAIN s = 1 .. n
  BY <1>9
<1> HIDE DEF s
<1>12. s \in SetToSeqs(S)
  <2>1. \A i, j \in 1 .. n : i # j => s[i] # s[j]
    BY <1>10
  <2> QED BY <2>1, <1>11, Listings
<1>13. ASSUME NEW i \in 1 .. n, NEW j \in 1 .. n, i < j PROVE <<s[i], s[j]>> \in R
  <2>1. s[i] # s[j] /\ s[i] \in S /\ s[j] \in S
    BY <1>10, <1>13, <1>1
  <2>2. ~(<<s[j], s[i]>> \in R)
    <3>1. ~(rank[s[j]] < rank[s[i]])
      BY <1>10, <1>13, <1>1
    <3> QED BY <3>1, <1>4, <2>1
  <2> QED BY <2>1, <2>2 DEF StrictlyTotal
<1>14. Ascends(s, R)
  BY <1>11, <1>13 DEF Ascends
<1> QED BY <1>12, <1>14
---------------------------------------------------------------------------
(* Listings that change.                                                   *)

\* A new element goes on top of a listing (CreateModelRule).
LEMMA ListedOnTop ==
  ASSUME NEW S, IsFiniteSet(S), NEW s \in SetToSeqs(S), NEW x, x \notin S,
         NEW t, t = <<x>> \o s
  PROVE  /\ t \in SetToSeqs(S \cup {x})
         /\ DOMAIN t = 1 .. Cardinality(S) + 1
         /\ t[1] = x /\ \A i \in 1 .. Cardinality(S) : t[i + 1] = s[i]
<1> DEFINE n == Cardinality(S)
<1>1. /\ n \in Nat /\ s \in Seq(S) /\ Len(s) = n /\ DOMAIN s = 1 .. n
      /\ \A i, j \in 1 .. n : i # j => s[i] # s[j]
      /\ \A i \in 1 .. n : s[i] \in S
  <2>1. /\ n \in Nat /\ s \in Seq(S) /\ Len(s) = n /\ DOMAIN s = 1 .. n
        /\ \A i, j \in 1 .. n : i # j => s[i] # s[j] /\ s \in [1 .. n -> S]
    BY Listings
  <2> HIDE DEF n
  <2> QED BY <2>1, ElementOfSeq
<1>2. IsFiniteSet(S \cup {x}) /\ Cardinality(S \cup {x}) = n + 1
  BY FS_AddElement
<1> HIDE DEF n
<1>3. /\ t \in Seq(S \cup {x}) /\ Len(t) = n + 1 /\ DOMAIN t = 1 .. n + 1
      /\ \A i \in 1 .. n + 1 : t[i] = IF i = 1 THEN x ELSE s[i - 1]
  <2>1. s \in Seq(S \cup {x}) /\ <<x>> \in Seq(S \cup {x}) /\ Len(<<x>>) = 1
    BY <1>1
  <2> QED BY <1>1, <2>1
<1>4. t \in [1 .. n + 1 -> S \cup {x}]
  <2>1. t = [i \in 1 .. n + 1 |-> t[i]] /\ \A i \in 1 .. n + 1 : t[i] \in S \cup {x}
    BY <1>3
  <2> QED BY <2>1
<1>5. ASSUME NEW i \in 1 .. n + 1, NEW j \in 1 .. n + 1, i # j PROVE t[i] # t[j]
  <2>1. CASE i = 1
    <3>1. j - 1 \in 1 .. n
      BY <1>1, <1>5, <2>1
    <3> QED BY <1>1, <1>3, <2>1, <3>1, <1>5
  <2>2. CASE j = 1
    <3>1. i - 1 \in 1 .. n
      BY <1>1, <1>5, <2>2
    <3> QED BY <1>1, <1>3, <2>2, <3>1, <1>5
  <2>3. CASE i # 1 /\ j # 1
    <3>1. i - 1 \in 1 .. n /\ j - 1 \in 1 .. n /\ i - 1 # j - 1
      BY <1>1, <1>5, <2>3
    <3> QED BY <1>1, <1>3, <2>3, <3>1
  <2> QED BY <2>1, <2>2, <2>3
<1>6. t \in SetToSeqs(S \cup {x})
  BY <1>2, <1>4, <1>5, Listings
<1>7. t[1] = x /\ \A i \in 1 .. n : t[i + 1] = s[i]
  <2>1. t[1] = x
    BY <1>1, <1>3
  <2>2. ASSUME NEW i \in 1 .. n PROVE t[i + 1] = s[i]
    <3>1. i + 1 \in 1 .. n + 1 /\ i + 1 # 1 /\ (i + 1) - 1 = i
      BY <1>1
    <3>2. t[i + 1] = s[(i + 1) - 1]
      BY <1>3, <3>1
    <3> QED BY <3>1, <3>2
  <2> QED BY <2>1, <2>2
<1> QED BY <1>3, <1>6, <1>7 DEF n

\* One element leaves a listing (DeleteModelRule).
LEMMA ListedWithout ==
  ASSUME NEW S, IsFiniteSet(S), NEW s \in SetToSeqs(S), NEW p \in DOMAIN s
  PROVE  /\ RemoveAt(s, p) \in SetToSeqs(S \ {s[p]})
         /\ DOMAIN RemoveAt(s, p) = 1 .. Cardinality(S) - 1
         /\ \A i \in 1 .. Cardinality(S) - 1 :
              /\ i < p => RemoveAt(s, p)[i] = s[i]
              /\ i >= p => RemoveAt(s, p)[i] = s[i + 1]
<1> DEFINE n == Cardinality(S)
           t == RemoveAt(s, p)
<1>1. /\ n \in Nat /\ s \in Seq(S) /\ Len(s) = n /\ DOMAIN s = 1 .. n
      /\ \A i, j \in 1 .. n : i # j => s[i] # s[j]
      /\ \A i \in 1 .. n : s[i] \in S
  <2>1. /\ n \in Nat /\ s \in Seq(S) /\ Len(s) = n /\ DOMAIN s = 1 .. n
        /\ \A i, j \in 1 .. n : i # j => s[i] # s[j] /\ s \in [1 .. n -> S]
    BY Listings
  <2> HIDE DEF n
  <2> QED BY <2>1, ElementOfSeq
<1>2. /\ IsFiniteSet(S \ {s[p]}) /\ Cardinality(S \ {s[p]}) = n - 1
      /\ p \in 1 .. n
  <2>1. p \in 1 .. n /\ s[p] \in S
    BY <1>1
  <2> QED BY <2>1, FS_RemoveElement
<1> HIDE DEF n
<1>3. /\ t \in Seq(S) /\ Len(t) = n - 1 /\ DOMAIN t = 1 .. n - 1
      /\ \A i \in 1 .. n - 1 : t[i] = IF i < p THEN s[i] ELSE s[i + 1]
  <2>1. /\ SubSeq(s, 1, p - 1) \in Seq(S) /\ Len(SubSeq(s, 1, p - 1)) = p - 1
        /\ \A i \in 1 .. p - 1 : SubSeq(s, 1, p - 1)[i] = s[i]
    BY <1>1, <1>2
  <2>2. /\ SubSeq(s, p + 1, n) \in Seq(S) /\ Len(SubSeq(s, p + 1, n)) = n - p
        /\ \A i \in 1 .. n - p : SubSeq(s, p + 1, n)[i] = s[p + i]
    BY <1>1, <1>2
  <2>3. t = SubSeq(s, 1, p - 1) \o SubSeq(s, p + 1, n)
    BY <1>1 DEF RemoveAt
  <2> DEFINE a == SubSeq(s, 1, p - 1)
             b == SubSeq(s, p + 1, n)
  <2> HIDE DEF a, b
  <2>4. /\ a \in Seq(S) /\ Len(a) = p - 1 /\ b \in Seq(S) /\ Len(b) = n - p /\ t = a \o b
        /\ \A i \in 1 .. p - 1 : a[i] = s[i]
        /\ \A i \in 1 .. n - p : b[i] = s[p + i]
    BY <2>1, <2>2, <2>3 DEF a, b
  <2> HIDE DEF t
  <2>5. t \in Seq(S) /\ Len(t) = n - 1 /\ DOMAIN t = 1 .. n - 1
    <3>1. t \in Seq(S) /\ Len(t) = Len(a) + Len(b)
      BY <2>4, ConcatProperties
    <3>2. Len(t) = n - 1
      BY <3>1, <2>4, <1>1, <1>2
    <3> QED BY <3>1, <3>2
  <2>6. ASSUME NEW i \in 1 .. n - 1
        PROVE  t[i] = IF i < p THEN s[i] ELSE s[i + 1]
    <3>1. CASE i < p
      <4>1. i \in 1 .. p - 1
        BY <3>1, <1>1, <1>2
      <4> QED BY <2>4, <4>1, <3>1, <1>1, <1>2
    <3>2. CASE ~(i < p)
      <4>1. i - (p - 1) \in 1 .. n - p /\ p + (i - (p - 1)) = i + 1
        BY <3>2, <1>1, <1>2
      <4>2. t[i] = b[i - (p - 1)]
        BY <2>4, <3>2, <1>1, <1>2
      <4> QED BY <2>4, <4>1, <4>2, <3>2
    <3> QED BY <3>1, <3>2
  <2> QED BY <2>5, <2>6
<1> HIDE DEF t
<1>4. t \in [1 .. n - 1 -> S \ {s[p]}]
  <2>1. ASSUME NEW i \in 1 .. n - 1 PROVE t[i] \in S \ {s[p]}
    <3>1. CASE i < p
      <4>1. i \in 1 .. n /\ i # p
        BY <3>1, <1>1, <1>2
      <4> QED BY <4>1, <3>1, <1>1, <1>2, <1>3
    <3>2. CASE ~(i < p)
      <4>1. i + 1 \in 1 .. n /\ i + 1 # p
        BY <3>2, <1>1, <1>2
      <4> QED BY <4>1, <3>2, <1>1, <1>2, <1>3
    <3> QED BY <3>1, <3>2
  <2>2. t = [i \in 1 .. n - 1 |-> t[i]]
    BY <1>3
  <2> QED BY <2>1, <2>2
<1>5. ASSUME NEW i \in 1 .. n - 1, NEW j \in 1 .. n - 1, i # j PROVE t[i] # t[j]
  <2> DEFINE at(k) == IF k < p THEN k ELSE k + 1
  <2>1. at(i) \in 1 .. n /\ at(j) \in 1 .. n /\ at(i) # at(j)
    BY <1>1, <1>2, <1>5
  <2>2. t[i] = s[at(i)] /\ t[j] = s[at(j)]
    BY <1>3
  <2> QED BY <1>1, <2>1, <2>2
<1>6. t \in SetToSeqs(S \ {s[p]})
  BY <1>2, <1>4, <1>5, Listings
<1>7. \A i \in 1 .. n - 1 : (i < p => t[i] = s[i]) /\ (i >= p => t[i] = s[i + 1])
  BY <1>1, <1>2, <1>3
<1> QED BY <1>3, <1>6, <1>7 DEF t, n

\* The elements of a sequence are finitely many.
LEMMA ImageFinite ==
  ASSUME NEW T, NEW s \in Seq(T)
  PROVE  IsFiniteSet(ToSet(s)) /\ Cardinality(ToSet(s)) <= Len(s)
<1>1. Len(s) \in Nat /\ DOMAIN s = 1 .. Len(s) /\ s \in [1 .. Len(s) -> ToSet(s)]
  <2>1. Len(s) \in Nat /\ DOMAIN s = 1 .. Len(s) /\ s = [i \in 1 .. Len(s) |-> s[i]]
    OBVIOUS
  <2> QED BY <2>1 DEF ToSet
<1>2. s \in Surjection(1 .. Len(s), ToSet(s))
  <2>1. \A x \in ToSet(s) : \E i \in 1 .. Len(s) : s[i] = x
    BY <1>1 DEF ToSet
  <2> QED BY <1>1, <2>1, Fun_IsSurj
<1>3. IsFiniteSet(1 .. Len(s)) /\ Cardinality(1 .. Len(s)) = Len(s)
  BY <1>1, FS_Interval
<1> QED BY <1>2, <1>3, FS_Surjection

\* An order that the store accepts lists the ids (Permutes).
LEMMA PermutesLists ==
  ASSUME NEW S, IsFiniteSet(S), NEW T, NEW s \in Seq(T), Permutes(s, S)
  PROVE  s \in SetToSeqs(S)
<1> DEFINE n == Cardinality(S)
<1>1. Len(s) = n /\ ToSet(s) = S /\ DOMAIN s = 1 .. n /\ n \in Nat
  BY FS_CardinalityType DEF Permutes
<1> HIDE DEF n
<1>2. s \in [1 .. n -> S]
  <2>1. s = [i \in 1 .. n |-> s[i]]
    BY <1>1
  <2> QED BY <1>1, <2>1 DEF ToSet
<1>3. s \in Surjection(1 .. n, S)
  <2>1. \A x \in S : \E i \in 1 .. n : s[i] = x
    BY <1>1 DEF ToSet
  <2> QED BY <1>2, <2>1, Fun_IsSurj
<1>4. IsFiniteSet(1 .. n) /\ Cardinality(1 .. n) = n
  BY <1>1, FS_Interval
<1>5. s \in Injection(1 .. n, S)
  BY <1>3, <1>4, FS_Surjection DEF n
<1>6. \A i, j \in 1 .. n : s[i] = s[j] => i = j
  BY <1>5, Fun_InjectionProperties
<1> QED BY <1>2, <1>6, Listings DEF n

\* The place an accepted order gives to an element.
LEMMA PlaceInIs ==
  ASSUME NEW S, IsFiniteSet(S), NEW s \in SetToSeqs(S), NEW k \in DOMAIN s
  PROVE  PlaceIn(s, s[k]) = k - 1
<1> DEFINE n == Cardinality(S)
<1>1. /\ n \in Nat /\ Len(s) = n /\ k \in 1 .. n
      /\ \A i, j \in 1 .. n : i # j => s[i] # s[j]
  BY Listings
<1> HIDE DEF n
<1>2. k - 1 \in 0 .. n - 1 /\ s[(k - 1) + 1] = s[k]
  BY <1>1
<1>3. \A i \in 0 .. n - 1 : s[i + 1] = s[k] => i = k - 1
  <2>1. ASSUME NEW i \in 0 .. n - 1, s[i + 1] = s[k] PROVE i = k - 1
    <3>1. i + 1 \in 1 .. n
      BY <1>1
    <3>2. i + 1 = k
      BY <1>1, <2>1, <3>1
    <3> QED BY <3>2, <1>1
  <2> QED BY <2>1
<1> QED BY <1>1, <1>2, <1>3 DEF PlaceIn
---------------------------------------------------------------------------
(* RuleBook.                                                               *)

Input == [id : Nat \ {New}, tier : Nat]

\* A rule has the id it was given once, and a name of its own.
RulesInv ==
  /\ spent \in [rules : SUBSET RuleIds, rows : 0 .. MaxRows, writes : 0 .. MaxWrites, reports : Nat]
  /\ DOMAIN modelRules \subseteq spent.rules
  /\ modelRules \in [DOMAIN modelRules -> [name : RuleNames, place : Nat, created : Nat]]
  /\ \A r \in DOMAIN modelRules : NameFree(modelRules[r].name, r)

\* The places of the rules agree with their arrangement, each its own.
ArrangedInv ==
  /\ arranged \in SetToSeqs(DOMAIN modelRules)
  /\ \A i, j \in DOMAIN arranged :
       i < j => modelRules[arranged[i]].place < modelRules[arranged[j]].place

\* A target belongs to a rule, and its counter is what was reported; a rowid not
\* yet given out has no report.
TargetsInv ==
  /\ DOMAIN ruleTargets \subseteq 1 .. spent.rows
  /\ ruleTargets \in [DOMAIN ruleTargets -> [rule : RuleIds, tier : Nat, hits : Nat]]
  /\ reported \in [1 .. MaxRows -> Nat]
  /\ \A t \in spent.rows + 1 .. MaxRows : reported[t] = 0
  /\ \A t \in DOMAIN ruleTargets :
       ruleTargets[t].rule \in DOMAIN modelRules /\ ruleTargets[t].hits = reported[t]

\* An order asked for names the rule's targets, and their tiers agree with it.
AskedInv ==
  /\ asked \in [RuleIds -> Seq(Nat)]
  /\ \A r \in RuleIds : asked[r] # <<>> =>
       /\ r \in DOMAIN modelRules /\ asked[r] \in SetToSeqs(TargetsOf(r))
       /\ \A i, j \in DOMAIN asked[r] :
            i < j => ruleTargets[asked[r][i]].tier < ruleTargets[asked[r][j]].tier

\* What the window has read is of the right form, however old.
ViewInv ==
  /\ view = [w \in Windows |-> view[w]]
  /\ \A w \in Windows :
       /\ view[w] = [kind |-> view[w].kind, rule |-> view[w].rule, list |-> view[w].list]
       /\ \/ view[w].kind = ""
          \/ view[w].kind = "rules" /\ view[w].list \in Seq(RuleIds)
          \/ view[w].kind = "targets" /\ view[w].rule \in RuleIds /\ view[w].list \in Seq(Input)

BookInv == RulesInv /\ ArrangedInv /\ TargetsInv /\ AskedInv /\ ViewInv

LEMMA BookConstants ==
  /\ IsFiniteSet(RuleIds) /\ RuleIds \subseteq Nat /\ Times \subseteq Nat
  /\ MaxRows \in Nat /\ MaxReports \in Nat /\ MaxWrites \in Nat
BY RuleBookAssumption

\* The rules, and the targets of each, are finitely many.
LEMMA BookFinite ==
  ASSUME BookInv
  PROVE  /\ IsFiniteSet(DOMAIN modelRules) /\ DOMAIN modelRules \subseteq RuleIds
         /\ \A r : IsFiniteSet(TargetsOf(r)) /\ TargetsOf(r) \subseteq Nat
<1>1. DOMAIN modelRules \subseteq RuleIds
  BY DEF BookInv, RulesInv
<1>2. IsFiniteSet(DOMAIN modelRules)
  BY <1>1, BookConstants, FS_Subset
<1>3. ASSUME NEW r PROVE IsFiniteSet(TargetsOf(r)) /\ TargetsOf(r) \subseteq Nat
  <2>1. TargetsOf(r) \subseteq 1 .. spent.rows /\ spent.rows \in Nat
    BY BookConstants DEF BookInv, RulesInv, TargetsInv, TargetsOf
  <2>2. IsFiniteSet(1 .. spent.rows)
    BY <2>1, FS_Interval
  <2> QED BY <2>1, <2>2, FS_Subset
<1> QED BY <1>1, <1>2, <1>3

\* The orders of the two listings, as relations.
RuleOrder ==
  {p \in (DOMAIN modelRules) \X (DOMAIN modelRules) :
     \/ modelRules[p[1]].place < modelRules[p[2]].place
     \/ /\ modelRules[p[1]].place = modelRules[p[2]].place
        /\ \/ modelRules[p[1]].created > modelRules[p[2]].created
           \/ modelRules[p[1]].created = modelRules[p[2]].created /\ p[1] > p[2]}

TargetOrder(r) ==
  {p \in TargetsOf(r) \X TargetsOf(r) :
     \/ ruleTargets[p[1]].tier < ruleTargets[p[2]].tier
     \/ ruleTargets[p[1]].tier = ruleTargets[p[2]].tier /\ p[1] < p[2]}

LEMMA RuleOrderIs ==
  ASSUME NEW a \in DOMAIN modelRules, NEW b \in DOMAIN modelRules
  PROVE  <<a, b>> \in RuleOrder <=>
           \/ modelRules[a].place < modelRules[b].place
           \/ /\ modelRules[a].place = modelRules[b].place
              /\ \/ modelRules[a].created > modelRules[b].created
                 \/ modelRules[a].created = modelRules[b].created /\ a > b
BY DEF RuleOrder

\* Places that differ, or else times and ids, order the rules totally.
LEMMA RuleOrderTotal ==
  ASSUME BookInv
  PROVE  StrictlyTotal(RuleOrder, DOMAIN modelRules)
<1> DEFINE S == DOMAIN modelRules
           place(x) == modelRules[x].place
           made(x) == modelRules[x].created
<1>1. \A x \in S : place(x) \in Nat /\ made(x) \in Nat /\ x \in Nat
  BY BookConstants, BookFinite DEF BookInv, RulesInv
<1>2. \A a, b \in S : <<a, b>> \in RuleOrder <=>
        \/ place(a) < place(b)
        \/ place(a) = place(b) /\ (made(a) > made(b) \/ (made(a) = made(b) /\ a > b))
  BY RuleOrderIs
<1> HIDE DEF S, place, made
<1>3. \A a \in S : <<a, a>> \notin RuleOrder
  BY <1>1, <1>2
<1>4. ASSUME NEW a \in S, NEW b \in S, a # b
      PROVE  <<a, b>> \in RuleOrder \/ <<b, a>> \in RuleOrder
  <2>1. /\ place(a) \in Nat /\ made(a) \in Nat /\ a \in Nat
        /\ place(b) \in Nat /\ made(b) \in Nat /\ b \in Nat
    BY <1>1
  <2>2. CASE place(a) # place(b)
    BY <2>1, <2>2, <1>2
  <2>3. CASE place(a) = place(b) /\ made(a) # made(b)
    BY <2>1, <2>3, <1>2
  <2>4. CASE place(a) = place(b) /\ made(a) = made(b)
    BY <2>1, <2>4, <1>2, <1>4
  <2> QED BY <2>2, <2>3, <2>4
<1>5. \A a, b, c \in S :
        <<a, b>> \in RuleOrder /\ <<b, c>> \in RuleOrder => <<a, c>> \in RuleOrder
  BY <1>1, <1>2
<1> QED BY <1>3, <1>4, <1>5 DEF StrictlyTotal, S

\* Tiers and rowids order the targets of a rule totally.
LEMMA TargetOrderTotal ==
  ASSUME BookInv, NEW r
  PROVE  StrictlyTotal(TargetOrder(r), TargetsOf(r))
<1> DEFINE S == TargetsOf(r)
           tier(x) == ruleTargets[x].tier
           R == TargetOrder(r)
<1>1. \A x \in S : tier(x) \in Nat /\ x \in Nat
  BY BookFinite DEF BookInv, TargetsInv, TargetsOf
<1>2. \A a, b \in S : <<a, b>> \in R <=> tier(a) < tier(b) \/ (tier(a) = tier(b) /\ a < b)
  BY DEF TargetOrder
<1> HIDE DEF S, tier, R
<1>3. \A a \in S : <<a, a>> \notin R
  BY <1>1, <1>2
<1>4. \A a, b \in S : a # b => <<a, b>> \in R \/ <<b, a>> \in R
  BY <1>1, <1>2
<1>5. \A a, b, c \in S : <<a, b>> \in R /\ <<b, c>> \in R => <<a, c>> \in R
  BY <1>1, <1>2
<1> QED BY <1>3, <1>4, <1>5 DEF StrictlyTotal, S, R

\* The rules are listed as they were arranged.
LEMMA RulesListed ==
  ASSUME BookInv
  PROVE  ListModelRulesForDisplay = arranged
<1> DEFINE S == DOMAIN modelRules
           B(a, b) == \/ modelRules[a].place < modelRules[b].place
                      \/ /\ modelRules[a].place = modelRules[b].place
                         /\ \/ modelRules[a].created > modelRules[b].created
                            \/ modelRules[a].created = modelRules[b].created /\ a > b
           l == ListModelRulesForDisplay
<1>1. IsFiniteSet(S) /\ StrictlyTotal(RuleOrder, S)
  BY BookFinite, RuleOrderTotal
<1>2. ASSUME NEW s \in SetToSeqs(S)
      PROVE  Ascends(s, RuleOrder) <=> \A i, j \in DOMAIN s : i < j => B(s[i], s[j])
  <2>1. \A i \in DOMAIN s : s[i] \in S
    BY <1>1, <1>2, Listings
  <2>2. \A a, b \in S : <<a, b>> \in RuleOrder <=> B(a, b)
    BY RuleOrderIs
  <2> HIDE DEF B, S
  <2> QED BY <2>1, <2>2 DEF Ascends
<1>3. l = CHOOSE s \in SetToSeqs(S) : \A i, j \in DOMAIN s : i < j => B(s[i], s[j])
  BY DEF ListModelRulesForDisplay, Ordered
<1>4. arranged \in SetToSeqs(S) /\ \A i, j \in DOMAIN arranged : i < j => B(arranged[i], arranged[j])
  BY DEF BookInv, ArrangedInv
<1> HIDE DEF S, B, l
<1>5. l \in SetToSeqs(S) /\ \A i, j \in DOMAIN l : i < j => B(l[i], l[j])
  BY <1>3, <1>4
<1>6. l = arranged
  BY <1>1, <1>2, <1>4, <1>5, OneOrder
<1> QED BY <1>6 DEF l

\* The targets of a rule are listed each once, in their order.
LEMMA TargetsListed ==
  ASSUME BookInv, NEW r
  PROVE  /\ ListTargets(r) \in SetToSeqs(TargetsOf(r))
         /\ Ascends(ListTargets(r), TargetOrder(r))
<1> DEFINE S == TargetsOf(r)
           B(a, b) == \/ ruleTargets[a].tier < ruleTargets[b].tier
                      \/ ruleTargets[a].tier = ruleTargets[b].tier /\ a < b
           l == ListTargets(r)
           R == TargetOrder(r)
<1>1. IsFiniteSet(S) /\ StrictlyTotal(R, S)
  BY BookFinite, TargetOrderTotal
<1>2. ASSUME NEW s \in SetToSeqs(S)
      PROVE  Ascends(s, R) <=> \A i, j \in DOMAIN s : i < j => B(s[i], s[j])
  <2>1. \A i \in DOMAIN s : s[i] \in S
    BY <1>1, <1>2, Listings
  <2>2. \A a, b \in S : <<a, b>> \in R <=> B(a, b)
    BY DEF TargetOrder
  <2> HIDE DEF B, S, R
  <2> QED BY <2>1, <2>2 DEF Ascends
<1>3. l = CHOOSE s \in SetToSeqs(S) : \A i, j \in DOMAIN s : i < j => B(s[i], s[j])
  BY DEF ListTargets, Ordered
<1> HIDE DEF S, B, l, R
<1>4. \E s \in SetToSeqs(S) : Ascends(s, R)
  BY <1>1, SomeOrder
<1>5. l \in SetToSeqs(S) /\ \A i, j \in DOMAIN l : i < j => B(l[i], l[j])
  BY <1>2, <1>3, <1>4
<1>6. l \in SetToSeqs(S) /\ Ascends(l, R)
  BY <1>2, <1>5
<1> QED BY <1>6 DEF l, S, R

\* The targets of a rule are listed as they were last asked for.
LEMMA AskedListed ==
  ASSUME BookInv, NEW r \in RuleIds, asked[r] # <<>>
  PROVE  ListTargets(r) = asked[r]
<1> DEFINE a == asked[r]
           S == TargetsOf(r)
           R == TargetOrder(r)
<1>1. a \in SetToSeqs(S) /\ \A i, j \in DOMAIN a : i < j => ruleTargets[a[i]].tier < ruleTargets[a[j]].tier
  BY DEF BookInv, AskedInv
<1>2. IsFiniteSet(S) /\ StrictlyTotal(R, S)
  BY BookFinite, TargetOrderTotal
<1>3. \A i \in DOMAIN a : a[i] \in S
  BY <1>1, <1>2, Listings
<1>4. Ascends(a, R)
  BY <1>1, <1>3 DEF Ascends, TargetOrder
<1>5. ListTargets(r) \in SetToSeqs(S) /\ Ascends(ListTargets(r), R)
  BY TargetsListed
<1> QED BY <1>1, <1>2, <1>4, <1>5, OneOrder

\* The invariant gives the properties the runs check.
LEMMA BookHolds == BookInv => BookTypeOK /\ BookKept
<1> SUFFICES ASSUME BookInv PROVE BookTypeOK /\ BookKept
  OBVIOUS
<1>1. BookTypeOK
  BY BookConstants DEF BookTypeOK, BookInv, RulesInv, TargetsInv
<1>2. BookKept
  <2>1. \A r \in DOMAIN modelRules : NameFree(modelRules[r].name, r)
    BY DEF BookInv, RulesInv
  <2>2. \A t \in DOMAIN ruleTargets :
          ruleTargets[t].rule \in DOMAIN modelRules /\ ruleTargets[t].hits = reported[t]
    BY DEF BookInv, TargetsInv
  <2> QED BY <2>1, <2>2, RulesListed, AskedListed DEF BookKept
<1> QED BY <1>1, <1>2

LEMMA BookStarts == BookInit => BookInv
<1> SUFFICES ASSUME BookInit PROVE BookInv
  OBVIOUS
<1> USE DEF BookInit
<1>1. DOMAIN modelRules = {} /\ DOMAIN ruleTargets = {}
  OBVIOUS
<1>2. RulesInv
  BY <1>1, BookConstants DEF RulesInv
<1>3. arranged \in SetToSeqs(DOMAIN modelRules)
  <2>1. Cardinality({}) = 0 /\ IsFiniteSet({})
    BY FS_EmptySet
  <2>2. <<>> \in [1 .. 0 -> {}] /\ \A i, j \in 1 .. 0 : i # j => <<>>[i] # <<>>[j]
    OBVIOUS
  <2>3. <<>> \in SetToSeqs({})
    BY <2>1, <2>2, Listings
  <2> QED BY <2>3, <1>1
<1>4. ArrangedInv
  BY <1>3 DEF ArrangedInv
<1>5. TargetsInv
  BY <1>1, BookConstants DEF TargetsInv
<1>6. AskedInv
  BY DEF AskedInv
<1>7. ViewInv
  BY DEF ViewInv, NoView
<1> QED BY <1>2, <1>4, <1>5, <1>6, <1>7 DEF BookInv

\* Each transaction and each reading keeps the invariant.
LEMMA ReadRuleListKeeps ==
  ASSUME BookInv, NEW w \in Windows, ReadRuleList(w)
  PROVE  BookInv'
<1>1. arranged \in Seq(RuleIds)
  <2>1. arranged \in Seq(DOMAIN modelRules) /\ DOMAIN modelRules \subseteq RuleIds
    BY BookFinite, Listings DEF BookInv, ArrangedInv
  <2> QED BY <2>1
<1>2. view' = [view EXCEPT ![w] = [kind |-> "rules", rule |-> 0, list |-> arranged]]
  BY RulesListed DEF ReadRuleList
<1>3. ViewInv'
  BY <1>1, <1>2 DEF BookInv, ViewInv
<1>4. RulesInv' /\ ArrangedInv' /\ TargetsInv' /\ AskedInv'
  BY DEF ReadRuleList, BookInv, RulesInv, ArrangedInv, TargetsInv, AskedInv, TargetsOf, NameFree
<1> QED BY <1>3, <1>4 DEF BookInv

LEMMA ReadTargetsOfKeeps ==
  ASSUME BookInv, NEW w \in Windows, NEW r \in RuleIds, ReadTargetsOf(w, r)
  PROVE  BookInv'
<1> DEFINE ids == ListTargets(r)
           l == [i \in DOMAIN ids |-> [id |-> ids[i], tier |-> ruleTargets[ids[i]].tier]]
<1>1. ids \in Seq(TargetsOf(r)) /\ DOMAIN ids = 1 .. Len(ids) /\ Len(ids) \in Nat
  BY BookFinite, TargetsListed, Listings
<1>2. \A t \in TargetsOf(r) : [id |-> t, tier |-> ruleTargets[t].tier] \in Input
  BY BookConstants DEF BookInv, RulesInv, TargetsInv, TargetsOf, Input, New
<1>3. view' = [view EXCEPT ![w] = [kind |-> "targets", rule |-> r, list |-> l]]
  BY DEF ReadTargetsOf
<1> HIDE DEF ids
<1>4. l \in Seq(Input)
  BY <1>1, <1>2
<1> HIDE DEF l
<1>5. ViewInv'
  BY <1>3, <1>4 DEF BookInv, ViewInv
<1>6. RulesInv' /\ ArrangedInv' /\ TargetsInv' /\ AskedInv'
  BY DEF ReadTargetsOf, BookInv, RulesInv, ArrangedInv, TargetsInv, AskedInv, TargetsOf, NameFree
<1> QED BY <1>5, <1>6 DEF BookInv

\* The inputs of a new rule are all new ones.
LEMMA AllFresh ==
  ASSUME NEW count \in Nat
  PROVE  /\ IsFiniteSet(Fresh([i \in 1 .. count |-> NewTarget]))
         /\ Cardinality(Fresh([i \in 1 .. count |-> NewTarget])) = count
<1>1. Fresh([i \in 1 .. count |-> NewTarget]) = 1 .. count
  BY DEF Fresh, NewTarget, New
<1> QED BY <1>1, FS_Interval

\* A row that is inserted has its type: the input it comes from is found.
LEMMA InsertedRow ==
  ASSUME spent.rows \in Nat, NEW in, NEW n \in Nat, DOMAIN in = 1 .. n, NEW r \in RuleIds,
         NEW t \in FreshRows(in)
  PROVE  /\ Inserted(r, in, t) \in [rule : RuleIds, tier : Nat, hits : Nat]
         /\ Inserted(r, in, t).rule = r /\ Inserted(r, in, t).hits = 0
<1> DEFINE F == Fresh(in)
           upTo(i) == {j \in F : j <= i}
           f == [i \in F |-> Cardinality(upTo(i))]
           m == Cardinality(F)
<1>1. F \subseteq 1 .. n /\ F \in SUBSET (1 .. n)
  BY DEF Fresh
<1>2. IsFiniteSet(F) /\ m \in Nat /\ \A i \in F : i \in Nat /\ i - 1 \in Nat
  <2>1. \A i \in F : i \in Nat /\ i - 1 \in Nat
    BY <1>1
  <2> HIDE DEF F
  <2>2. IsFiniteSet(1 .. n)
    BY FS_Interval
  <2>3. IsFiniteSet(F)
    BY <1>1, <2>2, FS_Subset
  <2> QED BY <2>1, <2>3, FS_CardinalityType
<1> HIDE DEF F
<1>3. ASSUME NEW i \in F
      PROVE  IsFiniteSet(upTo(i)) /\ Cardinality(upTo(i)) \in 1 .. m
  <2>1. upTo(i) \in SUBSET F /\ i \in upTo(i)
    BY <1>1
  <2>2. IsFiniteSet(upTo(i)) /\ Cardinality(upTo(i)) <= m /\ Cardinality(upTo(i)) \in Nat
    BY <1>2, <2>1, FS_Subset, FS_CardinalityType
  <2>3. Cardinality(upTo(i)) # 0
    BY <2>1, <2>2, FS_EmptySet
  <2> QED BY <2>2, <2>3, <1>2
<1>4. ASSUME NEW i \in F, NEW k \in F, i < k PROVE f[i] < f[k]
  <2>1. upTo(i) \cup {k} \in SUBSET upTo(k) /\ k \notin upTo(i)
    BY <1>2, <1>4
  <2>2. Cardinality(upTo(i) \cup {k}) = Cardinality(upTo(i)) + 1
    BY <1>3, <2>1, FS_AddElement
  <2>3. Cardinality(upTo(i) \cup {k}) <= Cardinality(upTo(k))
    BY <1>3, <2>1, FS_Subset
  <2> HIDE DEF upTo
  <2>4. Cardinality(upTo(i)) \in Int /\ Cardinality(upTo(k)) \in Int
    <3>1. Cardinality(upTo(i)) \in 1 .. m /\ Cardinality(upTo(k)) \in 1 .. m
      BY <1>3
    <3> QED BY <3>1, <1>2
  <2> QED BY <2>2, <2>3, <2>4
<1>5. f \in [F -> 1 .. m] /\ \A i, k \in F : f[i] = f[k] => i = k
  <2>1. f \in [F -> 1 .. m]
    BY <1>3
  <2>2. ASSUME NEW i \in F, NEW k \in F, i # k PROVE f[i] # f[k]
    <3>1. i \in Nat /\ k \in Nat
      BY <1>1
    <3>2. i < k \/ k < i
      BY <2>2, <3>1
    <3>3. f[i] < f[k] \/ f[k] < f[i]
      BY <3>2, <1>4
    <3>4. f[i] \in Int /\ f[k] \in Int
      BY <2>1
    <3> HIDE DEF f
    <3> QED BY <3>3, <3>4
  <2> QED BY <2>1, <2>2
<1>6. f \in Surjection(F, 1 .. m)
  <2>1. f \in Injection(F, 1 .. m)
    BY <1>5, Fun_IsInj
  <2>2. IsFiniteSet(1 .. m) /\ Cardinality(1 .. m) = m
    BY <1>2, FS_Interval
  <2> HIDE DEF f
  <2> QED BY <2>1, <2>2, FS_Injection
<1>7. t - spent.rows \in 1 .. m
  BY <1>2 DEF FreshRows, F
<1>8. \E i \in F : f[i] = t - spent.rows
  BY <1>6, <1>7 DEF Surjection
<1>9. \E i \in F : spent.rows + Cardinality(upTo(i)) = t
  <2>1. PICK i \in F : f[i] = t - spent.rows
    BY <1>8
  <2>2. t \in Int
    BY <1>2 DEF FreshRows, F
  <2>3. f[i] = Cardinality(upTo(i)) /\ Cardinality(upTo(i)) \in 1 .. m
    BY <1>3
  <2> HIDE DEF upTo, f
  <2> QED BY <2>1, <2>2, <2>3, <1>2
<1>10. Source(in, t) \in F
  BY <1>9 DEF Source, F
<1>11. Source(in, t) - 1 \in Nat
  BY <1>2, <1>10
<1> QED BY <1>11 DEF Inserted

\* What was asked for the targets of q stands while they and their tiers do.
LEMMA StillAsked ==
  ASSUME BookInv, NEW q \in RuleIds, asked[q] # <<>>, (TargetsOf(q))' = TargetsOf(q),
         \A t \in TargetsOf(q) : ruleTargets'[t].tier = ruleTargets[t].tier
  PROVE  /\ q \in DOMAIN modelRules /\ asked[q] \in SetToSeqs((TargetsOf(q))')
         /\ \A i, j \in DOMAIN asked[q] :
              i < j => ruleTargets'[asked[q][i]].tier < ruleTargets'[asked[q][j]].tier
<1>1. /\ q \in DOMAIN modelRules /\ asked[q] \in SetToSeqs(TargetsOf(q))
      /\ \A i, j \in DOMAIN asked[q] :
           i < j => ruleTargets[asked[q][i]].tier < ruleTargets[asked[q][j]].tier
  BY DEF BookInv, AskedInv
<1>2. IsFiniteSet(TargetsOf(q))
  BY BookFinite
<1>3. \A i \in DOMAIN asked[q] : asked[q][i] \in TargetsOf(q)
  BY <1>1, <1>2, Listings
<1>4. asked[q] \in SetToSeqs((TargetsOf(q))')
  BY <1>1
<1> QED BY <1>1, <1>3, <1>4

\* The new rule takes place 0, below every place the others have now.
LEMMA CreateKeeps ==
  ASSUME BookInv, NEW r \in RuleIds, NEW name \in RuleNames, NEW count \in {1, 2},
         CreateModelRule(r, name, count)
  PROVE  BookInv'
<1> DEFINE in == [i \in 1 .. count |-> NewTarget]
           D == DOMAIN modelRules
           fresh == FreshRows(in)
<1>1. /\ spent.rows \in Nat /\ spent.rules \subseteq RuleIds /\ D \subseteq spent.rules
      /\ spent = [rules |-> spent.rules, rows |-> spent.rows, writes |-> spent.writes,
                  reports |-> spent.reports]
      /\ spent.writes \in Nat /\ spent.reports \in Nat /\ count \in Nat
  BY BookConstants DEF BookInv, RulesInv
<1>2. PICK now \in Times :
        modelRules' = [x \in D \cup {r} |->
                         IF x = r THEN [name |-> name, place |-> 0, created |-> now]
                         ELSE [modelRules[x] EXCEPT !.place = @ + 1]]
  BY DEF CreateModelRule
<1>3. /\ r \in RuleIds \ spent.rules /\ NameFree(name, r) /\ spent.rows + count <= MaxRows
      /\ spent.writes < MaxWrites
      /\ ruleTargets' = [t \in DOMAIN ruleTargets \cup fresh |->
                           IF t \in fresh THEN Inserted(r, in, t) ELSE ruleTargets[t]]
      /\ spent' = [spent EXCEPT !.rules = @ \cup {r}, !.rows = @ + count, !.writes = @ + 1]
      /\ arranged' = <<r>> \o arranged
      /\ view' = view /\ asked' = asked /\ reported' = reported
  BY DEF CreateModelRule
<1>4. fresh = spent.rows + 1 .. spent.rows + count
  BY <1>1, AllFresh DEF FreshRows
<1>5. \A t \in fresh : /\ Inserted(r, in, t) \in [rule : RuleIds, tier : Nat, hits : Nat]
                      /\ Inserted(r, in, t).rule = r /\ Inserted(r, in, t).hits = 0
  <2>1. DOMAIN in = 1 .. count
    OBVIOUS
  <2> HIDE DEF in
  <2> QED BY <1>1, <2>1, InsertedRow
<1>6. /\ DOMAIN modelRules' = D \cup {r} /\ r \notin D
      /\ modelRules'[r] = [name |-> name, place |-> 0, created |-> now]
      /\ \A x \in D : /\ modelRules'[x].name = modelRules[x].name
                      /\ modelRules'[x].place = modelRules[x].place + 1
                      /\ modelRules[x].place \in Nat
                      /\ modelRules'[x] \in [name : RuleNames, place : Nat, created : Nat]
  <2>1. \A x \in D : modelRules[x] \in [name : RuleNames, place : Nat, created : Nat]
    BY DEF BookInv, RulesInv
  <2>2. r \notin D
    BY <1>1, <1>3
  <2>3. now \in Nat
    BY BookConstants
  <2> HIDE DEF D
  <2>4. DOMAIN modelRules' = D \cup {r}
    BY <1>2
  <2>5. modelRules'[r] = [name |-> name, place |-> 0, created |-> now]
    BY <1>2
  <2>6. ASSUME NEW x \in D
        PROVE  /\ modelRules'[x].name = modelRules[x].name
               /\ modelRules'[x].place = modelRules[x].place + 1
               /\ modelRules[x].place \in Nat
               /\ modelRules'[x] \in [name : RuleNames, place : Nat, created : Nat]
    <3>1. modelRules'[x] = [modelRules[x] EXCEPT !.place = @ + 1]
      BY <1>2, <2>2
    <3> QED BY <3>1, <2>1
  <2> QED BY <2>2, <2>4, <2>5, <2>6
<1>7. spent' = [rules |-> spent.rules \cup {r}, rows |-> spent.rows + count,
                writes |-> spent.writes + 1, reports |-> spent.reports]
  BY <1>1, <1>3
<1>8. RulesInv'
  <2>1. spent' \in [rules : SUBSET RuleIds, rows : 0 .. MaxRows, writes : 0 .. MaxWrites, reports : Nat]
    BY <1>1, <1>3, <1>7, BookConstants
  <2>2. (DOMAIN modelRules \subseteq spent.rules)'
    BY <1>1, <1>6, <1>7
  <2>3. modelRules' \in [DOMAIN modelRules' -> [name : RuleNames, place : Nat, created : Nat]]
    <3>1. now \in Nat
      BY BookConstants
    <3>2. modelRules' = [x \in DOMAIN modelRules' |-> modelRules'[x]]
      BY <1>2
    <3>3. \A x \in DOMAIN modelRules' :
            modelRules'[x] \in [name : RuleNames, place : Nat, created : Nat]
      BY <1>6, <3>1
    <3> QED BY <3>2, <3>3
  <2>4. ASSUME NEW x \in DOMAIN modelRules', NEW y \in DOMAIN modelRules' \ {x}
        PROVE  modelRules'[y].name # modelRules'[x].name
    <3>1. \A z \in D : modelRules[z].name # name
      BY <1>3, <1>6 DEF NameFree
    <3>2. \A u, v \in D : u # v => modelRules[u].name # modelRules[v].name
      BY DEF BookInv, RulesInv, NameFree
    <3> QED BY <3>1, <3>2, <1>6
  <2>5. (\A x \in DOMAIN modelRules : NameFree(modelRules[x].name, x))'
    BY <2>4 DEF NameFree
  <2> QED BY <2>1, <2>2, <2>3, <2>5 DEF RulesInv
<1>9. ArrangedInv'
  <2> DEFINE n == Cardinality(D)
  <2>1. IsFiniteSet(D) /\ arranged \in SetToSeqs(D)
    BY BookFinite DEF BookInv, ArrangedInv
  <2>2. /\ arranged' \in SetToSeqs(D \cup {r})
        /\ DOMAIN arranged' = 1 .. n + 1
        /\ arranged'[1] = r /\ \A i \in 1 .. n : arranged'[i + 1] = arranged[i]
    <3>1. r \notin D /\ arranged' = <<r>> \o arranged
      BY <1>3, <1>6
    <3> HIDE DEF D
    <3>2. arranged' \in SetToSeqs(D \cup {r})
      BY <2>1, <3>1, ListedOnTop
    <3>3. DOMAIN arranged' = 1 .. Cardinality(D) + 1
      BY <2>1, <3>1, ListedOnTop
    <3>4. arranged'[1] = r
      BY <2>1, <3>1, ListedOnTop
    <3>5. ASSUME NEW i \in 1 .. Cardinality(D) PROVE arranged'[i + 1] = arranged[i]
      <4>1. arranged \in Seq(D) /\ Len(arranged) = Cardinality(D) /\ Cardinality(D) \in Nat
        BY <2>1, Listings
      <4> QED BY <4>1, <3>1
    <3> QED BY <3>1, <3>2, <3>3, <3>4, <3>5
  <2>3. n \in Nat /\ DOMAIN arranged = 1 .. n /\ \A i \in 1 .. n : arranged[i] \in D
    BY <2>1, Listings
  <2>4. \A i, j \in DOMAIN arranged :
          i < j => modelRules[arranged[i]].place < modelRules[arranged[j]].place
    BY DEF BookInv, ArrangedInv
  <2> HIDE DEF n, D
  <2>5. ASSUME NEW i \in 1 .. n + 1, NEW j \in 1 .. n + 1, i < j
        PROVE  modelRules'[arranged'[i]].place < modelRules'[arranged'[j]].place
    <3>1. j - 1 \in 1 .. n /\ arranged'[j] = arranged[j - 1] /\ arranged[j - 1] \in D
      <4>1. j - 1 \in 1 .. n /\ (j - 1) + 1 = j
        BY <2>3, <2>5
      <4> QED BY <4>1, <2>2, <2>3
    <3>2. CASE i = 1
      BY <1>6, <2>2, <3>1, <3>2
    <3>3. CASE i # 1
      <4>1. i - 1 \in 1 .. n /\ arranged'[i] = arranged[i - 1] /\ arranged[i - 1] \in D
        <5>1. i - 1 \in 1 .. n /\ (i - 1) + 1 = i
          BY <2>3, <3>3
        <5> QED BY <5>1, <2>2, <2>3
      <4>2. i - 1 < j - 1
        BY <2>3, <2>5
      <4>3. modelRules[arranged[i - 1]].place < modelRules[arranged[j - 1]].place
        BY <2>3, <2>4, <3>1, <4>1, <4>2
      <4> QED BY <1>6, <3>1, <4>1, <4>3
    <3> QED BY <3>2, <3>3
  <2> QED BY <2>2, <2>5, <1>6 DEF ArrangedInv
<1> HIDE DEF in, fresh
<1>10. TargetsInv'
  <2>1. DOMAIN ruleTargets \subseteq 1 .. spent.rows
    BY DEF BookInv, TargetsInv
  <2>2. DOMAIN ruleTargets' = DOMAIN ruleTargets \cup fresh
    BY <1>3
  <2>3. DOMAIN ruleTargets' \subseteq 1 .. spent'.rows
    BY <1>1, <1>4, <1>7, <2>1, <2>2
  <2>4. ASSUME NEW t \in DOMAIN ruleTargets'
        PROVE  /\ ruleTargets'[t] \in [rule : RuleIds, tier : Nat, hits : Nat]
               /\ ruleTargets'[t].rule \in DOMAIN modelRules'
               /\ ruleTargets'[t].hits = reported'[t]
    <3>1. CASE t \in fresh
      <4>1. t \in spent.rows + 1 .. MaxRows
        BY <1>1, <1>3, <1>4, <3>1, BookConstants
      <4>2. reported[t] = 0
        BY <4>1 DEF BookInv, TargetsInv
      <4> QED BY <1>3, <1>5, <1>6, <3>1, <4>2, <2>2
    <3>2. CASE t \notin fresh
      BY <1>3, <1>6, <2>2, <3>2 DEF BookInv, TargetsInv
    <3> QED BY <3>1, <3>2
  <2>5. ruleTargets' = [t \in DOMAIN ruleTargets' |-> ruleTargets'[t]]
    BY <1>3
  <2>6. \A t \in spent'.rows + 1 .. MaxRows : reported'[t] = 0
    BY <1>1, <1>3, <1>7, BookConstants DEF BookInv, TargetsInv
  <2>7. reported' \in [1 .. MaxRows -> Nat]
    BY <1>3 DEF BookInv, TargetsInv
  <2> QED BY <2>3, <2>4, <2>5, <2>6, <2>7 DEF TargetsInv
<1>11. AskedInv'
  <2>1. ASSUME NEW q \in RuleIds, asked[q] # <<>>
        PROVE  /\ (TargetsOf(q))' = TargetsOf(q)
               /\ \A t \in TargetsOf(q) : ruleTargets'[t].tier = ruleTargets[t].tier
    <3>1. q # r
      BY <1>6, <2>1 DEF BookInv, AskedInv
    <3>2. \A t \in DOMAIN ruleTargets : t \notin fresh
      BY <1>1, <1>4 DEF BookInv, TargetsInv
    <3>3. \A t \in DOMAIN ruleTargets : ruleTargets'[t] = ruleTargets[t]
      BY <1>3, <3>2
    <3>4. \A t \in fresh : ruleTargets'[t].rule = r
      BY <1>3, <1>5
    <3>5. DOMAIN ruleTargets' = DOMAIN ruleTargets \cup fresh
      BY <1>3
    <3> QED BY <3>1, <3>3, <3>4, <3>5 DEF TargetsOf
  <2>2. \A q \in RuleIds : asked[q] # <<>> =>
           /\ q \in DOMAIN modelRules' /\ asked[q] \in SetToSeqs((TargetsOf(q))')
           /\ \A i, j \in DOMAIN asked[q] :
                i < j => ruleTargets'[asked[q][i]].tier < ruleTargets'[asked[q][j]].tier
    BY <2>1, <1>6, StillAsked
  <2> QED BY <2>2, <1>3 DEF BookInv, AskedInv
<1>12. ViewInv'
  BY <1>3 DEF BookInv, ViewInv
<1> QED BY <1>8, <1>9, <1>10, <1>11, <1>12 DEF BookInv

\* What the window sends is a sequence of inputs, at most one of them new.
LEMMA EditedInputs ==
  ASSUME NEW list \in Seq(Input), NEW in \in Edited(list)
  PROVE  /\ in \in Seq([id : Nat, tier : Nat]) /\ Len(in) \in Nat /\ DOMAIN in = 1 .. Len(in)
         /\ Cardinality(Fresh(in)) \in Nat
<1> DEFINE In == [id : Nat, tier : Nat]
<1>1. list \in Seq(In) /\ NewTarget \in In
  <2>1. Input \subseteq In
    BY DEF Input
  <2>2. NewTarget \in In
    BY DEF NewTarget, New
  <2>3. \A i \in 1 .. Len(list) : list[i] \in In
    BY <2>1, ElementOfSeq
  <2>4. list \in [1 .. Len(list) -> In] /\ Len(list) \in Nat
    BY <2>3
  <2> HIDE DEF In
  <2>5. list \in Seq(In)
    BY <2>4, SeqDef
  <2> QED BY <2>2, <2>5
<1> HIDE DEF In
<1>2. in \in Seq(In)
  <2>1. CASE in = list
    BY <2>1, <1>1
  <2>2. CASE in = Append(list, NewTarget)
    BY <2>2, <1>1
  <2>3. CASE \E i \in DOMAIN list : in = RemoveAt(list, i)
    <3>1. PICK i \in DOMAIN list : in = SubSeq(list, 1, i - 1) \o SubSeq(list, i + 1, Len(list))
      BY <2>3 DEF RemoveAt
    <3>2. SubSeq(list, 1, i - 1) \in Seq(In)
      BY <1>1
    <3>3. SubSeq(list, i + 1, Len(list)) \in Seq(In)
      BY <1>1
    <3> QED BY <3>1, <3>2, <3>3, ConcatProperties
  <2> QED BY <2>1, <2>2, <2>3 DEF Edited
<1>3. Len(in) \in Nat /\ DOMAIN in = 1 .. Len(in)
  BY <1>2
<1>4. Cardinality(Fresh(in)) \in Nat
  <2>1. Fresh(in) \in SUBSET (1 .. Len(in))
    BY <1>3 DEF Fresh
  <2>2. IsFiniteSet(1 .. Len(in))
    BY <1>3, FS_Interval
  <2> QED BY <2>1, <2>2, FS_Subset, FS_CardinalityType
<1> QED BY <1>2, <1>3, <1>4 DEF In

\* An edit forgets the order asked for, and leaves rules, counters and other
\* rules' targets as they are.
LEMMA UpdateKeeps ==
  ASSUME BookInv, NEW w \in Windows, NEW name \in RuleNames, UpdateModelRule(w, name)
  PROVE  BookInv'
<1> DEFINE r == view[w].rule
           D == DOMAIN modelRules
           Row == [rule : RuleIds, tier : Nat, hits : Nat]
<1>1. /\ view[w].kind = "targets" /\ r \in D /\ NameFree(name, r) /\ spent.writes < MaxWrites
      /\ modelRules' = [modelRules EXCEPT ![r].name = name]
      /\ view' = [view EXCEPT ![w] = NoView]
      /\ asked' = [asked EXCEPT ![r] = <<>>]
      /\ arranged' = arranged /\ reported' = reported
  BY DEF UpdateModelRule
<1>2. PICK in \in Edited(view[w].list) :
        /\ spent.rows + Cardinality(Fresh(in)) <= MaxRows
        /\ ruleTargets' = UpsertTargets(r, in)
        /\ spent' = [spent EXCEPT !.rows = @ + Cardinality(Fresh(in)), !.writes = @ + 1]
  BY DEF UpdateModelRule
<1>3. /\ spent.rows \in Nat /\ spent.rules \subseteq RuleIds /\ D \subseteq spent.rules
      /\ spent = [rules |-> spent.rules, rows |-> spent.rows, writes |-> spent.writes,
                  reports |-> spent.reports]
      /\ spent.writes \in Nat /\ spent.reports \in Nat /\ r \in RuleIds
  BY <1>1, BookConstants DEF BookInv, RulesInv
<1>4. /\ in \in Seq([id : Nat, tier : Nat]) /\ Len(in) \in Nat /\ DOMAIN in = 1 .. Len(in)
      /\ Cardinality(Fresh(in)) \in Nat
  <2>1. view[w].list \in Seq(Input)
    BY <1>1 DEF BookInv, ViewInv
  <2> QED BY <2>1, EditedInputs
<1> DEFINE fresh == FreshRows(in)
           Named(t) == {i \in DOMAIN in : in[i].id = t}
           kept == {t \in DOMAIN ruleTargets : ruleTargets[t].rule # r \/ Named(t) # {}}
           c == Cardinality(Fresh(in))
<1>5. fresh = spent.rows + 1 .. spent.rows + c
  BY DEF FreshRows
<1>6. \A t \in fresh : /\ Inserted(r, in, t) \in Row
                      /\ Inserted(r, in, t).rule = r /\ Inserted(r, in, t).hits = 0
  BY <1>3, <1>4, InsertedRow
<1>7. \A t \in DOMAIN ruleTargets : t \in 1 .. spent.rows /\ t \notin fresh /\ ruleTargets[t] \in Row
  BY <1>3, <1>5 DEF BookInv, TargetsInv
<1>8. /\ DOMAIN ruleTargets' = kept \cup fresh
      /\ ruleTargets' = [t \in kept \cup fresh |-> ruleTargets'[t]]
      /\ \A t \in fresh : ruleTargets'[t] = Inserted(r, in, t)
      /\ \A t \in kept :
           /\ ruleTargets[t].rule = r =>
                ruleTargets'[t] = Updated(ruleTargets[t], in[CHOOSE i \in Named(t) : TRUE])
           /\ ruleTargets[t].rule # r => ruleTargets'[t] = ruleTargets[t]
  <2>1. ruleTargets' = [t \in kept \cup fresh |->
                          IF t \in fresh THEN Inserted(r, in, t)
                          ELSE IF ruleTargets[t].rule = r
                               THEN Updated(ruleTargets[t], in[CHOOSE i \in Named(t) : TRUE])
                          ELSE ruleTargets[t]]
    BY <1>2 DEF UpsertTargets
  <2>2. \A t \in kept : t \notin fresh
    BY <1>7
  <2> HIDE DEF kept, fresh, Named
  <2> QED BY <2>1, <2>2
<1> HIDE DEF fresh
<1>9. ASSUME NEW t \in kept
      PROVE  /\ ruleTargets'[t] \in Row
             /\ ruleTargets'[t].rule = ruleTargets[t].rule
             /\ ruleTargets'[t].hits = ruleTargets[t].hits
             /\ ruleTargets[t].rule # r => ruleTargets'[t].tier = ruleTargets[t].tier
  <2>1. CASE ruleTargets[t].rule # r
    BY <1>7, <1>8, <2>1
  <2>2. CASE ruleTargets[t].rule = r
    <3> DEFINE i == CHOOSE i \in Named(t) : TRUE
    <3>1. i \in DOMAIN in
      BY <2>2
    <3>2. in[i].tier \in Nat
      <4> HIDE DEF i
      <4>1. i \in 1 .. Len(in)
        BY <3>1, <1>4
      <4>2. in[i] \in [id : Nat, tier : Nat]
        BY <4>1, <1>4, ElementOfSeq
      <4> QED BY <4>2
    <3>3. ruleTargets'[t] = [ruleTargets[t] EXCEPT !.tier = in[i].tier]
      BY <1>8, <2>2 DEF Updated
    <3>4. ruleTargets[t] \in Row
      BY <1>7
    <3> HIDE DEF i
    <3> QED BY <3>2, <3>3, <3>4, <2>2
  <2> QED BY <2>1, <2>2
<1>10. RulesInv' /\ DOMAIN modelRules' = D
       /\ \A x \in D : modelRules'[x].place = modelRules[x].place
  <2>1. \A x \in D : modelRules[x] \in [name : RuleNames, place : Nat, created : Nat]
    BY DEF BookInv, RulesInv
  <2>2. /\ DOMAIN modelRules' = D
        /\ modelRules' = [x \in D |-> modelRules'[x]]
        /\ modelRules'[r] = [modelRules[r] EXCEPT !.name = name]
        /\ \A x \in D : x # r => modelRules'[x] = modelRules[x]
    BY <1>1
  <2>3. \A x \in D : /\ modelRules'[x].place = modelRules[x].place
                     /\ modelRules'[x] \in [name : RuleNames, place : Nat, created : Nat]
                     /\ modelRules'[x].name = IF x = r THEN name ELSE modelRules[x].name
    <3>1. ASSUME NEW x \in D
          PROVE  /\ modelRules'[x].place = modelRules[x].place
                 /\ modelRules'[x] \in [name : RuleNames, place : Nat, created : Nat]
                 /\ modelRules'[x].name = IF x = r THEN name ELSE modelRules[x].name
      <4>1. modelRules[x] \in [name : RuleNames, place : Nat, created : Nat]
        BY <2>1
      <4>2. CASE x = r
        <5>1. modelRules'[x] = [modelRules[x] EXCEPT !.name = name]
          BY <2>2, <4>2
        <5> QED BY <4>1, <4>2, <5>1
      <4>3. CASE x # r
        BY <2>2, <4>1, <4>3
      <4> QED BY <4>2, <4>3
    <3> QED BY <3>1
  <2>4. spent' = [rules |-> spent.rules, rows |-> spent.rows + c,
                  writes |-> spent.writes + 1, reports |-> spent.reports]
    BY <1>2, <1>3
  <2>5. spent' \in [rules : SUBSET RuleIds, rows : 0 .. MaxRows, writes : 0 .. MaxWrites, reports : Nat]
    BY <1>1, <1>2, <1>3, <1>4, <2>4, BookConstants
  <2>6. ASSUME NEW x \in D, NEW y \in D \ {x} PROVE modelRules'[y].name # modelRules'[x].name
    <3>1. \A z \in D \ {r} : modelRules[z].name # name
      BY <1>1 DEF NameFree
    <3>2. modelRules[x].name # modelRules[y].name
      BY <2>6 DEF BookInv, RulesInv, NameFree
    <3> QED BY <3>1, <3>2, <2>3, <2>6
  <2>7. (\A x \in DOMAIN modelRules : NameFree(modelRules[x].name, x))'
    BY <2>2, <2>6 DEF NameFree
  <2>8. modelRules' \in [DOMAIN modelRules' -> [name : RuleNames, place : Nat, created : Nat]]
    BY <2>2, <2>3
  <2> QED BY <2>2, <2>3, <2>4, <2>5, <2>7, <2>8, <1>3 DEF RulesInv
<1>11. ArrangedInv'
  <2>1. \A i \in DOMAIN arranged : arranged[i] \in D
    BY BookFinite, Listings DEF BookInv, ArrangedInv
  <2> QED BY <1>1, <1>10, <2>1 DEF BookInv, ArrangedInv
<1>12. TargetsInv'
  <2>1. spent'.rows = spent.rows + c
    BY <1>2, <1>3
  <2>2. DOMAIN ruleTargets' \subseteq 1 .. spent'.rows
    BY <1>3, <1>4, <1>5, <1>7, <1>8, <2>1
  <2>3. ASSUME NEW t \in DOMAIN ruleTargets'
        PROVE  /\ ruleTargets'[t] \in Row
               /\ ruleTargets'[t].rule \in DOMAIN modelRules'
               /\ ruleTargets'[t].hits = reported'[t]
    <3>1. CASE t \in fresh
      <4>1. t \in spent.rows + 1 .. MaxRows
        BY <1>2, <1>3, <1>4, <1>5, <3>1, BookConstants
      <4>2. reported[t] = 0
        BY <4>1 DEF BookInv, TargetsInv
      <4> QED BY <1>1, <1>6, <1>8, <1>10, <3>1, <4>2
    <3>2. CASE t \in kept
      <4>1. ruleTargets[t].rule \in D /\ ruleTargets[t].hits = reported[t]
        BY <3>2 DEF BookInv, TargetsInv
      <4> QED BY <1>1, <1>9, <1>10, <3>2, <4>1
    <3> QED BY <3>1, <3>2, <1>8
  <2>4. ruleTargets' \in [DOMAIN ruleTargets' -> Row]
    BY <1>8, <2>3
  <2>5. \A t \in spent'.rows + 1 .. MaxRows : reported'[t] = 0
    BY <1>1, <1>3, <1>4, <2>1, BookConstants DEF BookInv, TargetsInv
  <2>6. reported' \in [1 .. MaxRows -> Nat]
    BY <1>1 DEF BookInv, TargetsInv
  <2> QED BY <2>2, <2>3, <2>4, <2>5, <2>6 DEF TargetsInv
<1>13. AskedInv'
  <2>1. asked' \in [RuleIds -> Seq(Nat)]
    <3>1. asked \in [RuleIds -> Seq(Nat)] /\ <<>> \in Seq(Nat)
      BY DEF BookInv, AskedInv
    <3> QED BY <3>1, <1>1
  <2>2. ASSUME NEW q \in RuleIds, asked'[q] # <<>>
        PROVE  /\ q \in DOMAIN modelRules' /\ asked'[q] \in SetToSeqs((TargetsOf(q))')
               /\ \A i, j \in DOMAIN asked'[q] :
                    i < j => ruleTargets'[asked'[q][i]].tier < ruleTargets'[asked'[q][j]].tier
    <3>1. q # r /\ asked'[q] = asked[q]
      BY <1>1, <1>3, <2>2 DEF BookInv, AskedInv
    <3>2. \A t \in DOMAIN ruleTargets : ruleTargets[t].rule = q => t \in kept
      BY <3>1
    <3>3. (TargetsOf(q))' = TargetsOf(q)
      <4>1. ASSUME NEW t \in (TargetsOf(q))' PROVE t \in TargetsOf(q)
        <5>1. t \in kept \cup fresh /\ ruleTargets'[t].rule = q
          BY <1>8 DEF TargetsOf
        <5>2. t \notin fresh
          BY <5>1, <1>6, <1>8, <3>1
        <5> QED BY <5>1, <5>2, <1>9 DEF TargetsOf
      <4>2. ASSUME NEW t \in TargetsOf(q) PROVE t \in (TargetsOf(q))'
        BY <3>2, <1>8, <1>9 DEF TargetsOf
      <4> QED BY <4>1, <4>2
    <3>4. \A t \in TargetsOf(q) : ruleTargets'[t].tier = ruleTargets[t].tier
      BY <1>9, <3>1, <3>2 DEF TargetsOf
    <3>5. asked[q] # <<>>
      BY <2>2, <3>1
    <3> QED BY <3>1, <3>3, <3>4, <3>5, <1>10, StillAsked
  <2> QED BY <2>1, <2>2 DEF AskedInv
<1>14. ViewInv'
  BY <1>1 DEF BookInv, ViewInv, NoView
<1> QED BY <1>10, <1>11, <1>12, <1>13, <1>14 DEF BookInv

\* The rule leaves the arrangement and takes its targets with it.
LEMMA DeleteKeeps ==
  ASSUME BookInv, NEW r \in RuleIds, DeleteModelRule(r)
  PROVE  BookInv'
<1> DEFINE D == DOMAIN modelRules
           p == CHOOSE i \in DOMAIN arranged : arranged[i] = r
           n == Cardinality(D)
<1>1. /\ r \in D /\ spent.writes < MaxWrites
      /\ spent' = [spent EXCEPT !.writes = @ + 1]
      /\ modelRules' = [x \in D \ {r} |-> modelRules[x]]
      /\ ruleTargets' = [t \in DOMAIN ruleTargets \ TargetsOf(r) |-> ruleTargets[t]]
      /\ arranged' = RemoveAt(arranged, p)
      /\ asked' = [asked EXCEPT ![r] = <<>>]
      /\ view' = view /\ reported' = reported
  BY DEF DeleteModelRule, Transaction
<1>2. /\ spent' = [rules |-> spent.rules, rows |-> spent.rows, writes |-> spent.writes + 1,
                   reports |-> spent.reports]
      /\ spent' \in [rules : SUBSET RuleIds, rows : 0 .. MaxRows, writes : 0 .. MaxWrites, reports : Nat]
  <2>1. spent \in [rules : SUBSET RuleIds, rows : 0 .. MaxRows, writes : 0 .. MaxWrites, reports : Nat]
    BY DEF BookInv, RulesInv
  <2>2. spent.writes + 1 \in 0 .. MaxWrites
    BY <2>1, <1>1, BookConstants
  <2> QED BY <2>1, <2>2, <1>1
<1>3. RulesInv'
  BY <1>1, <1>2 DEF BookInv, RulesInv, NameFree
<1>4. /\ IsFiniteSet(D) /\ arranged \in SetToSeqs(D) /\ p \in DOMAIN arranged /\ arranged[p] = r
      /\ n \in Nat /\ DOMAIN arranged = 1 .. n /\ \A i \in 1 .. n : arranged[i] \in D
  <2>1. IsFiniteSet(D) /\ arranged \in SetToSeqs(D)
    BY BookFinite DEF BookInv, ArrangedInv
  <2>2. /\ n \in Nat /\ DOMAIN arranged = 1 .. n /\ \A i \in 1 .. n : arranged[i] \in D
        /\ \E i \in DOMAIN arranged : arranged[i] = r
    BY <2>1, <1>1, Listings
  <2> QED BY <2>1, <2>2
<1> HIDE DEF p, D
<1>5. ArrangedInv'
  <2>1. /\ arranged' \in SetToSeqs(D \ {r}) /\ DOMAIN arranged' = 1 .. n - 1
        /\ \A i \in 1 .. n - 1 : /\ i < p => arranged'[i] = arranged[i]
                                 /\ i >= p => arranged'[i] = arranged[i + 1]
    BY <1>1, <1>4, ListedWithout
  <2> HIDE DEF n
  <2>2. \A i, j \in 1 .. n : i < j => modelRules[arranged[i]].place < modelRules[arranged[j]].place
    BY <1>4 DEF BookInv, ArrangedInv
  <2>3. \A i \in 1 .. n : arranged[i] = r => i = p
    BY <1>4, Listings DEF n
  <2> DEFINE at(k) == IF k < p THEN k ELSE k + 1
  <2>4. ASSUME NEW i \in 1 .. n - 1
        PROVE  /\ at(i) \in 1 .. n /\ arranged'[i] = arranged[at(i)]
               /\ modelRules'[arranged'[i]] = modelRules[arranged[at(i)]]
    <3>1. at(i) \in 1 .. n /\ at(i) # p /\ arranged'[i] = arranged[at(i)]
      BY <2>1, <1>4
    <3> HIDE DEF at
    <3>2. arranged[at(i)] \in D \ {r}
      BY <1>4, <2>3, <3>1
    <3> QED BY <3>1, <3>2, <1>1
  <2>5. ASSUME NEW i \in 1 .. n - 1, NEW j \in 1 .. n - 1, i < j
        PROVE  modelRules'[arranged'[i]].place < modelRules'[arranged'[j]].place
    <3>1. at(i) < at(j)
      BY <1>4, <2>5
    <3> HIDE DEF at
    <3> QED BY <2>2, <2>4, <3>1
  <2>6. DOMAIN modelRules' = D \ {r}
    BY <1>1
  <2> QED BY <2>1, <2>5, <2>6 DEF ArrangedInv
<1>6. TargetsInv'
  <2>1. /\ DOMAIN ruleTargets' \subseteq DOMAIN ruleTargets
        /\ \A t \in DOMAIN ruleTargets' : ruleTargets'[t] = ruleTargets[t] /\ ruleTargets[t].rule # r
        /\ ruleTargets' = [t \in DOMAIN ruleTargets' |-> ruleTargets'[t]]
    BY <1>1 DEF TargetsOf
  <2>2. \A x \in D : x # r => x \in DOMAIN modelRules'
    BY <1>1
  <2>3. \A t \in DOMAIN ruleTargets :
          /\ ruleTargets[t] \in [rule : RuleIds, tier : Nat, hits : Nat]
          /\ ruleTargets[t].rule \in D /\ ruleTargets[t].hits = reported[t] /\ t \in 1 .. spent.rows
    BY DEF BookInv, TargetsInv, D
  <2>4. /\ reported \in [1 .. MaxRows -> Nat]
        /\ \A t \in spent.rows + 1 .. MaxRows : reported[t] = 0
    BY DEF BookInv, TargetsInv
  <2>5. spent'.rows = spent.rows /\ reported' = reported
    BY <1>1, <1>2
  <2>6. ruleTargets' \in [DOMAIN ruleTargets' -> [rule : RuleIds, tier : Nat, hits : Nat]]
    BY <2>1, <2>3
  <2>7. \A t \in DOMAIN ruleTargets' :
          ruleTargets'[t].rule \in DOMAIN modelRules' /\ ruleTargets'[t].hits = reported'[t]
    BY <2>1, <2>2, <2>3, <2>5
  <2>8. DOMAIN ruleTargets' \subseteq 1 .. spent'.rows
    BY <2>1, <2>3, <2>5
  <2> QED BY <2>4, <2>5, <2>6, <2>7, <2>8 DEF TargetsInv
<1>7. AskedInv'
  <2>1. asked' \in [RuleIds -> Seq(Nat)]
    <3>1. asked \in [RuleIds -> Seq(Nat)] /\ <<>> \in Seq(Nat)
      BY DEF BookInv, AskedInv
    <3> QED BY <3>1, <1>1
  <2>2. ASSUME NEW q \in RuleIds, asked'[q] # <<>>
        PROVE  /\ q \in DOMAIN modelRules' /\ asked'[q] \in SetToSeqs((TargetsOf(q))')
               /\ \A i, j \in DOMAIN asked'[q] :
                    i < j => ruleTargets'[asked'[q][i]].tier < ruleTargets'[asked'[q][j]].tier
    <3>1. q # r /\ asked'[q] = asked[q]
      BY <1>1, <2>2 DEF BookInv, AskedInv
    <3>2. (TargetsOf(q))' = TargetsOf(q) /\ \A t \in TargetsOf(q) : ruleTargets'[t] = ruleTargets[t]
      BY <1>1, <3>1 DEF TargetsOf
    <3>3. asked[q] # <<>>
      BY <2>2, <3>1
    <3>4. q \in D => q \in DOMAIN modelRules'
      BY <1>1, <3>1
    <3> QED BY <3>1, <3>2, <3>3, <3>4, StillAsked DEF D
  <2> QED BY <2>1, <2>2 DEF AskedInv
<1>8. ViewInv'
  BY <1>1 DEF BookInv, ViewInv
<1> QED BY <1>3, <1>5, <1>6, <1>7, <1>8 DEF BookInv

\* Only an order of all the rules there are is taken.
LEMMA ReorderRulesKeeps ==
  ASSUME BookInv, NEW w \in Windows, ReorderModelRules(w)
  PROVE  BookInv'
<1> DEFINE D == DOMAIN modelRules
           n == Cardinality(D)
<1>1. PICK order \in SetToSeqs(ToSet(view[w].list)) :
        /\ Permutes(order, D)
        /\ modelRules' = [r \in D |-> [modelRules[r] EXCEPT !.place = PlaceIn(order, r)]]
        /\ arranged' = order
        /\ view' = [view EXCEPT ![w].list = order]
  BY DEF ReorderModelRules
<1>2. /\ view[w].kind = "rules" /\ spent.writes < MaxWrites
      /\ spent' = [spent EXCEPT !.writes = @ + 1]
      /\ ruleTargets' = ruleTargets /\ asked' = asked /\ reported' = reported
  BY DEF ReorderModelRules, Transaction
<1>3. view[w].list \in Seq(RuleIds)
  BY <1>2 DEF BookInv, ViewInv
<1>4. order \in Seq(RuleIds)
  <2>1. IsFiniteSet(ToSet(view[w].list))
    BY <1>3, ImageFinite
  <2>2. order \in Seq(ToSet(view[w].list))
    BY <2>1, Listings
  <2>3. ToSet(view[w].list) \subseteq RuleIds
    BY <1>3, ElementOfSeq DEF ToSet
  <2> QED BY <2>2, <2>3
<1>5. /\ IsFiniteSet(D) /\ order \in SetToSeqs(D) /\ n \in Nat /\ DOMAIN order = 1 .. n
      /\ \A i \in 1 .. n : order[i] \in D
      /\ \A x \in D : \E i \in 1 .. n : order[i] = x
  <2>1. IsFiniteSet(D)
    BY BookFinite
  <2>2. order \in SetToSeqs(D)
    BY <2>1, <1>1, <1>4, PermutesLists
  <2> QED BY <2>1, <2>2, Listings
<1>6. \A i \in 1 .. n : PlaceIn(order, order[i]) = i - 1
  BY <1>5, PlaceInIs
<1> HIDE DEF n
<1>7. \A x \in D : PlaceIn(order, x) \in Nat
  <2>1. ASSUME NEW x \in D PROVE PlaceIn(order, x) \in Nat
    <3>1. PICK i \in 1 .. n : order[i] = x
      BY <1>5
    <3>2. PlaceIn(order, x) = i - 1
      BY <1>6, <3>1
    <3> QED BY <3>2, <1>5
  <2> QED BY <2>1
<1>8. /\ DOMAIN modelRules' = D /\ modelRules' = [x \in D |-> modelRules'[x]]
      /\ \A x \in D : /\ modelRules'[x].place = PlaceIn(order, x)
                      /\ modelRules'[x].name = modelRules[x].name
                      /\ modelRules'[x] \in [name : RuleNames, place : Nat, created : Nat]
  <2>1. /\ DOMAIN modelRules' = D /\ modelRules' = [x \in D |-> modelRules'[x]]
        /\ \A x \in D : modelRules'[x] = [modelRules[x] EXCEPT !.place = PlaceIn(order, x)]
    BY <1>1
  <2>2. \A x \in D : modelRules[x] \in [name : RuleNames, place : Nat, created : Nat]
    BY DEF BookInv, RulesInv
  <2> HIDE DEF D
  <2> QED BY <2>1, <2>2, <1>7
<1>9. /\ spent' = [rules |-> spent.rules, rows |-> spent.rows, writes |-> spent.writes + 1,
                   reports |-> spent.reports]
      /\ spent' \in [rules : SUBSET RuleIds, rows : 0 .. MaxRows, writes : 0 .. MaxWrites, reports : Nat]
  <2>1. spent \in [rules : SUBSET RuleIds, rows : 0 .. MaxRows, writes : 0 .. MaxWrites, reports : Nat]
    BY DEF BookInv, RulesInv
  <2>2. spent.writes + 1 \in 0 .. MaxWrites
    BY <2>1, <1>2, BookConstants
  <2> QED BY <2>1, <2>2, <1>2
<1>10. RulesInv'
  <2>1. \A x, y \in D : x # y => modelRules'[x].name # modelRules'[y].name
    BY <1>8 DEF BookInv, RulesInv, NameFree
  <2>2. (\A x \in DOMAIN modelRules : NameFree(modelRules[x].name, x))'
    BY <2>1, <1>8 DEF NameFree
  <2>3. (DOMAIN modelRules \subseteq spent.rules)'
    BY <1>8, <1>9 DEF BookInv, RulesInv
  <2>4. modelRules' \in [DOMAIN modelRules' -> [name : RuleNames, place : Nat, created : Nat]]
    BY <1>8
  <2> QED BY <1>9, <2>2, <2>3, <2>4 DEF RulesInv
<1>11. ArrangedInv'
  <2>1. ASSUME NEW i \in 1 .. n, NEW j \in 1 .. n, i < j
        PROVE  modelRules'[order[i]].place < modelRules'[order[j]].place
    <3>1. modelRules'[order[i]].place = i - 1 /\ modelRules'[order[j]].place = j - 1
      BY <1>5, <1>6, <1>8
    <3> QED BY <3>1, <2>1, <1>5
  <2> QED BY <2>1, <1>1, <1>5, <1>8 DEF ArrangedInv
<1>12. TargetsInv' /\ AskedInv'
  <2>1. /\ ruleTargets' = ruleTargets /\ asked' = asked /\ reported' = reported
        /\ DOMAIN modelRules' = DOMAIN modelRules /\ spent'.rows = spent.rows
        /\ spent'.reports = spent.reports
    BY <1>2, <1>8, <1>9
  <2>2. TargetsInv'
    BY <2>1 DEF BookInv, TargetsInv, TargetsOf
  <2>3. AskedInv'
    BY <2>1 DEF BookInv, AskedInv, TargetsOf
  <2> QED BY <2>2, <2>3
<1>13. ViewInv'
  <2>1. view'[w].kind = "rules" /\ view'[w].list = order
        /\ view'[w] = [kind |-> view'[w].kind, rule |-> view'[w].rule, list |-> view'[w].list]
        /\ view' = [x \in Windows |-> view'[x]] /\ \A x \in Windows : x # w => view'[x] = view[x]
    <3>1. view = [x \in Windows |-> view[x]]
          /\ view[w] = [kind |-> view[w].kind, rule |-> view[w].rule, list |-> view[w].list]
      BY DEF BookInv, ViewInv
    <3>2. view'[w] = [kind |-> view[w].kind, rule |-> view[w].rule, list |-> order]
      BY <1>1, <3>1
    <3>3. view' = [x \in Windows |-> view'[x]] /\ \A x \in Windows : x # w => view'[x] = view[x]
      BY <1>1, <3>1
    <3> QED BY <3>2, <3>3, <1>2
  <2> QED BY <2>1, <1>4 DEF BookInv, ViewInv
<1> QED BY <1>10, <1>11, <1>12, <1>13 DEF BookInv

\* Only an order of all the targets the rule has is taken; they get new tiers.
LEMMA ReorderTargetsKeeps ==
  ASSUME BookInv, NEW w \in Windows, ReorderModelRuleTargets(w)
  PROVE  BookInv'
<1> DEFINE r == view[w].rule
           S == TargetsOf(r)
           n == Cardinality(S)
           Row == [rule : RuleIds, tier : Nat, hits : Nat]
<1>1. PICK order \in SetToSeqs(ToSet(view[w].list)) :
        /\ Permutes([i \in DOMAIN order |-> order[i].id], S)
        /\ ruleTargets' = [t \in DOMAIN ruleTargets |->
              IF ruleTargets[t].rule # r THEN ruleTargets[t]
              ELSE [ruleTargets[t] EXCEPT
                      !.tier = PlaceIn([i \in DOMAIN order |-> order[i].id], t)]]
        /\ asked' = [asked EXCEPT ![r] = [i \in DOMAIN order |-> order[i].id]]
        /\ view' = [view EXCEPT ![w].list = order]
  BY DEF ReorderModelRuleTargets
<1> DEFINE ids == [i \in DOMAIN order |-> order[i].id]
<1>2. /\ view[w].kind = "targets" /\ Len(view[w].list) >= 2 /\ spent.writes < MaxWrites
      /\ spent' = [spent EXCEPT !.writes = @ + 1]
      /\ modelRules' = modelRules /\ arranged' = arranged /\ reported' = reported
  BY DEF ReorderModelRuleTargets, Transaction
<1>3. view[w].list \in Seq(Input) /\ r \in RuleIds
  BY <1>2 DEF BookInv, ViewInv
<1>4. order \in Seq(Input)
  <2>1. IsFiniteSet(ToSet(view[w].list))
    BY <1>3, ImageFinite
  <2>2. order \in Seq(ToSet(view[w].list))
    BY <2>1, Listings
  <2>3. ToSet(view[w].list) \subseteq Input
    BY <1>3, ElementOfSeq DEF ToSet
  <2> QED BY <2>2, <2>3
<1>5. ids \in Seq(Nat) /\ Len(ids) = Len(order) /\ DOMAIN ids = 1 .. Len(order) /\ Len(order) \in Nat
  <2>1. Len(order) \in Nat /\ DOMAIN order = 1 .. Len(order)
    BY <1>4
  <2>2. \A i \in 1 .. Len(order) : order[i].id \in Nat
    <3>1. \A i \in 1 .. Len(order) : order[i] \in Input
      BY <1>4, ElementOfSeq
    <3> QED BY <3>1 DEF Input
  <2> QED BY <2>1, <2>2
<1>6. /\ Permutes(ids, S) /\ asked' = [asked EXCEPT ![r] = ids]
      /\ \A t \in DOMAIN ruleTargets :
           /\ ruleTargets[t].rule # r => ruleTargets'[t] = ruleTargets[t]
           /\ ruleTargets[t].rule = r =>
                ruleTargets'[t] = [ruleTargets[t] EXCEPT !.tier = PlaceIn(ids, t)]
      /\ DOMAIN ruleTargets' = DOMAIN ruleTargets
      /\ ruleTargets' = [t \in DOMAIN ruleTargets |-> ruleTargets'[t]]
  BY <1>1
<1> HIDE DEF ids, S
<1>7. /\ IsFiniteSet(S) /\ ids \in SetToSeqs(S) /\ n \in Nat /\ DOMAIN ids = 1 .. n
      /\ \A i \in 1 .. n : ids[i] \in S
      /\ \A x \in S : \E i \in 1 .. n : ids[i] = x
  <2>1. IsFiniteSet(S)
    BY BookFinite DEF S
  <2>2. ids \in SetToSeqs(S)
    BY <2>1, <1>5, <1>6, PermutesLists
  <2> QED BY <2>1, <2>2, Listings
<1>8. \A i \in 1 .. n : PlaceIn(ids, ids[i]) = i - 1
  BY <1>7, PlaceInIs
<1> HIDE DEF n
<1>9. \A x \in S : PlaceIn(ids, x) \in Nat
  <2>1. ASSUME NEW x \in S PROVE PlaceIn(ids, x) \in Nat
    <3>1. PICK i \in 1 .. n : ids[i] = x
      BY <1>7
    <3>2. PlaceIn(ids, x) = i - 1
      BY <1>8, <3>1
    <3> QED BY <3>2, <1>7
  <2> QED BY <2>1
<1>10. ASSUME NEW t \in DOMAIN ruleTargets
       PROVE  /\ ruleTargets'[t] \in Row
              /\ ruleTargets'[t].rule = ruleTargets[t].rule
              /\ ruleTargets'[t].hits = ruleTargets[t].hits
              /\ ruleTargets[t].rule # r => ruleTargets'[t].tier = ruleTargets[t].tier
              /\ ruleTargets[t].rule = r => ruleTargets'[t].tier = PlaceIn(ids, t)
  <2>1. ruleTargets[t] \in Row
    BY DEF BookInv, TargetsInv
  <2>2. CASE ruleTargets[t].rule = r
    <3>1. PlaceIn(ids, t) \in Nat
      BY <1>9, <2>2 DEF S, TargetsOf
    <3>2. ruleTargets'[t] = [ruleTargets[t] EXCEPT !.tier = PlaceIn(ids, t)]
      BY <1>6, <2>2
    <3> QED BY <2>1, <2>2, <3>1, <3>2
  <2>3. CASE ruleTargets[t].rule # r
    BY <1>6, <2>1, <2>3
  <2> QED BY <2>2, <2>3
<1>11. /\ spent' = [rules |-> spent.rules, rows |-> spent.rows, writes |-> spent.writes + 1,
                    reports |-> spent.reports]
       /\ spent' \in [rules : SUBSET RuleIds, rows : 0 .. MaxRows, writes : 0 .. MaxWrites, reports : Nat]
  <2>1. spent \in [rules : SUBSET RuleIds, rows : 0 .. MaxRows, writes : 0 .. MaxWrites, reports : Nat]
    BY DEF BookInv, RulesInv
  <2>2. spent.writes + 1 \in 0 .. MaxWrites
    BY <2>1, <1>2, BookConstants
  <2> QED BY <2>1, <2>2, <1>2
<1>12. RulesInv' /\ ArrangedInv'
  BY <1>2, <1>11 DEF BookInv, RulesInv, ArrangedInv, NameFree
<1>13. TargetsInv'
  <2>1. \A t \in DOMAIN ruleTargets :
          /\ ruleTargets[t].rule \in DOMAIN modelRules /\ ruleTargets[t].hits = reported[t]
          /\ t \in 1 .. spent.rows
    BY DEF BookInv, TargetsInv
  <2>2. /\ reported \in [1 .. MaxRows -> Nat]
        /\ \A t \in spent.rows + 1 .. MaxRows : reported[t] = 0
    BY DEF BookInv, TargetsInv
  <2>3. ruleTargets' \in [DOMAIN ruleTargets' -> Row]
    BY <1>6, <1>10
  <2>4. spent'.rows = spent.rows
    BY <1>11
  <2> QED BY <1>2, <1>6, <1>10, <2>1, <2>2, <2>3, <2>4 DEF TargetsInv
<1>14. AskedInv'
  <2>1. asked' \in [RuleIds -> Seq(Nat)]
    <3>1. asked \in [RuleIds -> Seq(Nat)]
      BY DEF BookInv, AskedInv
    <3> QED BY <3>1, <1>5, <1>6
  <2>2. \A q : (TargetsOf(q))' = TargetsOf(q)
    BY <1>6, <1>10 DEF TargetsOf
  <2>3. ASSUME NEW q \in RuleIds, asked'[q] # <<>>
        PROVE  /\ q \in DOMAIN modelRules' /\ asked'[q] \in SetToSeqs((TargetsOf(q))')
               /\ \A i, j \in DOMAIN asked'[q] :
                    i < j => ruleTargets'[asked'[q][i]].tier < ruleTargets'[asked'[q][j]].tier
    <3>1. CASE q = r
      <4>1. asked'[q] = ids
        BY <1>3, <1>6, <3>1 DEF BookInv, AskedInv
      <4>2. ids # <<>> /\ 1 \in 1 .. n
        BY <1>5, <1>7, <2>3, <4>1
      <4>3. ids[1] \in S
        BY <4>2, <1>7
      <4>4. q \in DOMAIN modelRules'
        BY <4>3, <3>1, <1>2 DEF S, TargetsOf, BookInv, TargetsInv
      <4>5. ASSUME NEW i \in 1 .. n
            PROVE  ruleTargets'[ids[i]].tier = i - 1
        <5>1. ids[i] \in DOMAIN ruleTargets /\ ruleTargets[ids[i]].rule = r
          BY <1>7 DEF S, TargetsOf
        <5> QED BY <5>1, <1>8, <1>10
      <4>6. ASSUME NEW i \in 1 .. n, NEW j \in 1 .. n, i < j
            PROVE  ruleTargets'[ids[i]].tier < ruleTargets'[ids[j]].tier
        <5>1. ruleTargets'[ids[i]].tier = i - 1 /\ ruleTargets'[ids[j]].tier = j - 1
          BY <4>5
        <5>2. i \in Int /\ j \in Int /\ i - 1 < j - 1
          BY <4>6
        <5> QED BY <5>1, <5>2
      <4> QED BY <4>1, <4>4, <4>6, <2>2, <1>7, <3>1 DEF S
    <3>2. CASE q # r
      <4>1. asked'[q] = asked[q]
        BY <1>3, <1>6, <3>2 DEF BookInv, AskedInv
      <4>2. \A t \in TargetsOf(q) : ruleTargets'[t].tier = ruleTargets[t].tier
        BY <1>10, <3>2 DEF TargetsOf
      <4> QED BY <2>2, <2>3, <4>1, <4>2, <1>2, StillAsked
    <3> QED BY <3>1, <3>2
  <2> QED BY <2>1, <2>3 DEF AskedInv
<1>15. ViewInv'
  <2>1. view'[w].kind = "targets" /\ view'[w].list = order /\ view'[w].rule \in RuleIds
        /\ view'[w] = [kind |-> view'[w].kind, rule |-> view'[w].rule, list |-> view'[w].list]
        /\ view' = [x \in Windows |-> view'[x]] /\ \A x \in Windows : x # w => view'[x] = view[x]
    <3>1. view = [x \in Windows |-> view[x]]
          /\ view[w] = [kind |-> view[w].kind, rule |-> view[w].rule, list |-> view[w].list]
      BY DEF BookInv, ViewInv
    <3>2. view'[w] = [kind |-> view[w].kind, rule |-> view[w].rule, list |-> order]
      BY <1>1, <3>1
    <3>3. view' = [x \in Windows |-> view'[x]] /\ \A x \in Windows : x # w => view'[x] = view[x]
      BY <1>1, <3>1
    <3> QED BY <3>2, <3>3, <1>2, <1>3
  <2> QED BY <2>1, <1>4 DEF BookInv, ViewInv
<1> QED BY <1>12, <1>13, <1>14, <1>15 DEF BookInv

\* A report for a target that is gone changes no row.
LEMMA IncrementKeeps ==
  ASSUME BookInv, NEW t \in 1 .. MaxRows, IncrementTargetStats(t)
  PROVE  BookInv'
<1> DEFINE Row == [rule : RuleIds, tier : Nat, hits : Nat]
<1>1. /\ t <= spent.rows /\ spent' = [spent EXCEPT !.reports = @ + 1]
      /\ reported' = [reported EXCEPT ![t] = @ + 1]
      /\ ruleTargets' = [x \in DOMAIN ruleTargets |->
             IF x # t THEN ruleTargets[x] ELSE [ruleTargets[x] EXCEPT !.hits = @ + 1]]
      /\ modelRules' = modelRules /\ view' = view /\ arranged' = arranged /\ asked' = asked
  BY DEF IncrementTargetStats
<1>2. /\ spent' = [rules |-> spent.rules, rows |-> spent.rows, writes |-> spent.writes,
                   reports |-> spent.reports + 1]
      /\ spent' \in [rules : SUBSET RuleIds, rows : 0 .. MaxRows, writes : 0 .. MaxWrites, reports : Nat]
      /\ spent.rows \in Nat
  <2>1. spent \in [rules : SUBSET RuleIds, rows : 0 .. MaxRows, writes : 0 .. MaxWrites, reports : Nat]
    BY DEF BookInv, RulesInv
  <2> QED BY <2>1, <1>1, BookConstants
<1>3. RulesInv' /\ ArrangedInv' /\ ViewInv'
  BY <1>1, <1>2 DEF BookInv, RulesInv, ArrangedInv, ViewInv, NameFree
<1>4. /\ reported \in [1 .. MaxRows -> Nat]
      /\ \A x \in spent.rows + 1 .. MaxRows : reported[x] = 0
      /\ \A x \in DOMAIN ruleTargets :
           /\ x \in 1 .. spent.rows /\ x \in 1 .. MaxRows /\ ruleTargets[x] \in Row
           /\ ruleTargets[x].rule \in DOMAIN modelRules /\ ruleTargets[x].hits = reported[x]
  BY <1>2, BookConstants DEF BookInv, TargetsInv, RulesInv
<1>5. /\ reported' \in [1 .. MaxRows -> Nat] /\ reported'[t] = reported[t] + 1
      /\ \A x \in 1 .. MaxRows : x # t => reported'[x] = reported[x]
  BY <1>1, <1>4
<1>6. ASSUME NEW x \in DOMAIN ruleTargets
      PROVE  /\ ruleTargets'[x] \in Row /\ ruleTargets'[x].rule = ruleTargets[x].rule
             /\ ruleTargets'[x].tier = ruleTargets[x].tier
             /\ ruleTargets'[x].hits = reported'[x]
  <2>1. CASE x = t
    <3>1. ruleTargets'[x] = [ruleTargets[x] EXCEPT !.hits = @ + 1]
      BY <1>1, <2>1
    <3>2. ruleTargets[x] \in Row /\ ruleTargets[x].hits = reported[x]
      BY <1>4
    <3> QED BY <3>1, <3>2, <1>5, <2>1
  <2>2. CASE x # t
    BY <1>1, <1>4, <1>5, <2>2
  <2> QED BY <2>1, <2>2
<1>7. DOMAIN ruleTargets' = DOMAIN ruleTargets /\ ruleTargets' \in [DOMAIN ruleTargets' -> Row]
  <2>1. DOMAIN ruleTargets' = DOMAIN ruleTargets /\ ruleTargets' = [x \in DOMAIN ruleTargets |-> ruleTargets'[x]]
    BY <1>1
  <2> QED BY <2>1, <1>6
<1>8. TargetsInv'
  <2>1. \A x \in spent'.rows + 1 .. MaxRows : reported'[x] = 0
    <3>1. ASSUME NEW x \in spent.rows + 1 .. MaxRows PROVE reported'[x] = 0
      <4>1. x \in 1 .. MaxRows /\ x # t
        BY <1>1, <1>2, BookConstants
      <4> QED BY <4>1, <1>4, <1>5
    <3> QED BY <3>1, <1>2
  <2>2. spent'.rows = spent.rows /\ modelRules' = modelRules
    BY <1>1, <1>2
  <2> QED BY <2>1, <2>2, <1>4, <1>5, <1>6, <1>7 DEF TargetsInv
<1>9. AskedInv'
  <2>1. \A q : (TargetsOf(q))' = TargetsOf(q)
    BY <1>6, <1>7 DEF TargetsOf
  <2>2. \A q : \A x \in TargetsOf(q) : ruleTargets'[x].tier = ruleTargets[x].tier
    BY <1>6 DEF TargetsOf
  <2>3. \A q \in RuleIds : asked[q] # <<>> =>
          /\ q \in DOMAIN modelRules /\ asked[q] \in SetToSeqs((TargetsOf(q))')
          /\ \A i, j \in DOMAIN asked[q] :
               i < j => ruleTargets'[asked[q][i]].tier < ruleTargets'[asked[q][j]].tier
    BY <2>1, <2>2, StillAsked
  <2> QED BY <2>3, <1>1 DEF BookInv, AskedInv
<1> QED BY <1>3, <1>8, <1>9 DEF BookInv

LEMMA BookStep == BookInv /\ [BookNext]_bookVars => BookInv'
<1> SUFFICES ASSUME BookInv, [BookNext]_bookVars PROVE BookInv'
  OBVIOUS
<1>1. CASE UNCHANGED bookVars
  BY <1>1 DEF bookVars, BookInv, RulesInv, ArrangedInv, TargetsInv, AskedInv, ViewInv, TargetsOf, NameFree
<1>2. ASSUME NEW w \in Windows,
             \/ ReadRuleList(w) \/ \E r \in RuleIds : ReadTargetsOf(w, r)
             \/ \E name \in RuleNames : UpdateModelRule(w, name)
             \/ ReorderModelRules(w) \/ ReorderModelRuleTargets(w)
      PROVE  BookInv'
  BY <1>2, ReadRuleListKeeps, ReadTargetsOfKeeps, UpdateKeeps, ReorderRulesKeeps, ReorderTargetsKeeps
<1>3. ASSUME NEW r \in RuleIds,
             DeleteModelRule(r) \/ \E name \in RuleNames, count \in {1, 2} : CreateModelRule(r, name, count)
      PROVE  BookInv'
  BY <1>3, DeleteKeeps, CreateKeeps
<1>4. ASSUME NEW t \in 1 .. MaxRows, IncrementTargetStats(t) PROVE BookInv'
  BY <1>4, IncrementKeeps
<1> QED BY <1>1, <1>2, <1>3, <1>4 DEF BookNext

\* The rules are kept as the operator made them: they are listed in the order
\* last given, names stay unique, no target outlives its rule, and an edit from
\* whatever listing leaves the counters of the targets it keeps alone.
THEOREM RulesKept == BookSpec => [](BookTypeOK /\ BookKept)
<1>1. BookSpec => []BookInv
  BY BookStarts, BookStep, PTL DEF BookSpec
<1> QED BY <1>1, BookHolds, PTL
---------------------------------------------------------------------------
(* ShadowPlan.                                                             *)

\* The comparison as it would be built now.
Built ==
  [order |-> BuildCandidatePlan.order, moved |-> BuildCandidatePlan.moved,
   changed |-> BuildCandidatePlan.changed, rejected |-> RejectedTargets]

PlanInv ==
  /\ ruleOn \in BOOLEAN /\ strategy \in Strategies /\ targets \in Seq(PlanTargets)
  /\ comparison = NotCompared \/ comparison = Built

LEMMA PlanStarts == PlanInit => PlanInv
BY DEF PlanInit, PlanInv

\* The comparison is the one of the targets as they are, or there is none.
LEMMA PlanStep == PlanInv /\ [PlanNext]_planVars => PlanInv'
<1> SUFFICES ASSUME PlanInv, [PlanNext]_planVars PROVE PlanInv'
  OBVIOUS
<1>1. ASSUME UNCHANGED <<ruleOn, strategy, targets>> PROVE Built' = Built
  <2>1. ruleOn' = ruleOn /\ strategy' = strategy /\ targets' = targets
    BY <1>1
  <2> QED BY <2>1 DEF Built, BuildCandidatePlan, RejectedTargets, Persisted, Ordered, ComesFirst,
    Preferred, Priced, Eligible, ScoreTarget, Enabled, NormalizeStrategy
<1>2. CASE UNCHANGED planVars
  BY <1>1, <1>2 DEF planVars, PlanInv, NotCompared
<1>3. CASE Compare
  <2>1. UNCHANGED <<ruleOn, strategy, targets>> /\ comparison' = Built
    BY <1>3 DEF Compare, Built
  <2> QED BY <1>1, <2>1 DEF PlanInv
<1>4. ASSUME NEW t \in PlanTargets, AddTarget(t) PROVE PlanInv'
  BY <1>4 DEF AddTarget, PlanInv, NotCompared
<1> QED BY <1>2, <1>3, <1>4 DEF PlanNext

\* The places of the targets the plan may use, and of those it may not.
Usables == {i \in DOMAIN targets : Eligible(i)}
Unusables ==
  {i \in DOMAIN targets : ~Enabled(i) \/ targets[i].provider # "on" \/ targets[i].open}

LEMMA TargetTypes ==
  ASSUME PlanInv
  PROVE  /\ Len(targets) \in Nat /\ DOMAIN targets = 1 .. Len(targets)
         /\ \A i \in DOMAIN targets :
              targets[i].tier \in Nat /\ targets[i].cost \in Nat /\ targets[i].overall \in Nat
<1>1. targets \in Seq(PlanTargets)
  BY DEF PlanInv
<1>2. \A i \in DOMAIN targets : targets[i] \in PlanTargets
  BY <1>1
<1>3. \A t \in PlanTargets : t.tier \in Nat /\ t.cost \in Nat /\ t.overall \in Nat
  BY ShadowPlanAssumption
<1> QED BY <1>1, <1>2, <1>3

\* Every target is a candidate or rejected, and not both: the handler's own
\* gates agree with the planner's.
LEMMA UsableOrNot ==
  ASSUME PlanInv
  PROVE  /\ Usables \cup Unusables = 1 .. Len(targets) /\ Usables \cap Unusables = {}
         /\ IsFiniteSet(Usables) /\ IsFiniteSet(Unusables)
         /\ Usables \subseteq Nat /\ Unusables \subseteq Nat
         /\ Cardinality(Usables) \in Nat /\ Cardinality(Unusables) \in Nat
         /\ Cardinality(Usables) + Cardinality(Unusables) = Len(targets)
<1> DEFINE n == Len(targets)
<1>1. n \in Nat /\ DOMAIN targets = 1 .. n
  BY TargetTypes
<1>2. Usables \cup Unusables = 1 .. n /\ Usables \cap Unusables = {}
  BY <1>1 DEF Usables, Unusables, Eligible, ScoreTarget
<1> HIDE DEF n
<1>3. IsFiniteSet(1 .. n) /\ Cardinality(1 .. n) = n
  BY <1>1, FS_Interval
<1>4. Usables \in SUBSET (1 .. n) /\ Unusables \in SUBSET (1 .. n)
  BY <1>2
<1>5. IsFiniteSet(Usables) /\ IsFiniteSet(Unusables)
  BY <1>3, <1>4, FS_Subset
<1>6. Cardinality(Usables) \in Nat /\ Cardinality(Unusables) \in Nat
  BY <1>5, FS_CardinalityType
<1>7. Cardinality(Usables \cup Unusables) =
        Cardinality(Usables) + Cardinality(Unusables) - Cardinality(Usables \cap Unusables)
  BY <1>5, FS_Union
<1>8. Cardinality({}) = 0
  BY FS_EmptySet
<1>9. Cardinality(Usables) + Cardinality(Unusables) = n
  <2>1. Cardinality(Usables \cup Unusables) = n /\ Cardinality(Usables \cap Unusables) = 0
    BY <1>2, <1>3, <1>8
  <2> QED BY <1>1, <1>6, <1>7, <2>1
<1> QED BY <1>1, <1>2, <1>4, <1>5, <1>6, <1>9 DEF n

\* The places in their own order.
Up(S) == {p \in S \X S : p[1] < p[2]}

\* It is a total order.
LEMMA UpTotal ==
  ASSUME NEW S, S \subseteq Nat
  PROVE  StrictlyTotal(Up(S), S) /\ \A a, b \in S : <<a, b>> \in Up(S) <=> a < b
<1>1. \A a, b \in S : <<a, b>> \in Up(S) <=> a < b
  BY DEF Up
<1>2. \A a \in S : a \in Nat
  OBVIOUS
<1>3. \A a \in S : <<a, a>> \notin Up(S)
  BY <1>1, <1>2
<1>4. \A a, b \in S : a # b => <<a, b>> \in Up(S) \/ <<b, a>> \in Up(S)
  BY <1>1, <1>2
<1>5. \A a, b, c \in S : <<a, b>> \in Up(S) /\ <<b, c>> \in Up(S) => <<a, c>> \in Up(S)
  BY <1>1, <1>2
<1> QED BY <1>1, <1>3, <1>4, <1>5 DEF StrictlyTotal

\* Persisted lists the places as they stand.
LEMMA PersistedIs ==
  ASSUME NEW S, S \subseteq Nat, IsFiniteSet(S)
  PROVE  Persisted(S) \in SetToSeqs(S) /\ Ascends(Persisted(S), Up(S))
<1>1. StrictlyTotal(Up(S), S) /\ \A a, b \in S : <<a, b>> \in Up(S) <=> a < b
  BY UpTotal
<1>2. ASSUME NEW s \in SetToSeqs(S)
      PROVE  Ascends(s, Up(S)) <=> \A i, j \in DOMAIN s : i < j => s[i] < s[j]
  <2>1. \A i \in DOMAIN s : s[i] \in S
    BY <1>2, Listings
  <2> QED BY <2>1, <1>1 DEF Ascends
<1>3. Persisted(S) = CHOOSE s \in SetToSeqs(S) : \A i, j \in DOMAIN s : i < j => s[i] < s[j]
  BY DEF Persisted, Ordered
<1>4. \E s \in SetToSeqs(S) : Ascends(s, Up(S))
  BY <1>1, SomeOrder
<1> DEFINE l == Persisted(S)
<1> HIDE DEF l
<1>5. l \in SetToSeqs(S) /\ \A i, j \in DOMAIN l : i < j => l[i] < l[j]
  BY <1>2, <1>3, <1>4 DEF l
<1>6. l \in SetToSeqs(S) /\ Ascends(l, Up(S))
  BY <1>2, <1>5
<1> QED BY <1>6 DEF l

\* What the strategies prefer, among targets of one tier that may be used.
LEMMA PreferredIs ==
  ASSUME PlanInv, NEW i \in Usables, NEW j \in Usables
  PROVE  /\ strategy = "score_within_tier" =>
              (Preferred(i, j) <=> \/ targets[i].overall > targets[j].overall
                                   \/ targets[i].overall = targets[j].overall /\ i < j)
         /\ strategy = "cost_first" =>
              (Preferred(i, j) <=>
                 \/ targets[i].cost # 0 /\ targets[j].cost = 0
                 \/ targets[i].cost # 0 /\ targets[j].cost # 0 /\ targets[i].cost < targets[j].cost
                 \/ targets[i].cost = targets[j].cost /\ i < j)
         /\ strategy \notin {"score_within_tier", "cost_first"} => (Preferred(i, j) <=> i < j)
<1>1. CASE strategy = "score_within_tier"
  <2>1. NormalizeStrategy = "score_within_tier"
    BY <1>1 DEF NormalizeStrategy
  <2>2. ScoreTarget(i).overall = targets[i].overall /\ ScoreTarget(j).overall = targets[j].overall
    BY DEF Usables, Eligible, ScoreTarget
  <2> QED BY <1>1, <2>1, <2>2 DEF Preferred
<1>2. CASE strategy = "cost_first"
  <2>1. NormalizeStrategy = "cost_first"
    BY <1>2 DEF NormalizeStrategy
  <2>2. Preferred(i, j) <=>
         \/ Priced(i) /\ ~Priced(j)
         \/ Priced(i) /\ Priced(j) /\ targets[i].cost < targets[j].cost
         \/ (Priced(i) <=> Priced(j)) /\ targets[i].cost = targets[j].cost /\ i < j
    BY <2>1 DEF Preferred
  <2> QED BY <1>2, <2>2 DEF Priced, Unpriced
<1>3. CASE strategy \notin {"score_within_tier", "cost_first"}
  <2>1. NormalizeStrategy = "priority_first"
    BY <1>3 DEF NormalizeStrategy
  <2> QED BY <1>3, <2>1 DEF Preferred
<1> QED BY <1>1, <1>2, <1>3

\* The order of the plan.
PlanOrder == {p \in Usables \X Usables : ComesFirst(p[1], p[2])}

\* Whatever the strategy, it is a total order of the candidates.
LEMMA PlanOrderTotal ==
  ASSUME PlanInv
  PROVE  /\ StrictlyTotal(PlanOrder, Usables)
         /\ \A i, j \in Usables : <<i, j>> \in PlanOrder <=> ComesFirst(i, j)
<1>1. \A i, j \in Usables : <<i, j>> \in PlanOrder <=> ComesFirst(i, j)
  BY DEF PlanOrder
<1>2. ASSUME NEW i \in Usables
      PROVE  i \in Nat /\ targets[i].tier \in Nat /\ targets[i].cost \in Nat /\ targets[i].overall \in Nat
  <2>1. i \in DOMAIN targets /\ i \in Nat
    BY UsableOrNot DEF Usables
  <2> QED BY <2>1, TargetTypes
<1>3. ASSUME NEW i \in Usables PROVE ~Preferred(i, i)
  BY <1>2, PreferredIs
<1>4. ASSUME NEW i \in Usables, NEW j \in Usables, i # j PROVE Preferred(i, j) \/ Preferred(j, i)
  <2>1. CASE strategy = "score_within_tier"
    BY <1>2, <1>4, <2>1, PreferredIs
  <2>2. CASE strategy = "cost_first"
    BY <1>2, <1>4, <2>2, PreferredIs
  <2>3. CASE strategy \notin {"score_within_tier", "cost_first"}
    BY <1>2, <1>4, <2>3, PreferredIs
  <2> QED BY <2>1, <2>2, <2>3
<1>5. ASSUME NEW i \in Usables, NEW j \in Usables, NEW k \in Usables, Preferred(i, j), Preferred(j, k)
      PROVE  Preferred(i, k)
  <2>1. CASE strategy = "score_within_tier"
    BY <1>2, <1>5, <2>1, PreferredIs
  <2>2. CASE strategy = "cost_first"
    BY <1>2, <1>5, <2>2, PreferredIs
  <2>3. CASE strategy \notin {"score_within_tier", "cost_first"}
    BY <1>2, <1>5, <2>3, PreferredIs
  <2> QED BY <2>1, <2>2, <2>3
<1>6. \A i \in Usables : ~ComesFirst(i, i)
  BY <1>2, <1>3 DEF ComesFirst
<1>7. \A i, j \in Usables : i # j => ComesFirst(i, j) \/ ComesFirst(j, i)
  BY <1>2, <1>4 DEF ComesFirst
<1>8. \A i, j, k \in Usables : ComesFirst(i, j) /\ ComesFirst(j, k) => ComesFirst(i, k)
  BY <1>2, <1>5 DEF ComesFirst
<1> QED BY <1>1, <1>6, <1>7, <1>8 DEF StrictlyTotal

\* What the plan holds.
LEMMA BuiltIs ==
  ASSUME PlanInv
  PROVE  /\ Built.order \in SetToSeqs(Usables) /\ Ascends(Built.order, PlanOrder)
         /\ Built.rejected \in SetToSeqs(Unusables)
         /\ Built.moved = {Built.order[n] : n \in
               {k \in DOMAIN Built.order : Built.order[k] # Persisted(Usables)[k]}}
         /\ Built.changed <=> Len(Built.order) # Len(targets) \/ Built.moved # {}
<1> DEFINE l == Ordered(Usables, ComesFirst)
<1>1. StrictlyTotal(PlanOrder, Usables) /\ IsFiniteSet(Usables)
  BY PlanOrderTotal, UsableOrNot
<1>2. ASSUME NEW s \in SetToSeqs(Usables)
      PROVE  Ascends(s, PlanOrder) <=> \A i, j \in DOMAIN s : i < j => ComesFirst(s[i], s[j])
  <2>1. \A i \in DOMAIN s : s[i] \in Usables
    BY <1>1, <1>2, Listings
  <2> QED BY <2>1, PlanOrderTotal DEF Ascends
<1>3. l = CHOOSE s \in SetToSeqs(Usables) : \A i, j \in DOMAIN s : i < j => ComesFirst(s[i], s[j])
  BY DEF Ordered
<1>4. Built.order = l /\ Built.rejected = Persisted(Unusables)
  BY DEF Built, BuildCandidatePlan, RejectedTargets, Usables, Unusables
<1> HIDE DEF l
<1>5. \E s \in SetToSeqs(Usables) : Ascends(s, PlanOrder)
  BY <1>1, SomeOrder
<1>6. l \in SetToSeqs(Usables) /\ \A i, j \in DOMAIN l : i < j => ComesFirst(l[i], l[j])
  BY <1>2, <1>3, <1>5
<1>7. l \in SetToSeqs(Usables) /\ Ascends(l, PlanOrder)
  BY <1>2, <1>6
<1>8. Persisted(Unusables) \in SetToSeqs(Unusables)
  BY UsableOrNot, PersistedIs
<1>9. /\ Built.moved = {Built.order[n] : n \in
           {k \in DOMAIN Built.order : Built.order[k] # Persisted(Usables)[k]}}
      /\ Built.changed <=> Len(Built.order) # Len(targets) \/ Built.moved # {}
  BY DEF Built, BuildCandidatePlan, Usables
<1> QED BY <1>4, <1>7, <1>8, <1>9

\* Nothing is moved just when the plan keeps the persisted order.
LEMMA MovedIs ==
  ASSUME PlanInv
  PROVE  Built.moved = {} <=> Built.order = Persisted(Usables)
<1> DEFINE o == Built.order
           e == Persisted(Usables)
           n == Cardinality(Usables)
<1>1. IsFiniteSet(Usables) /\ Usables \subseteq Nat
  BY UsableOrNot
<1>2. e \in SetToSeqs(Usables) /\ o \in SetToSeqs(Usables)
  BY <1>1, PersistedIs, BuiltIs
<1>3. Built.moved = {o[i] : i \in {k \in DOMAIN o : o[k] # e[k]}}
  BY BuiltIs
<1> HIDE DEF o, e
<1>4. /\ e \in [1 .. n -> Usables] /\ o \in [1 .. n -> Usables]
  BY <1>1, <1>2, Listings
<1> HIDE DEF n
<1>5. o = e <=> \A k \in 1 .. n : o[k] = e[k]
  <2>1. o = [k \in 1 .. n |-> o[k]] /\ e = [k \in 1 .. n |-> e[k]]
    BY <1>4
  <2> QED BY <2>1
<1>6. Built.moved = {} <=> \A k \in 1 .. n : o[k] = e[k]
  BY <1>3, <1>4
<1> QED BY <1>5, <1>6 DEF o, e

\* The places of n targets are listed by the identity.
LEMMA Identity ==
  ASSUME NEW n \in Nat
  PROVE  /\ [k \in 1 .. n |-> k] \in SetToSeqs(1 .. n)
         /\ Ascends([k \in 1 .. n |-> k], Up(1 .. n))
<1> DEFINE s == [k \in 1 .. n |-> k]
<1>1. IsFiniteSet(1 .. n) /\ Cardinality(1 .. n) = n
  BY FS_Interval
<1>2. s \in [1 .. n -> 1 .. n] /\ \A i, j \in 1 .. n : i # j => s[i] # s[j]
  OBVIOUS
<1>3. Ascends(s, Up(1 .. n))
  BY DEF Ascends, Up
<1> HIDE DEF s
<1>4. s \in SetToSeqs(1 .. n)
  BY <1>1, <1>2, Listings
<1> QED BY <1>3, <1>4 DEF s

\* "Changed" is said exactly when the plan is not the persisted order.
LEMMA ChangedIs ==
  ASSUME PlanInv
  PROVE  Built.changed <=> Built.order # [k \in 1 .. Len(targets) |-> k]
<1> DEFINE n == Len(targets)
           o == Built.order
           id == [k \in 1 .. n |-> k]
<1>1. n \in Nat
  BY TargetTypes
<1>2. Len(o) = Cardinality(Usables) /\ Usables \subseteq 1 .. n
  BY UsableOrNot, BuiltIs, Listings
<1>3. Built.changed <=> Len(o) # n \/ Built.moved # {}
  BY BuiltIs
<1>4. id \in SetToSeqs(1 .. n) /\ Ascends(id, Up(1 .. n)) /\ IsFiniteSet(1 .. n)
      /\ Cardinality(1 .. n) = n
  <2> HIDE DEF n
  <2> QED BY <1>1, Identity, FS_Interval
<1> HIDE DEF n, o, id
<1>5. Len(id) = n
  BY <1>4, Listings
<1>6. CASE Len(o) # n
  BY <1>3, <1>5, <1>6 DEF o, id, n
<1>7. CASE Len(o) = n
  <2>1. Usables = 1 .. n
    BY <1>2, <1>4, <1>7, FS_Subset
  <2>2. StrictlyTotal(Up(1 .. n), 1 .. n)
    BY <1>1, UpTotal
  <2>3. Persisted(Usables) \in SetToSeqs(1 .. n) /\ Ascends(Persisted(Usables), Up(1 .. n))
    BY <1>1, <1>4, <2>1, PersistedIs
  <2>4. Persisted(Usables) = id
    BY <1>4, <2>2, <2>3, OneOrder
  <2> QED BY <1>3, <1>7, <2>4, MovedIs DEF o, id, n
<1> QED BY <1>6, <1>7

\* Where a target is in a list that shows it once.
ShownAt(s, i) == CHOOSE k \in DOMAIN s : s[k] = i

\* A listing and its places are inverse to each other.
LEMMA ShownAtIs ==
  ASSUME NEW S, IsFiniteSet(S), NEW s \in SetToSeqs(S)
  PROVE  /\ ToSet(s) = S
         /\ \A i \in S : ShownAt(s, i) \in DOMAIN s /\ s[ShownAt(s, i)] = i
         /\ \A k \in DOMAIN s : s[k] \in S /\ ShownAt(s, s[k]) = k
<1> DEFINE n == Cardinality(S)
<1>1. /\ s \in [1 .. n -> S] /\ DOMAIN s = 1 .. n
      /\ \A i, j \in 1 .. n : i # j => s[i] # s[j]
      /\ \A x \in S : \E i \in DOMAIN s : s[i] = x
  BY Listings
<1> HIDE DEF n
<1>2. ToSet(s) = S
  BY <1>1 DEF ToSet
<1>3. \A i \in S : ShownAt(s, i) \in DOMAIN s /\ s[ShownAt(s, i)] = i
  BY <1>1 DEF ShownAt
<1>4. ASSUME NEW k \in DOMAIN s PROVE s[k] \in S /\ ShownAt(s, s[k]) = k
  <2>1. s[k] \in S
    BY <1>1, <1>4
  <2>2. ShownAt(s, s[k]) \in DOMAIN s /\ s[ShownAt(s, s[k])] = s[k]
    BY <1>3, <2>1
  <2> QED BY <1>1, <2>1, <2>2
<1> QED BY <1>2, <1>3, <1>4

\* And when it is the one of an order, the places there agree with that order.
LEMMA ShownAtAscends ==
  ASSUME NEW S, IsFiniteSet(S), NEW s \in SetToSeqs(S), NEW R, StrictlyTotal(R, S), Ascends(s, R),
         NEW i \in S, NEW j \in S
  PROVE  ShownAt(s, i) < ShownAt(s, j) <=> <<i, j>> \in R
<1> DEFINE a == ShownAt(s, i)
           b == ShownAt(s, j)
<1>1. a \in DOMAIN s /\ b \in DOMAIN s /\ s[a] = i /\ s[b] = j
  BY ShownAtIs
<1>2. DOMAIN s = 1 .. Cardinality(S) /\ Cardinality(S) \in Nat
  BY Listings
<1> HIDE DEF a, b
<1>3. a \in Int /\ b \in Int
  BY <1>1, <1>2
<1>4. a < b => <<i, j>> \in R
  BY <1>1 DEF Ascends
<1>5. b < a => <<j, i>> \in R
  BY <1>1 DEF Ascends
<1>6. a = b => i = j
  BY <1>1
<1>7. ASSUME <<i, j>> \in R PROVE a < b
  <2>1. i # j /\ <<j, i>> \notin R
    BY <1>7 DEF StrictlyTotal
  <2>2. a # b /\ ~(b < a)
    BY <2>1, <1>1, <1>5
  <2> QED BY <1>3, <2>2
<1> QED BY <1>4, <1>7 DEF a, b

\* Nothing is moved just when the candidates are in the persisted order.
LEMMA MovedMeans ==
  ASSUME PlanInv
  PROVE  Built.moved = {} <=>
           \A i, j \in Usables : ShownAt(Built.order, i) < ShownAt(Built.order, j) <=> i < j
<1> DEFINE o == Built.order
<1>1. IsFiniteSet(Usables) /\ Usables \subseteq Nat
  BY UsableOrNot
<1>2. o \in SetToSeqs(Usables)
  BY BuiltIs
<1>3. Persisted(Usables) \in SetToSeqs(Usables) /\ Ascends(Persisted(Usables), Up(Usables))
  BY <1>1, PersistedIs
<1>4. StrictlyTotal(Up(Usables), Usables) /\ \A a, b \in Usables : <<a, b>> \in Up(Usables) <=> a < b
  BY <1>1, UpTotal
<1>5. Built.moved = {} <=> o = Persisted(Usables)
  BY MovedIs
<1> HIDE DEF o
<1>6. ASSUME o = Persisted(Usables)
      PROVE  \A i, j \in Usables : ShownAt(o, i) < ShownAt(o, j) <=> i < j
  <2>1. ASSUME NEW i \in Usables, NEW j \in Usables PROVE ShownAt(o, i) < ShownAt(o, j) <=> i < j
    <3>1. ShownAt(o, i) < ShownAt(o, j) <=> <<i, j>> \in Up(Usables)
      BY <1>1, <1>3, <1>4, <1>6, ShownAtAscends
    <3> QED BY <3>1, <1>4
  <2> QED BY <2>1
<1>7. ASSUME \A i, j \in Usables : ShownAt(o, i) < ShownAt(o, j) <=> i < j
      PROVE  o = Persisted(Usables)
  <2>1. \A k \in DOMAIN o : o[k] \in Usables /\ ShownAt(o, o[k]) = k
    BY <1>1, <1>2, ShownAtIs
  <2>2. ASSUME NEW k \in DOMAIN o, NEW m \in DOMAIN o, k < m PROVE <<o[k], o[m]>> \in Up(Usables)
    <3>1. o[k] < o[m]
      BY <1>7, <2>1, <2>2
    <3> QED BY <3>1, <2>1, <1>4
  <2>3. Ascends(o, Up(Usables))
    BY <2>2 DEF Ascends
  <2> QED BY <1>1, <1>2, <1>3, <1>4, <2>3, OneOrder
<1> QED BY <1>5, <1>6, <1>7 DEF o

\* The invariant gives the properties the runs check.
LEMMA PlanHolds == PlanInv => PlanTypeOK /\ PlanHonest
<1> SUFFICES ASSUME PlanInv PROVE PlanTypeOK /\ PlanHonest
  OBVIOUS
<1>1. CASE comparison = NotCompared
  <2>1. ToSet(<<>>) = {}
    BY DEF ToSet
  <2>2. PlanTypeOK
    BY <1>1, <2>1 DEF PlanTypeOK, PlanInv, NotCompared
  <2> QED BY <1>1, <2>2 DEF PlanHonest
<1>2. CASE comparison = Built
  <2> DEFINE o == Built.order
             n == Len(targets)
             better(i, j) ==
               CASE strategy = "score_within_tier" -> targets[i].overall > targets[j].overall
                 [] strategy = "cost_first" ->
                      targets[i].cost # Unpriced
                        /\ (targets[j].cost = Unpriced \/ targets[i].cost < targets[j].cost)
                 [] OTHER -> FALSE
  <2>1. /\ Usables \cup Unusables = 1 .. n /\ IsFiniteSet(Usables) /\ IsFiniteSet(Unusables)
        /\ Cardinality(Usables) + Cardinality(Unusables) = n
        /\ Usables \subseteq Nat
    BY UsableOrNot
  <2>2. /\ o \in SetToSeqs(Usables) /\ Ascends(o, PlanOrder)
        /\ Built.rejected \in SetToSeqs(Unusables)
    BY BuiltIs
  <2>3. ToSet(o) = Usables /\ ToSet(Built.rejected) = Unusables
    BY <2>1, <2>2, ShownAtIs
  <2>4. Len(o) = Cardinality(Usables) /\ Len(Built.rejected) = Cardinality(Unusables)
    BY <2>1, <2>2, Listings
  <2>5. PlanTypeOK
    BY <1>2, <2>1, <2>3, TargetTypes DEF PlanTypeOK, PlanInv
  <2>6. ASSUME NEW i \in Usables, NEW j \in Usables, ShownAt(o, i) < ShownAt(o, j)
        PROVE  /\ targets[i].tier <= targets[j].tier
               /\ targets[i].tier = targets[j].tier =>
                    IF i < j THEN ~better(j, i) ELSE better(i, j)
    <3>1. ComesFirst(i, j)
      BY <2>1, <2>2, <2>6, ShownAtAscends, PlanOrderTotal
    <3>2. /\ i \in Nat /\ j \in Nat
          /\ targets[i].tier \in Nat /\ targets[i].cost \in Nat /\ targets[i].overall \in Nat
          /\ targets[j].tier \in Nat /\ targets[j].cost \in Nat /\ targets[j].overall \in Nat
      BY <2>1, TargetTypes DEF Usables
    <3>3. ASSUME targets[i].tier = targets[j].tier PROVE Preferred(i, j)
      BY <3>1, <3>2, <3>3 DEF ComesFirst
    <3>4. ASSUME Preferred(i, j) PROVE IF i < j THEN ~better(j, i) ELSE better(i, j)
      <4>1. CASE strategy = "score_within_tier"
        BY <3>2, <3>4, <4>1, PreferredIs
      <4>2. CASE strategy = "cost_first"
        BY <3>2, <3>4, <4>2, PreferredIs DEF Unpriced
      <4>3. CASE strategy \notin {"score_within_tier", "cost_first"}
        BY <3>2, <3>4, <4>3, PreferredIs
      <4> QED BY <4>1, <4>2, <4>3
    <3>5. targets[i].tier <= targets[j].tier
      BY <3>1, <3>2 DEF ComesFirst
    <3> QED BY <3>3, <3>4, <3>5
  <2>7. Built.changed <=> o # [k \in 1 .. n |-> k]
    BY ChangedIs
  <2>8. Built.moved = {} <=>
          \A i, j \in Usables : ShownAt(o, i) < ShownAt(o, j) <=> i < j
    BY MovedMeans
  <2>9. PlanHonest
    <3>1. comparison.order = o /\ comparison.rejected = Built.rejected
          /\ comparison.changed = Built.changed /\ comparison.moved = Built.moved
      BY <1>2
    <3> HIDE DEF o
    <3> QED BY <3>1, <2>1, <2>3, <2>4, <2>6, <2>7, <2>8 DEF PlanHonest, ShownAt
  <2> QED BY <2>5, <2>9
<1> QED BY <1>1, <1>2 DEF PlanInv

\* The window does not lie about a rule: each target is shown once, tiers stay
\* apart, within one a target overtakes another only for a better score or a
\* lower known price, and "changed" is said exactly when it is so.
THEOREM PlanTold == PlanSpec => [](PlanTypeOK /\ PlanHonest)
<1>1. PlanSpec => []PlanInv
  BY PlanStarts, PlanStep, PTL DEF PlanSpec
<1> QED BY <1>1, PlanHolds, PTL

---------------------------------------------------------------------------
(* RuntimeMetrics: its types, and CountsKept.  The inductive invariant     *)
(* MetricInv says where every counter came from: a summary is the count of *)
(* events that are in the history, a route's samples are its latest        *)
(* attempts, and a target whose time is older than it was seen for, or     *)
(* which is forgotten, has Capacity - 1 others above it in the order of    *)
(* eviction, or was last seen more than Ttl ago.                           *)

EventKinds == {"attempt", "request"}
HeardEvents == [key : Keys, kind : EventKinds, at : Nat, in : Nat]
Counters == [requests : Nat, attempts : Nat, successes : Nat, failures : Nat, used : Nat]

\* The registry of a process is a function of some keys to counters.
IsTable(es) == DOMAIN es \subseteq Keys /\ \A k \in DOMAIN es : es[k] \in Counters
HeardOf(k) == {j \in DOMAIN heard : heard[j].key = k}

\* A counter counts no event twice, and its time is that of an event.
FromEvents(es) ==
  \A k \in DOMAIN es :
    /\ Count(es[k]) <= Cardinality(HeardOf(k))
    /\ \E j \in HeardOf(k) : es[k].used = heard[j].at

Types ==
  /\ clock \in 0 .. MaxClock /\ booted \in 0 .. clock
  /\ phase \in {"up", "stopping", "draining", "down"}
  /\ heard \in Seq(HeardEvents) /\ since \in 0 .. Len(heard)
  /\ IsTable(entries) /\ IsTable(rows) /\ IsTable(summary)
  /\ IsFiniteSet(DOMAIN entries) /\ Cardinality(DOMAIN entries) <= Capacity
  /\ flusher \in {"", "run", "stop"} /\ running \in BOOLEAN

\* An event is observed, in one process, before it is submitted; the history is
\* in the order of submission.
TimesInv ==
  /\ \A j \in DOMAIN heard : heard[j].at <= heard[j].in /\ heard[j].in <= clock
  /\ \A i, j \in DOMAIN heard : i <= j => heard[i].in <= heard[j].in
  /\ \A j \in DOMAIN heard : IF j > since THEN heard[j].at >= booted ELSE heard[j].at <= booted

Sources == FromEvents(entries) /\ FromEvents(rows) /\ FromEvents(summary)

\* Where the counters owed to the database are.
Covered(es) == \A k \in DOMAIN owed : k \in DOMAIN es /\ Count(es[k]) >= Count(owed[k])
Orderly ==
  /\ Preflight \notin DOMAIN owed
  /\ phase = "up" => running /\ DOMAIN owed = {}
  /\ running => phase \in {"up", "stopping"}
  /\ flusher = "run" => running
  /\ flusher = "stop" => phase = "stopping" /\ ~running
  /\ phase = "stopping" => IF flusher = "stop" THEN Covered(summary) ELSE Covered(entries)
  /\ phase \in {"draining", "down"} => flusher = "" /\ Covered(rows)

\* Whoever is above a target in the order of eviction, by some event of its own.
Above(k) ==
  {o \in Keys \ {k} : \E j \in HeardOf(o) :
     heard[j].at > SeenOf(k) \/ (heard[j].at = SeenOf(k) /\ k < o)}
Known(k) ==
  /\ k \in DOMAIN entries =>
       heard[LastOf(k)].at <= entries[k].used /\ entries[k].used <= SeenOf(k)
  /\ k \notin DOMAIN entries => ForgottenRightly(k)
  /\ \/ k \in DOMAIN entries /\ entries[k].used = SeenOf(k)
     \/ Cardinality(Above(k)) + 1 >= Capacity
     \/ clock - SeenOf(k) > Ttl
EntriesInv ==
  phase # "down" =>
    /\ \A k \in Keys : EventsOf(k) # {} => Known(k)
    /\ \A k \in DOMAIN entries : EventsOf(k) = {} => entries[k].used <= booted

\* The samples s of a route are its attempts after the place c, by the increasing f;
\* those up to c were stale, more than fit, or evicted.
SamplePlaces(k, s, f, c) ==
  /\ \A i \in 1 .. Len(s) : f[i] \in AttemptsOf(k) /\ f[i] > c /\ s[i] = heard[f[i]].in
  /\ \A i, j \in 1 .. Len(s) : i < j => f[i] < f[j]
  /\ \A j \in AttemptsOf(k) : j > c => \E i \in 1 .. Len(s) : f[i] = j
Dropped(k, s, c) ==
  \/ \A j \in AttemptsOf(k) : j > c
  \/ /\ c \in AttemptsOf(k)
     /\ \/ heard[c].in < clock - Horizon
        \/ Len(s) = MaxSamples
        \/ Cardinality(Rivals(k, InUseSince(c))) >= Capacity
Traced(k, s) ==
  \E c \in 0 .. Len(heard), f \in [1 .. Len(s) -> 1 .. Len(heard)] :
    SamplePlaces(k, s, f, c) /\ Dropped(k, s, c)

SamplesIn(rs, k) == IF k \in DOMAIN rs THEN rs[k] ELSE <<>>
IsRoutes(rs) ==
  /\ DOMAIN rs \subseteq Keys /\ IsFiniteSet(DOMAIN rs)
  /\ \A k \in DOMAIN rs : rs[k] \in Seq(Nat) /\ Len(rs[k]) \in 1 .. MaxSamples
RoutesInv ==
  /\ IsRoutes(routes) /\ Cardinality(DOMAIN routes) <= Capacity
  /\ phase = "down" => DOMAIN routes = {}
  /\ phase # "down" => \A k \in Keys : Traced(k, SamplesIn(routes, k))

MetricInv == Types /\ TimesInv /\ Sources /\ Orderly /\ EntriesInv /\ RoutesInv

---------------------------------------------------------------------------
(* Numbers, and finite sets of them.                                       *)

\* A set of naturals that is not empty has a least element.
LEMMA Least ==
  ASSUME NEW S \in SUBSET Nat, S # {}
  PROVE  \E m \in S : \A n \in S : m <= n
<1> DEFINE Upto(n) == {i \in Nat : i <= n}
           U == {t \in SUBSET Nat : \E n \in S : t = Upto(n)}
           R == StrictSubsetOrdering(Nat)
<1>1. \A n \in Nat : IsFiniteSet(Upto(n))
  <2> TAKE n \in Nat
  <2>1. Upto(n) = 0 .. n
    OBVIOUS
  <2>2. 0 \in Int /\ n \in Int
    OBVIOUS
  <2>3. IsFiniteSet(0 .. n)
    BY <2>2, FS_Interval
  <2> QED BY <2>1, <2>3
<1>2. U \subseteq FiniteSubsetsOf(Nat) /\ U # {}
  BY <1>1 DEF FiniteSubsetsOf
<1>3. IsWellFoundedOn(R, FiniteSubsetsOf(Nat))
  BY FS_StrictSubsetOrderingWellFounded
<1>4. \E x \in U : \A y \in U : ~(<<y, x>> \in R)
  <2> HIDE DEF U, R
  <2> QED BY <1>2, <1>3, WFMin
<1>5. PICK m \in S : \A n \in S : ~(<<Upto(n), Upto(m)>> \in R)
  BY <1>4
<1>6. ASSUME NEW n \in S
      PROVE  m <= n
  <2>1. SUFFICES ASSUME n < m
                 PROVE  FALSE
    OBVIOUS
  <2>2. m \in Upto(m) /\ m \notin Upto(n)
    BY <2>1
  <2>3. Upto(n) \subseteq Upto(m)
    BY <2>1
  <2>4. <<Upto(n), Upto(m)>> \in R
    BY <2>2, <2>3 DEF StrictSubsetOrdering
  <2> QED BY <1>5, <2>4
<1> QED BY <1>6

\* A bounded one has a greatest.
LEMMA Greatest ==
  ASSUME NEW b \in Nat, NEW S \in SUBSET (0 .. b), S # {}
  PROVE  \E m \in S : \A n \in S : n <= m
<1> DEFINE D == {d \in Nat : b - d \in S}
<1>1. D \in SUBSET Nat
  OBVIOUS
<1>2. D # {}
  <2>1. PICK n \in S : TRUE
    OBVIOUS
  <2>2. b - n \in Nat /\ b - (b - n) = n
    OBVIOUS
  <2> QED BY <2>1, <2>2
<1>3. PICK d \in D : \A e \in D : d <= e
  <2> HIDE DEF D
  <2> QED BY <1>1, <1>2, Least
<1>4. ASSUME NEW n \in S
      PROVE  n <= b - d
  <2>1. b - n \in Nat /\ b - (b - n) = n
    OBVIOUS
  <2>2. d <= b - n
    BY <2>1, <1>3
  <2> QED BY <2>2
<1> QED BY <1>3, <1>4

LEMMA Larger ==
  ASSUME NEW S, NEW T, IsFiniteSet(S), T \subseteq S
  PROVE  IsFiniteSet(T) /\ Cardinality(T) \in Nat /\ Cardinality(S) \in Nat
         /\ Cardinality(T) <= Cardinality(S)
BY FS_Subset, FS_CardinalityType

LEMMA OneMore ==
  ASSUME NEW S, NEW T, NEW x, IsFiniteSet(S), T \subseteq S, x \in S, x \notin T
  PROVE  Cardinality(T) + 1 <= Cardinality(S)
<1>1. IsFiniteSet(T) /\ Cardinality(T) \in Nat
  BY Larger
<1>2. Cardinality(T \cup {x}) = Cardinality(T) + 1
  BY <1>1, FS_AddElement
<1>3. T \cup {x} \subseteq S
  OBVIOUS
<1> QED BY <1>2, <1>3, Larger

LEMMA Indexes ==
  ASSUME NEW n \in Nat, NEW S \in SUBSET (1 .. n)
  PROVE  IsFiniteSet(S) /\ Cardinality(S) \in Nat
<1>1. 1 \in Int /\ n \in Int
  OBVIOUS
<1>2. IsFiniteSet(1 .. n)
  BY <1>1, FS_Interval
<1> QED BY <1>2, Larger

LEMMA UptoCount ==
  ASSUME NEW n \in Nat
  PROVE  Cardinality(1 .. n) = n
<1>1. 1 \in Int /\ n \in Int
  OBVIOUS
<1>2. Cardinality(1 .. n) = IF 1 > n THEN 0 ELSE n - 1 + 1
  BY <1>1, FS_Interval
<1> QED BY <1>2

\* A set of indexes that has, with each, all smaller ones.
LEMMA Prefix ==
  ASSUME NEW n \in Nat, NEW S \in SUBSET (1 .. n),
         \A i \in S : \A j \in 1 .. i : j \in S
  PROVE  S = 1 .. Cardinality(S) /\ Cardinality(S) \in 0 .. n
<1> DEFINE C == {i \in Nat : i >= 1 /\ i \notin S}
<1>1. n + 1 \in C
  OBVIOUS
<1>2. C \in SUBSET Nat /\ C # {}
  BY <1>1
<1>3. PICK m \in C : \A i \in C : m <= i
  <2> HIDE DEF C
  <2> QED BY <1>2, Least
<1>4. m - 1 \in 0 .. n
  BY <1>1, <1>3
<1>5. S = 1 .. m - 1
  <2>1. ASSUME NEW i \in S
        PROVE  i \in 1 .. m - 1
    BY <1>3
  <2>2. ASSUME NEW i \in 1 .. m - 1
        PROVE  i \in S
    BY <1>3
  <2> QED BY <2>1, <2>2
<1>6. Cardinality(S) = m - 1
  BY <1>4, <1>5, UptoCount
<1> QED BY <1>4, <1>5, <1>6

---------------------------------------------------------------------------
(* The history.                                                            *)

LEMMA Constants ==
  /\ Capacity \in Nat /\ Capacity >= 1 /\ MaxSamples \in Nat /\ MaxSamples >= 1
  /\ Ttl \in Nat /\ Horizon \in Nat /\ MaxClock \in Nat
  /\ \A o \in Observations : o.key \in Keys /\ o.key \in Nat /\ o.kind \in EventKinds
  /\ Keys \subseteq Nat
BY RuntimeMetricsAssumption DEF Keys, EventKinds

LEMMA Heard ==
  ASSUME Types
  PROVE  /\ Len(heard) \in Nat /\ DOMAIN heard = 1 .. Len(heard)
         /\ \A j \in 1 .. Len(heard) :
              /\ heard[j] \in HeardEvents /\ heard[j].key \in Keys
              /\ heard[j].kind \in EventKinds /\ heard[j].at \in Nat /\ heard[j].in \in Nat
         /\ since \in Nat /\ since <= Len(heard) /\ clock \in Nat /\ booted \in Nat
<1>1. heard \in Seq(HeardEvents)
  BY DEF Types
<1>2. /\ Len(heard) \in Nat /\ DOMAIN heard = 1 .. Len(heard)
      /\ \A j \in 1 .. Len(heard) : heard[j] \in HeardEvents
  BY <1>1
<1>3. ASSUME NEW e \in HeardEvents
      PROVE  e.key \in Keys /\ e.kind \in EventKinds /\ e.at \in Nat /\ e.in \in Nat
  BY DEF HeardEvents
<1>4. since \in Nat /\ since <= Len(heard)
  <2>1. since \in 0 .. Len(heard)
    BY DEF Types
  <2> QED BY <1>2, <2>1
<1>5. clock \in Nat /\ booted \in Nat
  <2>1. clock \in 0 .. MaxClock /\ booted \in 0 .. clock
    BY DEF Types
  <2> QED BY <2>1, Constants
<1> QED BY <1>2, <1>3, <1>4, <1>5

\* What CHOOSE finds, when something is the greatest.
LEMMA MaxChosen ==
  ASSUME NEW S \in SUBSET Nat, NEW m \in S, \A i \in S : i <= m
  PROVE  (CHOOSE j \in S : \A i \in S : i <= j) = m
<1>1. \E j \in S : \A i \in S : i <= j
  OBVIOUS
<1>2. PICK c : c = (CHOOSE j \in S : \A i \in S : i <= j)
  OBVIOUS
<1>3. c \in S /\ \A i \in S : i <= c
  BY <1>1, <1>2
<1>4. c = m
  BY <1>3
<1> QED BY <1>2, <1>4

LEMMA TimeChosen ==
  ASSUME NEW E, NEW h, \A j \in E : h[j].at \in Nat,
         NEW m \in E, \A j \in E : h[j].at <= h[m].at
  PROVE  (CHOOSE t \in {h[j].at : j \in E} : \A j \in E : h[j].at <= t) = h[m].at
<1> DEFINE T == {h[j].at : j \in E}
<1>1. \E t \in T : \A j \in E : h[j].at <= t
  OBVIOUS
<1>2. PICK c : c = (CHOOSE t \in T : \A j \in E : h[j].at <= t)
  OBVIOUS
<1>3. c \in T /\ \A j \in E : h[j].at <= c
  BY <1>1, <1>2
<1>4. c = h[m].at
  BY <1>3
<1> QED BY <1>2, <1>4

LEMMA LastEvent ==
  ASSUME Types, NEW k, EventsOf(k) # {}
  PROVE  /\ LastOf(k) \in EventsOf(k) /\ LastOf(k) \in 1 .. Len(heard) /\ LastOf(k) > since
         /\ \A i \in EventsOf(k) : i <= LastOf(k)
<1>1. EventsOf(k) \in SUBSET (0 .. Len(heard)) /\ EventsOf(k) \in SUBSET (1 .. Len(heard))
  BY Heard DEF EventsOf
<1>2. PICK m \in EventsOf(k) : \A i \in EventsOf(k) : i <= m
  BY <1>1, Heard, Greatest
<1>3. LastOf(k) = m
  BY <1>1, <1>2, MaxChosen DEF LastOf
<1>4. m > since
  BY Heard DEF EventsOf
<1> QED BY <1>1, <1>2, <1>3, <1>4

LEMMA LatestTime ==
  ASSUME Types, TimesInv, NEW k, EventsOf(k) # {}
  PROVE  /\ SeenOf(k) \in Nat /\ SeenOf(k) <= clock
         /\ \E j \in EventsOf(k) : heard[j].at = SeenOf(k)
         /\ \A j \in EventsOf(k) : heard[j].at <= SeenOf(k)
<1> DEFINE T == {heard[j].at : j \in EventsOf(k)}
<1>1. \A j \in EventsOf(k) : heard[j].at \in 0 .. clock
  <2> TAKE j \in EventsOf(k)
  <2>1. j \in 1 .. Len(heard)
    BY Heard DEF EventsOf
  <2>2. heard[j].at <= heard[j].in /\ heard[j].in <= clock
    BY <2>1, Heard DEF TimesInv
  <2> QED BY <2>1, <2>2, Heard
<1>2. T \in SUBSET (0 .. clock) /\ T # {}
  BY <1>1
<1>3. \E t \in T : \A u \in T : u <= t
  <2> HIDE DEF T
  <2> QED BY <1>2, Heard, Greatest
<1>4. PICK m \in EventsOf(k) : \A j \in EventsOf(k) : heard[j].at <= heard[m].at
  BY <1>3
<1>5. \A j \in EventsOf(k) : heard[j].at \in Nat
  BY <1>1
<1>6. SeenOf(k) = heard[m].at
  BY <1>4, <1>5, TimeChosen DEF SeenOf
<1> QED BY <1>1, <1>4, <1>6

LEMMA FewKeys ==
  ASSUME NEW h \in Seq(HeardEvents), NEW T, T \subseteq {h[j].key : j \in DOMAIN h}
  PROVE  IsFiniteSet(T) /\ Cardinality(T) \in Nat
<1> DEFINE K == {h[j].key : j \in DOMAIN h}
           f == [j \in DOMAIN h |-> h[j].key]
<1>1. Len(h) \in Nat /\ DOMAIN h = 1 .. Len(h)
  OBVIOUS
<1>2. IsFiniteSet(DOMAIN h)
  BY <1>1, Indexes
<1>3. f \in Surjection(DOMAIN h, K)
  BY DEF Surjection
<1>4. IsFiniteSet(K)
  <2> HIDE DEF f, K
  <2> QED BY <1>2, <1>3, FS_Surjection
<1> QED BY <1>4, Larger

\* The history goes on, in the same process.
Grown ==
  /\ since' = since /\ Len(heard) <= Len(heard')
  /\ \A j \in 1 .. Len(heard) : heard'[j] = heard[j]

\* The target k is not heard of in the meantime.
Silent(k) == \A j \in Len(heard) + 1 .. Len(heard') : heard'[j].key # k

LEMMA HeardNext ==
  ASSUME Types'
  PROVE  /\ Len(heard') \in Nat /\ DOMAIN heard' = 1 .. Len(heard')
         /\ \A j \in 1 .. Len(heard') :
              /\ heard'[j] \in HeardEvents /\ heard'[j].key \in Keys
              /\ heard'[j].kind \in EventKinds /\ heard'[j].at \in Nat /\ heard'[j].in \in Nat
         /\ since' \in Nat /\ since' <= Len(heard') /\ clock' \in Nat /\ booted' \in Nat
<1>1. heard' \in Seq(HeardEvents)
  BY DEF Types
<1>2. /\ Len(heard') \in Nat /\ DOMAIN heard' = 1 .. Len(heard')
      /\ \A j \in 1 .. Len(heard') : heard'[j] \in HeardEvents
  BY <1>1
<1>3. ASSUME NEW e \in HeardEvents
      PROVE  e.key \in Keys /\ e.kind \in EventKinds /\ e.at \in Nat /\ e.in \in Nat
  BY DEF HeardEvents
<1>4. since' \in Nat /\ since' <= Len(heard')
  <2>1. since' \in 0 .. Len(heard')
    BY DEF Types
  <2> QED BY <1>2, <2>1
<1>5. clock' \in Nat /\ booted' \in Nat
  <2>1. clock' \in 0 .. MaxClock /\ booted' \in 0 .. clock'
    BY DEF Types
  <2> QED BY <2>1, Constants
<1> QED BY <1>2, <1>3, <1>4, <1>5

\* What was known of the history stays true of it.
LEMMA StillHeard ==
  ASSUME Types, Types', Grown
  PROVE  /\ \A k : HeardOf(k) \subseteq HeardOf(k)'
         /\ \A k : EventsOf(k) \subseteq EventsOf(k)'
         /\ \A k : AttemptsOf(k) \subseteq AttemptsOf(k)'
         /\ \A c \in 1 .. Len(heard) : InUseSince(c) \subseteq InUseSince(c)'
<1>1. \A j \in 1 .. Len(heard) : j \in 1 .. Len(heard') /\ heard'[j] = heard[j]
  BY Heard, HeardNext DEF Grown
<1>2. \A k : HeardOf(k) \subseteq HeardOf(k)'
  BY <1>1, Heard, HeardNext DEF HeardOf
<1>3. \A k : EventsOf(k) \subseteq EventsOf(k)'
  BY <1>1, Heard, HeardNext DEF EventsOf, Grown
<1>4. \A k : AttemptsOf(k) \subseteq AttemptsOf(k)'
  <2> TAKE k
  <2>1. ASSUME NEW j \in AttemptsOf(k)
        PROVE  j \in EventsOf(k)' /\ heard'[j].kind = "attempt"
    BY <1>1, <1>3, Heard DEF AttemptsOf, EventsOf
  <2> QED BY <2>1 DEF AttemptsOf
<1>5. ASSUME NEW c \in 1 .. Len(heard), NEW i \in InUseSince(c)
      PROVE  i \in InUseSince(c)'
  <2>1. i \in since + 1 .. Len(heard) /\ heard[i].kind = "attempt" /\ heard[i].in >= heard[c].in
    BY DEF InUseSince
  <2>2. i \in 1 .. Len(heard)
    BY <2>1, Heard
  <2>3. heard'[i] = heard[i] /\ heard'[c] = heard[c] /\ i \in since' + 1 .. Len(heard')
    BY <1>1, <2>1, <2>2, Heard, HeardNext DEF Grown
  <2> QED BY <2>1, <2>3 DEF InUseSince
<1> QED BY <1>2, <1>3, <1>4, <1>5

\* Of a target that is not heard of, nothing changes; others may pass it.
LEMMA StillSilent ==
  ASSUME Types, Types', TimesInv, TimesInv', Grown, NEW k, Silent(k)
  PROVE  /\ EventsOf(k)' = EventsOf(k) /\ AttemptsOf(k)' = AttemptsOf(k)
         /\ HeardOf(k)' = HeardOf(k)
         /\ EventsOf(k) # {} =>
              /\ LastOf(k)' = LastOf(k) /\ SeenOf(k)' = SeenOf(k)
              /\ heard'[LastOf(k)] = heard[LastOf(k)]
              /\ Above(k) \subseteq Above(k)'
<1>1. \A j \in 1 .. Len(heard') : heard'[j].key = k => j \in 1 .. Len(heard)
  BY Heard, HeardNext DEF Silent
<1>2. EventsOf(k)' = EventsOf(k)
  <2>1. ASSUME NEW j \in EventsOf(k)'
        PROVE  j \in EventsOf(k)
    <3>1. j \in since' + 1 .. Len(heard') /\ heard'[j].key = k
      BY DEF EventsOf
    <3>2. j \in 1 .. Len(heard')
      BY <3>1, HeardNext
    <3>3. j \in 1 .. Len(heard)
      BY <1>1, <3>1, <3>2
    <3>4. heard[j].key = k /\ j \in since + 1 .. Len(heard)
      BY <3>1, <3>3, Heard DEF Grown
    <3> QED BY <3>4 DEF EventsOf
  <2> QED BY <2>1, StillHeard
<1>3. AttemptsOf(k)' = AttemptsOf(k)
  <2>1. ASSUME NEW j \in EventsOf(k)
        PROVE  heard'[j] = heard[j]
    <3>1. j \in 1 .. Len(heard)
      BY Heard DEF EventsOf
    <3> QED BY <3>1 DEF Grown
  <2> QED BY <1>2, <2>1 DEF AttemptsOf
<1>4. HeardOf(k)' = HeardOf(k)
  <2>1. ASSUME NEW j \in HeardOf(k)'
        PROVE  j \in HeardOf(k)
    <3>1. j \in 1 .. Len(heard') /\ heard'[j].key = k
      BY HeardNext DEF HeardOf
    <3>2. j \in 1 .. Len(heard)
      BY <1>1, <3>1
    <3> QED BY <3>1, <3>2, Heard DEF HeardOf, Grown
  <2> QED BY <2>1, StillHeard
<1>5. ASSUME EventsOf(k) # {}
      PROVE  /\ LastOf(k)' = LastOf(k) /\ SeenOf(k)' = SeenOf(k)
             /\ heard'[LastOf(k)] = heard[LastOf(k)]
             /\ Above(k) \subseteq Above(k)'
  <2>1. EventsOf(k) \in SUBSET Nat
    BY Heard DEF EventsOf
  <2>2. LastOf(k)' = LastOf(k)
    <3>1. /\ LastOf(k) \in EventsOf(k)' /\ EventsOf(k)' \in SUBSET Nat
          /\ \A i \in EventsOf(k)' : i <= LastOf(k)
      BY <1>2, <1>5, <2>1, LastEvent
    <3> QED BY <3>1, MaxChosen DEF LastOf
  <2>3. heard'[LastOf(k)] = heard[LastOf(k)]
    BY <1>5, LastEvent DEF Grown
  <2>4. \A j \in EventsOf(k) : heard'[j] = heard[j] /\ heard[j].at \in Nat
    <3> TAKE j \in EventsOf(k)
    <3>1. j \in 1 .. Len(heard)
      BY Heard DEF EventsOf
    <3> QED BY <3>1, Heard DEF Grown
  <2>5. PICK m \in EventsOf(k) : heard[m].at = SeenOf(k)
    BY <1>5, LatestTime
  <2>6. \A j \in EventsOf(k)' : heard'[j].at \in Nat /\ heard'[j].at <= heard'[m].at
    BY <1>2, <1>5, <2>4, <2>5, LatestTime
  <2>7. m \in EventsOf(k)' /\ heard'[m].at = SeenOf(k)
    BY <1>2, <2>4, <2>5
  <2>8. SeenOf(k)' = SeenOf(k)
    BY <2>6, <2>7, TimeChosen DEF SeenOf
  <2>9. ASSUME NEW o \in Above(k)
        PROVE  o \in Above(k)'
    <3>1. PICK j \in HeardOf(o) : heard[j].at > SeenOf(k) \/ (heard[j].at = SeenOf(k) /\ k < o)
      BY DEF Above
    <3>2. j \in HeardOf(o)' /\ heard'[j] = heard[j]
      BY StillHeard, Heard DEF HeardOf, Grown
    <3>3. o \in Keys \ {k}
      BY DEF Above
    <3> QED BY <2>8, <3>1, <3>2, <3>3 DEF Above
  <2> QED BY <2>2, <2>3, <2>8, <2>9
<1> QED BY <1>2, <1>3, <1>4, <1>5

\* The event an observation becomes, submitted now.
Note(o, at) == [key |-> o.key, kind |-> o.kind, at |-> at, in |-> clock]
Submits(o, at) ==
  /\ heard' = Append(heard, Note(o, at)) /\ entries' = Record(entries, o, at)
  /\ since' = since /\ booted' = booted /\ clock' = clock

LEMMA Submitted ==
  ASSUME Types, TimesInv, NEW o \in Observations, NEW at \in booted .. clock,
         Submits(o, at)
  PROVE  /\ since' = since /\ booted' = booted /\ clock' = clock
         /\ entries' = Record(entries, o, at)
         /\ Len(heard') = Len(heard) + 1 /\ heard' \in Seq(HeardEvents)
         /\ heard'[Len(heard) + 1] = Note(o, at)
         /\ Note(o, at).key = o.key /\ Note(o, at).kind = o.kind
         /\ Note(o, at).at = at /\ Note(o, at).in = clock
         /\ Grown /\ TimesInv' /\ \A k : k # o.key => Silent(k)
<1> DEFINE n == Len(heard) + 1
<1> USE DEF Submits
<1>1. Note(o, at) \in HeardEvents
  BY Constants, Heard DEF Note, HeardEvents
<1>2. heard \in Seq(HeardEvents)
  BY DEF Types
<1>3. /\ Len(heard') = n /\ heard' \in Seq(HeardEvents) /\ heard'[n] = Note(o, at)
      /\ \A j \in 1 .. Len(heard) : heard'[j] = heard[j]
      /\ DOMAIN heard' = 1 .. n
  BY <1>1, <1>2
<1>4. /\ Note(o, at).key = o.key /\ Note(o, at).kind = o.kind
      /\ Note(o, at).at = at /\ Note(o, at).in = clock
  BY DEF Note
<1>5. Grown
  BY <1>3, Heard DEF Grown
<1>6. ASSUME NEW k, k # o.key
      PROVE  Silent(k)
  <2>1. \A j \in Len(heard) + 1 .. Len(heard') : j = n
    BY <1>3, Heard
  <2> QED BY <1>3, <1>4, <1>6, <2>1 DEF Silent
<1>7. at \in Nat /\ at >= booted /\ at <= clock /\ n > since /\ n \in Nat
  BY Heard
<1>8. ASSUME NEW j \in DOMAIN heard'
      PROVE  j = n \/ (j \in DOMAIN heard /\ heard'[j] = heard[j])
  BY <1>3, Heard
<1>9. \A j \in DOMAIN heard' : heard'[j].at <= heard'[j].in /\ heard'[j].in <= clock'
  BY <1>3, <1>4, <1>7, <1>8, Heard DEF TimesInv
<1>10. ASSUME NEW i \in DOMAIN heard', NEW j \in DOMAIN heard', i <= j
       PROVE  heard'[i].in <= heard'[j].in
  <2>1. CASE j = n
    BY <1>3, <1>4, <1>9, <2>1
  <2>2. CASE j # n
    <3>1. i \in DOMAIN heard /\ j \in DOMAIN heard /\ heard'[i] = heard[i] /\ heard'[j] = heard[j]
      BY <1>3, <1>8, <1>10, <2>2, Heard
    <3> QED BY <1>10, <3>1 DEF TimesInv
  <2> QED BY <2>1, <2>2
<1>11. ASSUME NEW j \in DOMAIN heard'
       PROVE  IF j > since' THEN heard'[j].at >= booted' ELSE heard'[j].at <= booted'
  <2>1. CASE j = n
    BY <1>3, <1>4, <1>7, <2>1, Heard
  <2>2. CASE j # n
    <3>1. j \in DOMAIN heard /\ heard'[j] = heard[j]
      BY <1>8, <2>2
    <3> QED BY <3>1 DEF TimesInv
  <2> QED BY <2>1, <2>2
<1>12. TimesInv'
  BY <1>9, <1>10, <1>11 DEF TimesInv
<1> QED BY <1>3, <1>4, <1>5, <1>6, <1>12

---------------------------------------------------------------------------
(* The registry's tables.                                                  *)

\* Part of a table is one.
PartOf(es, fs) == DOMAIN es \subseteq DOMAIN fs /\ \A k \in DOMAIN es : es[k] = fs[k]

LEMMA PartsOfOne ==
  /\ \A fs, dead : PartOf(Without(fs, dead), fs)
  /\ \A fs, K : K \subseteq DOMAIN fs => PartOf(Restrict(fs, K), fs)
  /\ \A es, fs : PartOf(es, fs) /\ IsTable(fs) => IsTable(es)
  /\ \A es, fs : PartOf(es, fs) /\ FromEvents(fs) => FromEvents(es)
  /\ IsTable(Nothing) /\ FromEvents(Nothing) /\ DOMAIN Nothing = {}
  /\ \A es, fs : IsTable(es) /\ IsTable(fs) => IsTable(Upsert(es, fs))
  /\ \A es, fs : FromEvents(es) /\ FromEvents(fs) => FromEvents(Upsert(es, fs))
<1>1. \A fs, dead : PartOf(Without(fs, dead), fs)
  BY DEF PartOf, Without, Restrict
<1>2. \A fs, K : K \subseteq DOMAIN fs => PartOf(Restrict(fs, K), fs)
  BY DEF PartOf, Restrict
<1>3. \A es, fs : PartOf(es, fs) /\ IsTable(fs) => IsTable(es)
  BY DEF PartOf, IsTable
<1>4. \A es, fs : PartOf(es, fs) /\ FromEvents(fs) => FromEvents(es)
  BY DEF PartOf, FromEvents
<1>5. DOMAIN Nothing = {}
  BY DEF Nothing
<1>6. IsTable(Nothing) /\ FromEvents(Nothing)
  BY <1>5 DEF IsTable, FromEvents
<1>7. \A es, fs : IsTable(es) /\ IsTable(fs) => IsTable(Upsert(es, fs))
  BY DEF IsTable, Upsert
<1>8. \A es, fs : FromEvents(es) /\ FromEvents(fs) => FromEvents(Upsert(es, fs))
  BY DEF FromEvents, Upsert
<1> QED BY <1>1, <1>2, <1>3, <1>4, <1>5, <1>6, <1>7, <1>8

LEMMA CounterFields ==
  ASSUME NEW a \in Counters
  PROVE  /\ a.requests \in Nat /\ a.attempts \in Nat /\ a.successes \in Nat
         /\ a.failures \in Nat /\ a.used \in Nat /\ Count(a) \in Nat
BY DEF Counters, Count

\* An event counts once, as an attempt or as a request, and moves the time forward.
LEMMA OneEvent ==
  ASSUME NEW o \in Observations, NEW a \in Counters, NEW at \in Nat
  PROVE  /\ Counted(a, o, at) \in Counters
         /\ Count(Counted(a, o, at)) = Count(a) + 1
         /\ Counted(a, o, at).used = IF a.used < at THEN at ELSE a.used
<1>2. AsOne(o.kind = "request") + AsOne(o.kind = "attempt") = 1
  BY Constants DEF AsOne, EventKinds
<1>4. AsOne(Succeeded(o)) \in {0, 1} /\ AsOne(Failed(o)) \in {0, 1}
  BY DEF AsOne
<1>5. AsOne(o.kind = "request") \in {0, 1} /\ AsOne(o.kind = "attempt") \in {0, 1}
  BY DEF AsOne
<1>6. /\ Counted(a, o, at).requests = a.requests + AsOne(o.kind = "request")
      /\ Counted(a, o, at).attempts = a.attempts + AsOne(o.kind = "attempt")
      /\ Counted(a, o, at).used = Later(a.used, at)
  BY DEF Counted
<1>7. Later(a.used, at) \in Nat
  BY CounterFields DEF Later
<1>8. Counted(a, o, at) \in Counters
  <2>1. /\ a.requests + AsOne(o.kind = "request") \in Nat
        /\ a.attempts + AsOne(o.kind = "attempt") \in Nat
    BY <1>5, CounterFields
  <2>2. a.successes + AsOne(Succeeded(o)) \in Nat /\ a.failures + AsOne(Failed(o)) \in Nat
    BY <1>4, CounterFields
  <2> QED BY <1>7, <2>1, <2>2 DEF Counted, Counters
<1>9. Count(Counted(a, o, at)) = Count(a) + 1
  BY <1>2, <1>5, <1>6, CounterFields DEF Count
<1> QED BY <1>6, <1>8, <1>9 DEF Later

LEMMA ZeroCounters == Zero \in Counters /\ Count(Zero) = 0 /\ Zero.used = 0
BY DEF Zero, Counters, Count

\* The order of eviction: the oldest, and of those the smallest key.
Older(es, k, j) == es[k].used < es[j].used \/ (es[k].used = es[j].used /\ k < j)

LEMMA First ==
  ASSUME NEW K \in SUBSET Nat, K # {}, NEW v, \A k \in K : v[k] \in Nat
  PROVE  \E c \in K : \A j \in K \ {c} : v[c] < v[j] \/ (v[c] = v[j] /\ c < j)
<1> DEFINE T == {t \in Nat : \E k \in K : v[k] = t}
<1>1. PICK t \in T : \A u \in T : t <= u
  <2>1. T \in SUBSET Nat /\ T # {}
    OBVIOUS
  <2> HIDE DEF T
  <2> QED BY <2>1, Least
<1> DEFINE S == {k \in K : v[k] = t}
<1>2. PICK c \in S : \A j \in S : c <= j
  <2>1. S \in SUBSET Nat /\ S # {}
    BY <1>1
  <2> HIDE DEF S
  <2> QED BY <2>1, Least
<1>3. ASSUME NEW j \in K \ {c}
      PROVE  v[c] < v[j] \/ (v[c] = v[j] /\ c < j)
  <2>1. t <= v[j] /\ v[c] = t
    BY <1>1, <1>2
  <2>2. CASE v[j] = t
    <3>1. j \in S /\ c <= j /\ c \in Nat /\ j \in Nat
      BY <1>2, <2>2
    <3> QED BY <2>1, <2>2, <3>1
  <2>3. CASE v[j] # t
    BY <2>1, <2>3
  <2> QED BY <2>2, <2>3
<1> QED BY <1>2, <1>3

LEMMA OldestEvicted ==
  ASSUME NEW es, IsTable(es), DOMAIN es # {}
  PROVE  /\ EvictOldest(es) \in DOMAIN es
         /\ \A j \in DOMAIN es \ {EvictOldest(es)} : Older(es, EvictOldest(es), j)
<1> DEFINE v == [k \in DOMAIN es |-> es[k].used]
<1>1. \A k \in DOMAIN es : v[k] \in Nat /\ k \in Nat
  BY CounterFields, Constants DEF IsTable
<1>2. DOMAIN es \in SUBSET Nat
  BY <1>1
<1>3. \E c \in DOMAIN es : \A j \in DOMAIN es \ {c} : v[c] < v[j] \/ (v[c] = v[j] /\ c < j)
  <2> HIDE DEF v
  <2> QED BY <1>1, <1>2, First
<1>4. \E c \in DOMAIN es : \A j \in DOMAIN es \ {c} : Older(es, c, j)
  BY <1>3 DEF Older
<1> QED BY <1>4 DEF EvictOldest, Older

LEMMA Pruned ==
  ASSUME Types
  PROVE  /\ PartOf(PruneLocked(entries), entries)
         /\ IsFiniteSet(DOMAIN PruneLocked(entries))
         /\ Cardinality(DOMAIN PruneLocked(entries)) \in Nat
         /\ Cardinality(DOMAIN PruneLocked(entries)) <= Capacity
         /\ \A k \in DOMAIN entries : k \notin DOMAIN PruneLocked(entries) =>
              clock - entries[k].used > Ttl
         /\ \A k \in DOMAIN PruneLocked(entries) : clock - entries[k].used <= Ttl
<1>1. PartOf(PruneLocked(entries), entries)
  BY PartsOfOne DEF PruneLocked
<1>2. DOMAIN PruneLocked(entries) = DOMAIN entries \ {k \in DOMAIN entries : clock - entries[k].used > Ttl}
  BY DEF PruneLocked, Without, Restrict
<1>3. DOMAIN PruneLocked(entries) \subseteq DOMAIN entries
  BY <1>2
<1>4. IsFiniteSet(DOMAIN entries) /\ Cardinality(DOMAIN entries) <= Capacity
  BY DEF Types
<1>5. /\ IsFiniteSet(DOMAIN PruneLocked(entries))
      /\ Cardinality(DOMAIN PruneLocked(entries)) \in Nat /\ Cardinality(DOMAIN entries) \in Nat
      /\ Cardinality(DOMAIN PruneLocked(entries)) <= Cardinality(DOMAIN entries)
  BY <1>3, <1>4, Larger
<1>6. \A k \in DOMAIN entries : entries[k].used \in Nat
  BY CounterFields DEF Types, IsTable
<1>7. \A k \in DOMAIN PruneLocked(entries) : clock - entries[k].used <= Ttl
  BY <1>2, <1>6, Heard, Constants
<1> QED BY <1>1, <1>2, <1>4, <1>5, <1>7, Constants

\* Evicted: the one the registry drops to make room for a target it does not know.
Evicted(k, e) ==
  LET live == PruneLocked(entries) IN
  /\ k \in DOMAIN live /\ e \notin DOMAIN live /\ Cardinality(DOMAIN live) >= Capacity
  /\ \A j \in DOMAIN live \ {k} : Older(entries, k, j)

LEMMA Room ==
  ASSUME Types, NEW e \in Keys
  PROVE  LET live == PruneLocked(entries)
             room == RoomFor(live, e)
         IN  /\ PartOf(room, live) /\ IsFiniteSet(DOMAIN room)
             /\ \A k \in DOMAIN live : k \in DOMAIN room \/ Evicted(k, e)
             /\ e \in DOMAIN live <=> e \in DOMAIN room
             /\ Cardinality(DOMAIN room \cup {e}) <= Capacity
<1> DEFINE live == PruneLocked(entries)
           room == RoomFor(live, e)
<1>1. /\ PartOf(live, entries) /\ IsFiniteSet(DOMAIN live)
      /\ Cardinality(DOMAIN live) \in Nat /\ Cardinality(DOMAIN live) <= Capacity
  BY Pruned
<1>2. IsTable(live)
  BY <1>1, PartsOfOne DEF Types
<1> HIDE DEF live
<1>3. CASE e \in DOMAIN live
  <2>1. room = live /\ DOMAIN room \cup {e} = DOMAIN live
    BY <1>3 DEF RoomFor
  <2> QED BY <1>1, <1>3, <2>1 DEF PartOf, live
<1>4. CASE e \notin DOMAIN live /\ Cardinality(DOMAIN live) < Capacity
  <2>1. room = live
    BY <1>4 DEF RoomFor
  <2>2. Cardinality(DOMAIN live \cup {e}) = Cardinality(DOMAIN live) + 1
    BY <1>1, <1>4, FS_AddElement
  <2>3. Cardinality(DOMAIN live \cup {e}) <= Capacity
    BY <1>1, <1>4, <2>2, Constants
  <2> QED BY <1>1, <1>4, <2>1, <2>3 DEF PartOf, live
<1>5. CASE e \notin DOMAIN live /\ ~(Cardinality(DOMAIN live) < Capacity)
  <2> DEFINE k == EvictOldest(live)
  <2>1. room = Without(live, {k})
    BY <1>5 DEF RoomFor
  <2>2. DOMAIN live # {}
    <3>1. Cardinality({}) = 0
      BY FS_EmptySet
    <3> QED BY <1>1, <1>5, <3>1, Constants
  <2>3. /\ k \in DOMAIN live
        /\ \A j \in DOMAIN live \ {k} : Older(live, k, j)
    BY <1>2, <2>2, OldestEvicted
  <2>4. \A j \in DOMAIN live \ {k} : Older(entries, k, j)
    BY <1>1, <2>3 DEF Older, PartOf
  <2>5. Evicted(k, e)
    BY <1>1, <1>5, <2>3, <2>4, Constants DEF Evicted, live
  <2>6. DOMAIN room = DOMAIN live \ {k} /\ PartOf(room, live)
    BY <2>1, PartsOfOne DEF Without, Restrict
  <2>7. /\ IsFiniteSet(DOMAIN room) /\ Cardinality(DOMAIN room) = Cardinality(DOMAIN live) - 1
    BY <1>1, <2>3, <2>6, FS_RemoveElement
  <2>8. e \notin DOMAIN room
    BY <1>5, <2>6
  <2>9. Cardinality(DOMAIN room \cup {e}) = Cardinality(DOMAIN room) + 1
    BY <2>7, <2>8, FS_AddElement
  <2>10. Cardinality(DOMAIN room \cup {e}) <= Capacity
    BY <1>1, <2>7, <2>9, Constants
  <2> HIDE DEF k, room
  <2> QED BY <1>5, <2>5, <2>6, <2>7, <2>8, <2>10 DEF live, room
<1> QED BY <1>3, <1>4, <1>5

\* What an event leaves in the registry.
LEMMA Recorded ==
  ASSUME Types, NEW o \in Observations, NEW at \in Nat
  PROVE  LET live == PruneLocked(entries)
             next == Record(entries, o, at)
             a == IF o.key \in DOMAIN live THEN entries[o.key] ELSE Zero
         IN  /\ o.key \in DOMAIN next /\ next[o.key] = Counted(a, o, at) /\ a \in Counters
             /\ \A k \in DOMAIN next : k # o.key => k \in DOMAIN live /\ next[k] = entries[k]
             /\ \A k \in DOMAIN live : k \in DOMAIN next \/ Evicted(k, o.key)
             /\ IsFiniteSet(DOMAIN next) /\ Cardinality(DOMAIN next) <= Capacity
             /\ IsTable(next)
<1> DEFINE live == PruneLocked(entries)
           room == RoomFor(live, o.key)
           next == Record(entries, o, at)
           a == IF o.key \in DOMAIN live THEN entries[o.key] ELSE Zero
<1>1. o.key \in Keys
  BY Constants
<1>2. /\ PartOf(room, live) /\ IsFiniteSet(DOMAIN room)
      /\ \A k \in DOMAIN live : k \in DOMAIN room \/ Evicted(k, o.key)
      /\ o.key \in DOMAIN live <=> o.key \in DOMAIN room
      /\ Cardinality(DOMAIN room \cup {o.key}) <= Capacity
  BY <1>1, Room
<1>3. PartOf(live, entries) /\ IsTable(entries)
  BY Pruned DEF Types
<1>4. a \in Counters
  BY <1>3, ZeroCounters DEF IsTable, PartOf
<1>5. a = IF o.key \in DOMAIN room THEN room[o.key] ELSE Zero
  BY <1>2, <1>3 DEF PartOf
<1> HIDE DEF live, a
<1>6. next = With(room, o.key, Counted(a, o, at))
  BY <1>5 DEF Record, live
<1> HIDE DEF next, room
<1>7. DOMAIN next = DOMAIN room \cup {o.key} /\ next[o.key] = Counted(a, o, at)
  BY <1>6 DEF With
<1>8. \A k \in DOMAIN next : k # o.key => k \in DOMAIN live /\ next[k] = entries[k]
  BY <1>2, <1>3, <1>6, <1>7 DEF PartOf, With
<1>9. IsFiniteSet(DOMAIN next)
  BY <1>2, <1>7, FS_AddElement
<1>10. IsTable(next)
  <2>1. Counted(a, o, at) \in Counters
    BY <1>4, OneEvent
  <2>2. \A k \in DOMAIN next : k \in Keys /\ next[k] \in Counters
    BY <1>1, <1>3, <1>7, <1>8, <2>1 DEF IsTable, PartOf
  <2> QED BY <2>2 DEF IsTable
<1>11. \A k \in DOMAIN live : k \in DOMAIN next \/ Evicted(k, o.key)
  BY <1>2, <1>7
<1>12. Cardinality(DOMAIN next) <= Capacity
  BY <1>2, <1>7
<1> QED BY <1>4, <1>7, <1>8, <1>9, <1>10, <1>11, <1>12 DEF live, next, a

---------------------------------------------------------------------------
(* What is forgotten.                                                      *)

\* Those above a target are among its rivals, and both are few.
LEMMA AboveAreRivals ==
  ASSUME Types, TimesInv, NEW k, EventsOf(k) # {}
  PROVE  /\ Above(k) \subseteq Rivals(k, Passed(k))
         /\ IsFiniteSet(Above(k)) /\ Cardinality(Above(k)) \in Nat
         /\ IsFiniteSet(Rivals(k, Passed(k))) /\ Cardinality(Rivals(k, Passed(k))) \in Nat
<1>1. Above(k) \subseteq Rivals(k, Passed(k))
  <2>1. ASSUME NEW o \in Above(k)
        PROVE  o \in Rivals(k, Passed(k))
    <3>1. PICK j \in HeardOf(o) : heard[j].at > SeenOf(k) \/ (heard[j].at = SeenOf(k) /\ k < o)
      BY DEF Above
    <3>2. j \in DOMAIN heard /\ heard[j].key = o /\ heard[j].at \in Nat
      BY Heard DEF HeardOf
    <3>3. heard[j].at >= SeenOf(k)
      BY <3>1, <3>2, LatestTime
    <3>4. j \in Passed(k)
      BY <3>2, <3>3 DEF Passed
    <3> QED BY <3>2, <3>4 DEF Above, Rivals
  <2> QED BY <2>1
<1>2. heard \in Seq(HeardEvents)
  BY DEF Types
<1>3. Rivals(k, Passed(k)) \subseteq {heard[j].key : j \in DOMAIN heard}
  BY DEF Rivals, Passed
<1> QED BY <1>1, <1>2, <1>3, FewKeys

\* While a target is not heard of its rivals only become more.
LEMMA MoreRivals ==
  ASSUME Types, Types', TimesInv, TimesInv', Grown, NEW k, Silent(k), EventsOf(k) # {}
  PROVE  /\ Above(k) \subseteq Above(k)'
         /\ Rivals(k, Passed(k)) \subseteq Rivals(k, Passed(k))'
         /\ IsFiniteSet(Above(k)') /\ Cardinality(Above(k)') \in Nat
         /\ IsFiniteSet(Rivals(k, Passed(k))') /\ Cardinality(Rivals(k, Passed(k))') \in Nat
         /\ Cardinality(Above(k)) <= Cardinality(Above(k)')
         /\ Cardinality(Rivals(k, Passed(k))) <= Cardinality(Rivals(k, Passed(k))')
<1>1. /\ LastOf(k)' = LastOf(k) /\ SeenOf(k)' = SeenOf(k) /\ Above(k) \subseteq Above(k)'
  BY StillSilent
<1>2. Rivals(k, Passed(k)) \subseteq Rivals(k, Passed(k))'
  <2>1. ASSUME NEW j \in Passed(k)
        PROVE  j \in Passed(k)' /\ heard'[j] = heard[j]
    <3>1. j \in 1 .. Len(heard)
      BY Heard DEF Passed
    <3>2. heard'[j] = heard[j] /\ j \in DOMAIN heard'
      BY <3>1, Heard, HeardNext DEF Grown
    <3> QED BY <1>1, <3>2 DEF Passed
  <2> QED BY <2>1 DEF Rivals
<1>3. heard' \in Seq(HeardEvents)
  BY DEF Types
<1>4. Rivals(k, Passed(k))' \subseteq {heard'[j].key : j \in DOMAIN heard'}
  BY DEF Rivals, Passed
<1>5. Above(k)' \subseteq {heard'[j].key : j \in DOMAIN heard'}
  BY DEF Above, HeardOf
<1>6. /\ IsFiniteSet(Above(k)') /\ Cardinality(Above(k)') \in Nat
      /\ IsFiniteSet(Rivals(k, Passed(k))') /\ Cardinality(Rivals(k, Passed(k))') \in Nat
  BY <1>3, <1>4, <1>5, FewKeys
<1>7. /\ Cardinality(Above(k)) <= Cardinality(Above(k)')
      /\ Cardinality(Rivals(k, Passed(k))) <= Cardinality(Rivals(k, Passed(k))')
  BY <1>1, <1>2, <1>6, Larger
<1> QED BY <1>1, <1>2, <1>6, <1>7

\* Whether a target is known rightly is not changed by what becomes of others,
\* by time, or by dropping it for its age; only by an eviction.
LEMMA KnownStays ==
  ASSUME Types, Types', TimesInv, TimesInv', Grown, NEW k, Silent(k), EventsOf(k) # {},
         Known(k), clock <= clock',
         k \in DOMAIN entries' => k \in DOMAIN entries /\ entries'[k] = entries[k],
         k \in DOMAIN entries /\ k \notin DOMAIN entries' =>
           \/ clock' - entries[k].used > Ttl
           \/ Cardinality(Above(k)') + 1 >= Capacity /\ ForgottenRightly(k)'
  PROVE  Known(k)'
<1>1. /\ LastOf(k)' = LastOf(k) /\ SeenOf(k)' = SeenOf(k)
      /\ heard'[LastOf(k)] = heard[LastOf(k)]
  BY StillSilent
<1>2. LastOf(k) \in EventsOf(k) /\ heard[LastOf(k)].at \in Nat
  BY LastEvent, Heard
<1>3. SeenOf(k) \in Nat /\ heard[LastOf(k)].at <= SeenOf(k)
  BY <1>2, LatestTime
<1>4. clock \in Nat /\ clock' \in Nat /\ Ttl \in Nat /\ Capacity \in Nat
  BY Heard, HeardNext, Constants
<1>5. k \in DOMAIN entries => entries[k].used \in Nat
  BY CounterFields DEF Types, IsTable
<1>6. ASSUME k \in DOMAIN entries'
      PROVE  heard'[LastOf(k)'].at <= entries'[k].used /\ entries'[k].used <= SeenOf(k)'
  BY <1>1, <1>6 DEF Known
<1>7. ASSUME k \notin DOMAIN entries'
      PROVE  ForgottenRightly(k)'
  <2>1. CASE k \notin DOMAIN entries
    <3>1. ForgottenRightly(k)
      BY <2>1 DEF Known
    <3>2. CASE clock - heard[LastOf(k)].at > Ttl
      <4>1. clock' - heard'[LastOf(k)'].at > Ttl
        BY <1>1, <1>2, <1>4, <3>2
      <4> QED BY <4>1 DEF ForgottenRightly
    <3>3. CASE Cardinality(Rivals(k, Passed(k))) >= Capacity
      <4>1. Cardinality(Rivals(k, Passed(k))) \in Nat
        BY AboveAreRivals
      <4>2. Cardinality(Rivals(k, Passed(k))') >= Capacity
        BY <1>4, <3>3, <4>1, MoreRivals
      <4> QED BY <4>2 DEF ForgottenRightly
    <3> QED BY <3>1, <3>2, <3>3 DEF ForgottenRightly
  <2>2. CASE k \in DOMAIN entries /\ clock' - entries[k].used > Ttl
    <3>1. heard[LastOf(k)].at <= entries[k].used
      BY <2>2 DEF Known
    <3>2. clock' - heard'[LastOf(k)'].at > Ttl
      BY <1>1, <1>2, <1>4, <1>5, <2>2, <3>1
    <3> QED BY <3>2 DEF ForgottenRightly
  <2> QED BY <1>7, <2>1, <2>2
<1>8. \/ k \in DOMAIN entries' /\ entries'[k].used = SeenOf(k)'
      \/ Cardinality(Above(k)') + 1 >= Capacity
      \/ clock' - SeenOf(k)' > Ttl
  <2>1. CASE k \in DOMAIN entries /\ entries[k].used = SeenOf(k)
    BY <1>1, <2>1
  <2>2. CASE Cardinality(Above(k)) + 1 >= Capacity
    <3>1. Cardinality(Above(k)) \in Nat
      BY AboveAreRivals
    <3> QED BY <1>4, <2>2, <3>1, MoreRivals
  <2>3. CASE clock - SeenOf(k) > Ttl
    BY <1>1, <1>3, <1>4, <2>3
  <2> QED BY <2>1, <2>2, <2>3 DEF Known
<1> QED BY <1>6, <1>7, <1>8 DEF Known

\* The target an event evicts is forgotten rightly: all that stay are above it;
\* and one that was above it and is counted anew has that many above itself.
LEMMA Evicting ==
  ASSUME Types, Types', TimesInv, TimesInv', Sources, EntriesInv, phase # "down", Grown,
         NEW e \in Keys, heard'[Len(heard) + 1].key = e, Len(heard) + 1 <= Len(heard'),
         NEW k \in DOMAIN entries, k # e, Silent(k), EventsOf(k) # {}, Evicted(k, e)
  PROVE  Cardinality(Above(k)') + 1 >= Capacity /\ ForgottenRightly(k)'
<1> DEFINE live == PruneLocked(entries)
           Others == DOMAIN live \ {k}
           R == Rivals(k, Passed(k))'
<1>1. /\ k \in DOMAIN live /\ e \notin DOMAIN live /\ Cardinality(DOMAIN live) >= Capacity
      /\ \A j \in Others : Older(entries, k, j)
  BY DEF Evicted
<1>2. /\ DOMAIN live \subseteq DOMAIN entries /\ IsFiniteSet(DOMAIN live)
      /\ Cardinality(DOMAIN live) \in Nat /\ clock - entries[k].used <= Ttl
      /\ \A j \in DOMAIN entries : j \notin DOMAIN live => clock - entries[j].used > Ttl
  BY <1>1, Pruned DEF PartOf
<1> HIDE DEF live
<1>3. IsFiniteSet(Others) /\ Cardinality(Others) = Cardinality(DOMAIN live) - 1
  BY <1>1, <1>2, FS_RemoveElement
<1>4. DOMAIN entries \subseteq Keys /\ \A j \in DOMAIN entries : entries[j].used \in Nat
  BY CounterFields DEF Types, IsTable
<1>5. Keys \subseteq Nat /\ Capacity \in Nat /\ Ttl \in Nat /\ clock \in Nat
  BY Constants, Heard
<1>6. \A j \in Keys : EventsOf(j) # {} => Known(j)
  BY DEF EntriesInv
<1>7. k \in Keys /\ Known(k)
  BY <1>4, <1>6
<1>8. SeenOf(k) \in Nat /\ \A j \in EventsOf(k) : heard[j].at <= SeenOf(k)
  BY LatestTime
<1>9. heard[LastOf(k)].at <= entries[k].used /\ entries[k].used <= SeenOf(k)
  BY <1>7 DEF Known
<1>10. LastOf(k) \in 1 .. Len(heard) /\ LastOf(k) > since
  BY LastEvent
<1>11. heard[LastOf(k)].at >= booted /\ heard[LastOf(k)].at \in Nat /\ booted \in Nat
  BY <1>10, Heard DEF TimesInv
<1>12. \/ entries[k].used = SeenOf(k)
       \/ Cardinality(Above(k)) + 1 >= Capacity /\ entries[k].used < SeenOf(k)
  <2>1. ~(clock - SeenOf(k) > Ttl)
    BY <1>2, <1>4, <1>5, <1>8, <1>9
  <2> QED BY <1>4, <1>7, <1>8, <1>9, <2>1 DEF Known
<1>13. /\ Above(k) \subseteq Above(k)' /\ Above(k) \subseteq R
       /\ IsFiniteSet(Above(k)) /\ Cardinality(Above(k)) \in Nat
       /\ IsFiniteSet(Above(k)') /\ Cardinality(Above(k)') \in Nat
       /\ Cardinality(Above(k)) <= Cardinality(Above(k)')
       /\ IsFiniteSet(R) /\ Cardinality(R) \in Nat
  BY AboveAreRivals, MoreRivals
<1>14. e \in R
  <2>1. LastOf(k)' = LastOf(k)
    BY StillSilent
  <2>2. Len(heard) + 1 \in DOMAIN heard' /\ Len(heard) + 1 > LastOf(k)
    BY <1>10, Heard, HeardNext
  <2>3. Len(heard) + 1 \in Passed(k)'
    BY <2>1, <2>2 DEF Passed
  <2> QED BY <2>3 DEF Rivals
<1> HIDE DEF R
<1>15. ASSUME Cardinality(R) >= Capacity
       PROVE  ForgottenRightly(k)'
  BY <1>15 DEF ForgottenRightly, R
<1>16. CASE entries[k].used = SeenOf(k)
  <2>1. Others \subseteq Above(k)
    <3>1. ASSUME NEW j \in Others
          PROVE  j \in Above(k)
      <4>1. j \in DOMAIN entries /\ j \in Keys \ {k}
        BY <1>2, <1>4
      <4>2. PICK i \in HeardOf(j) : entries[j].used = heard[i].at
        BY <4>1 DEF Sources, FromEvents
      <4>3. entries[k].used < entries[j].used \/ (entries[k].used = entries[j].used /\ k < j)
        BY <1>1 DEF Older
      <4>4. heard[i].at > SeenOf(k) \/ (heard[i].at = SeenOf(k) /\ k < j)
        BY <1>4, <1>8, <1>16, <4>1, <4>2, <4>3
      <4> QED BY <4>1, <4>4 DEF Above
    <3> QED BY <3>1
  <2>2. Cardinality(Others) + 1 >= Capacity /\ Cardinality(Others) \in Nat
    BY <1>1, <1>2, <1>3, <1>5, FS_CardinalityType
  <2>3. Cardinality(Others) <= Cardinality(Above(k))
    BY <1>13, <2>1, Larger
  <2>4. e \notin Others /\ Others \subseteq R
    BY <1>1, <1>13, <2>1
  <2>5. Cardinality(Others) + 1 <= Cardinality(R)
    BY <1>13, <1>14, <2>4, OneMore
  <2> QED BY <1>5, <1>13, <1>15, <2>2, <2>3, <2>5
<1>17. CASE Cardinality(Above(k)) + 1 >= Capacity /\ entries[k].used < SeenOf(k)
  <2>1. CASE e \notin Above(k)
    <3>1. Cardinality(Above(k)) + 1 <= Cardinality(R)
      BY <1>13, <1>14, <2>1, OneMore
    <3> QED BY <1>5, <1>13, <1>15, <1>17, <3>1
  <2>2. CASE e \in Above(k)
    <3>1. PICK i \in HeardOf(e) : heard[i].at > SeenOf(k) \/ (heard[i].at = SeenOf(k) /\ k < e)
      BY <2>2 DEF Above
    <3>2. i \in 1 .. Len(heard) /\ heard[i].key = e /\ heard[i].at \in Nat
      BY Heard DEF HeardOf
    <3>3. heard[i].at > booted
      BY <1>4, <1>8, <1>9, <1>11, <1>17, <3>1, <3>2
    <3>4. i > since
      BY <1>11, <3>2, <3>3, Heard DEF TimesInv
    <3>5. i \in EventsOf(e)
      BY <3>2, <3>4, Heard DEF EventsOf
    <3>6. /\ Known(e) /\ SeenOf(e) \in Nat /\ heard[i].at <= SeenOf(e)
      BY <1>6, <3>5, LatestTime
    <3>7. SeenOf(k) <= SeenOf(e)
      BY <1>8, <3>1, <3>2, <3>6
    <3>8. ~(clock - SeenOf(e) > Ttl)
      BY <1>2, <1>4, <1>5, <1>8, <1>9, <3>6, <3>7
    <3>9. Cardinality(Above(e)) + 1 >= Capacity
      <4>1. ~(e \in DOMAIN entries /\ entries[e].used = SeenOf(e))
        BY <1>1, <1>2, <3>8
      <4> QED BY <3>6, <3>8, <4>1 DEF Known
    <3>10. Above(e) \subseteq Above(k)
      <4>1. ASSUME NEW p \in Above(e)
            PROVE  p \in Above(k)
        <5>1. p \in Keys /\ p \in Nat /\ k \in Nat /\ e \in Nat
          BY <1>5, <1>7 DEF Above
        <5>2. PICK q \in HeardOf(p) : heard[q].at > SeenOf(e) \/ (heard[q].at = SeenOf(e) /\ e < p)
          BY DEF Above
        <5>3. q \in 1 .. Len(heard) /\ heard[q].key = p /\ heard[q].at \in Nat
          BY Heard DEF HeardOf
        <5>4. heard[q].at > SeenOf(k) \/ (heard[q].at = SeenOf(k) /\ k < p)
          BY <1>8, <3>1, <3>2, <3>6, <5>1, <5>2, <5>3
        <5>5. p # k
          <6>1. SUFFICES ASSUME p = k
                         PROVE  FALSE
            OBVIOUS
          <6>2. CASE q > since
            <7>1. q \in EventsOf(k)
              BY <5>3, <6>1, <6>2, Heard DEF EventsOf
            <7> QED BY <1>8, <5>1, <5>3, <5>4, <6>1, <7>1
          <6>3. CASE ~(q > since)
            <7>1. heard[q].at <= booted
              BY <5>3, <6>3, Heard DEF TimesInv
            <7> QED BY <1>4, <1>8, <1>9, <1>11, <1>17, <5>3, <5>4, <7>1
          <6> QED BY <6>2, <6>3
        <5> QED BY <5>1, <5>4, <5>5 DEF Above
      <4> QED BY <4>1
    <3>11. e \notin Above(e)
      BY DEF Above
    <3>12. Cardinality(Above(e)) + 1 <= Cardinality(Above(k))
      BY <1>13, <2>2, <3>10, <3>11, OneMore
    <3>13. Cardinality(Above(e)) \in Nat
      BY <1>13, <3>10, Larger
    <3>14. Cardinality(Above(k)) <= Cardinality(R)
      BY <1>13, Larger
    <3> QED BY <1>5, <1>13, <1>15, <1>17, <3>9, <3>12, <3>13, <3>14
  <2> QED BY <2>1, <2>2
<1> QED BY <1>12, <1>16, <1>17

\* The target of the event itself: it is known, for the latest of its times, or
\* it was dropped before and is back for an older one.
LEMMA KnownNow ==
  ASSUME Types, Types', TimesInv, Sources, EntriesInv, phase # "down",
         NEW o \in Observations, NEW at \in booted .. clock,
         Submits(o, at), NEW k, k = o.key
  PROVE  k \in DOMAIN entries' /\ Known(k)'
<1> DEFINE n == Len(heard) + 1
           live == PruneLocked(entries)
           a == IF k \in DOMAIN live THEN entries[k] ELSE Zero
<1>1. /\ since' = since /\ booted' = booted /\ clock' = clock
      /\ entries' = Record(entries, o, at)
      /\ Len(heard') = n /\ heard'[n].key = k /\ heard'[n].at = at /\ Grown /\ TimesInv'
      /\ k \in Keys /\ at \in Nat /\ n \in 1 .. Len(heard') /\ n > since'
  <2>1. /\ since' = since /\ booted' = booted /\ clock' = clock
        /\ entries' = Record(entries, o, at)
        /\ Len(heard') = n /\ heard'[n].key = k /\ heard'[n].at = at /\ Grown /\ TimesInv'
    BY Submitted
  <2>2. k \in Keys /\ at \in Nat /\ n \in 1 .. n /\ n > since
    BY Constants, Heard
  <2> QED BY <2>1, <2>2
<1>2. k \in DOMAIN entries' /\ entries'[k] = Counted(a, o, at) /\ a \in Counters
  BY <1>1, Recorded
<1>4. /\ PartOf(live, entries)
      /\ \A j \in DOMAIN entries : j \notin DOMAIN live => clock - entries[j].used > Ttl
  BY Pruned
<1>5. k \in DOMAIN live => k \in DOMAIN entries /\ a = entries[k]
  BY <1>4 DEF PartOf
<1>6. k \notin DOMAIN live => a.used = 0
  BY ZeroCounters
<1> HIDE DEF a, live, n
<1>3. /\ entries'[k].used = IF a.used < at THEN at ELSE a.used
      /\ a.used \in Nat
  <2>1. a \in Counters /\ at \in Nat /\ o \in Observations
    BY <1>1, <1>2
  <2>2. Counted(a, o, at).used = IF a.used < at THEN at ELSE a.used
    BY <2>1, OneEvent
  <2>3. a.used \in Nat
    BY <2>1, CounterFields
  <2>4. entries'[k] = Counted(a, o, at)
    BY <1>2
  <2> QED BY <2>2, <2>3, <2>4
<1>7. \A j \in EventsOf(k)' : j = n \/ (j \in EventsOf(k) /\ heard'[j] = heard[j])
  <2> TAKE j \in EventsOf(k)'
  <2>1. j \in since' + 1 .. Len(heard') /\ heard'[j].key = k
    BY DEF EventsOf
  <2>2. j = n \/ j \in since + 1 .. Len(heard)
    BY <1>1, <2>1, Heard, HeardNext DEF n
  <2>3. ASSUME j \in since + 1 .. Len(heard)
        PROVE  j \in EventsOf(k) /\ heard'[j] = heard[j]
    <3>1. j \in 1 .. Len(heard)
      BY <2>3, Heard
    <3>2. heard'[j] = heard[j]
      BY <1>1, <3>1 DEF Grown
    <3> QED BY <2>1, <2>3, <3>2 DEF EventsOf
  <2> QED BY <2>2, <2>3
<1>8. n \in EventsOf(k)' /\ EventsOf(k) \subseteq EventsOf(k)'
  BY <1>1, StillHeard, HeardNext DEF EventsOf
<1>9. EventsOf(k)' \in SUBSET Nat /\ \A j \in EventsOf(k)' : j <= n
  BY <1>1, HeardNext DEF EventsOf
<1>10. LastOf(k)' = n
  BY <1>8, <1>9, MaxChosen DEF LastOf
<1>11. \A j \in EventsOf(k)' : heard'[j].at \in Nat
  BY HeardNext DEF EventsOf
<1>12. /\ EventsOf(k) # {} => SeenOf(k)' = IF SeenOf(k) < at THEN at ELSE SeenOf(k)
       /\ EventsOf(k) = {} => SeenOf(k)' = at
  <2>1. CASE EventsOf(k) = {}
    <3>1. \A j \in EventsOf(k)' : j = n
      BY <1>7, <2>1
    <3>2. \A j \in EventsOf(k)' : heard'[j].at <= heard'[n].at
      BY <1>1, <3>1
    <3>3. SeenOf(k)' = heard'[n].at
      BY <1>8, <1>11, <3>2, TimeChosen DEF SeenOf
    <3> QED BY <1>1, <2>1, <3>3
  <2>2. CASE EventsOf(k) # {}
    <3>1. /\ SeenOf(k) \in Nat
          /\ \A j \in EventsOf(k) : heard[j].at <= SeenOf(k)
      BY <2>2, LatestTime
    <3>2. PICK m \in EventsOf(k) : heard[m].at = SeenOf(k)
      BY <2>2, LatestTime
    <3>3. heard'[m] = heard[m] /\ m \in EventsOf(k)'
      <4>1. m \in 1 .. Len(heard)
        BY Heard DEF EventsOf
      <4> QED BY <1>1, <1>8, <4>1 DEF Grown
    <3>4. \A j \in EventsOf(k)' : heard'[j].at <= SeenOf(k) \/ heard'[j].at = at
      BY <1>1, <1>7, <3>1
    <3>5. CASE SeenOf(k) < at
      <4>1. \A j \in EventsOf(k)' : heard'[j].at <= heard'[n].at
        BY <1>1, <1>11, <3>1, <3>4, <3>5
      <4>2. SeenOf(k)' = heard'[n].at
        BY <1>8, <1>11, <4>1, TimeChosen DEF SeenOf
      <4> QED BY <1>1, <2>2, <3>5, <4>2
    <3>6. CASE ~(SeenOf(k) < at)
      <4>1. \A j \in EventsOf(k)' : heard'[j].at <= heard'[m].at
        BY <1>1, <1>11, <3>1, <3>2, <3>3, <3>4, <3>6
      <4>2. SeenOf(k)' = heard'[m].at
        BY <1>11, <3>3, <4>1, TimeChosen DEF SeenOf
      <4> QED BY <2>2, <3>2, <3>3, <3>6, <4>2
    <3> QED BY <3>5, <3>6
  <2> QED BY <2>1, <2>2
<1>13. heard'[LastOf(k)'].at <= entries'[k].used
  BY <1>1, <1>3, <1>10
<1>14. clock \in Nat /\ booted \in Nat /\ Ttl \in Nat /\ Capacity \in Nat /\ at >= booted
  BY Heard, Constants
<1>15. /\ entries'[k].used <= SeenOf(k)'
       /\ \/ entries'[k].used = SeenOf(k)'
          \/ Cardinality(Above(k)') + 1 >= Capacity
          \/ clock' - SeenOf(k)' > Ttl
  <2>1. CASE EventsOf(k) = {}
    <3>1. a.used <= booted
      BY <1>5, <1>6, <1>14, <2>1 DEF EntriesInv
    <3>2. entries'[k].used = at
      BY <1>1, <1>3, <1>14, <3>1
    <3> QED BY <1>1, <1>12, <2>1, <3>2
  <2>2. CASE EventsOf(k) # {}
    <3>1. Known(k) /\ SeenOf(k) \in Nat
      BY <1>1, <2>2, LatestTime DEF EntriesInv
    <3>2. a.used <= SeenOf(k)
      BY <1>5, <1>6, <3>1 DEF Known
    <3>3. entries'[k].used <= SeenOf(k)'
      BY <1>1, <1>3, <1>12, <2>2, <3>1, <3>2
    <3>4. CASE SeenOf(k) <= at
      BY <1>1, <1>3, <1>12, <2>2, <3>1, <3>2, <3>4
    <3>5. CASE SeenOf(k) > at
      <4>1. SeenOf(k)' = SeenOf(k)
        BY <1>1, <1>12, <2>2, <3>1, <3>5
      <4>2. CASE k \in DOMAIN entries /\ entries[k].used = SeenOf(k)
        <5>1. CASE k \in DOMAIN live
          BY <1>1, <1>3, <1>5, <3>1, <3>5, <4>1, <4>2, <5>1
        <5>2. CASE k \notin DOMAIN live
          BY <1>1, <1>4, <3>3, <4>1, <4>2, <5>2
        <5> QED BY <5>1, <5>2
      <4>3. CASE Cardinality(Above(k)) + 1 >= Capacity
        <5>1. Above(k) \subseteq Above(k)'
          <6>1. ASSUME NEW p \in Above(k)
                PROVE  p \in Above(k)'
            <7>1. PICK j \in HeardOf(p) : heard[j].at > SeenOf(k) \/ (heard[j].at = SeenOf(k) /\ k < p)
              BY DEF Above
            <7>2. j \in HeardOf(p)' /\ heard'[j] = heard[j]
              BY <1>1, StillHeard, Heard DEF HeardOf, Grown
            <7> QED BY <4>1, <7>1, <7>2 DEF Above
          <6> QED BY <6>1
        <5>2. IsFiniteSet(Above(k)') /\ Cardinality(Above(k)') \in Nat
          <6>1. heard' \in Seq(HeardEvents)
            BY DEF Types
          <6>2. Above(k)' \subseteq {heard'[j].key : j \in DOMAIN heard'}
            BY DEF Above, HeardOf
          <6> QED BY <6>1, <6>2, FewKeys
        <5>3. Cardinality(Above(k)) \in Nat /\ Cardinality(Above(k)) <= Cardinality(Above(k)')
          BY <5>1, <5>2, Larger
        <5>4. Cardinality(Above(k)') + 1 >= Capacity
          BY <1>14, <4>3, <5>2, <5>3
        <5> QED BY <3>3, <5>4
      <4>4. CASE clock - SeenOf(k) > Ttl
        BY <1>1, <3>3, <4>1, <4>4
      <4> QED BY <3>1, <4>2, <4>3, <4>4 DEF Known
    <3> QED BY <1>1, <3>1, <3>4, <3>5
  <2> QED BY <2>1, <2>2
<1> QED BY <1>2, <1>13, <1>15 DEF Known

LEMMA EntriesEmit ==
  ASSUME Types, Types', TimesInv, Sources, EntriesInv, phase # "down",
         NEW o \in Observations, NEW at \in booted .. clock,
         Submits(o, at)
  PROVE  EntriesInv'
<1> DEFINE live == PruneLocked(entries)
<1>1. /\ since' = since /\ booted' = booted /\ clock' = clock
      /\ entries' = Record(entries, o, at)
      /\ Grown /\ TimesInv' /\ \A k : k # o.key => Silent(k)
      /\ Len(heard) + 1 <= Len(heard') /\ heard'[Len(heard) + 1].key = o.key
      /\ o.key \in Keys /\ at \in Nat /\ clock \in Nat
  BY Submitted, Constants, Heard
<1>2. o.key \in DOMAIN entries' /\ Known(o.key)'
  BY KnownNow
<1>3. /\ \A k \in DOMAIN entries' : k # o.key => k \in DOMAIN live /\ entries'[k] = entries[k]
      /\ \A k \in DOMAIN live : k \in DOMAIN entries' \/ Evicted(k, o.key)
  BY <1>1, Recorded
<1>4. /\ DOMAIN live \subseteq DOMAIN entries
      /\ \A k \in DOMAIN entries : k \notin DOMAIN live => clock - entries[k].used > Ttl
  BY Pruned DEF PartOf
<1> HIDE DEF live
<1>5. ASSUME NEW k \in Keys, EventsOf(k)' # {}, k # o.key
      PROVE  Known(k)'
  <2>1. Silent(k) /\ EventsOf(k)' = EventsOf(k)
    BY <1>1, <1>5, StillSilent
  <2>2. EventsOf(k) # {} /\ Known(k)
    BY <1>5, <2>1 DEF EntriesInv
  <2>3. k \in DOMAIN entries' => k \in DOMAIN entries /\ entries'[k] = entries[k]
    BY <1>3, <1>4, <1>5
  <2>4. ASSUME k \in DOMAIN entries, k \notin DOMAIN entries'
        PROVE  \/ clock' - entries[k].used > Ttl
               \/ Cardinality(Above(k)') + 1 >= Capacity /\ ForgottenRightly(k)'
    <3>1. CASE k \notin DOMAIN live
      BY <1>1, <1>4, <2>4, <3>1
    <3>2. CASE k \in DOMAIN live
      <4>1. Evicted(k, o.key)
        BY <1>3, <2>4, <3>2
      <4> QED BY <1>1, <1>5, <2>1, <2>2, <2>4, <4>1, Evicting
    <3> QED BY <3>1, <3>2
  <2>5. clock <= clock'
    BY <1>1
  <2> QED BY <1>1, <2>1, <2>2, <2>3, <2>4, <2>5, KnownStays
<1>6. ASSUME NEW k \in DOMAIN entries', EventsOf(k)' = {}
      PROVE  entries'[k].used <= booted'
  <2>1. Len(heard) + 1 \in EventsOf(o.key)'
    <3>1. Len(heard) + 1 \in since' + 1 .. Len(heard')
      BY <1>1, Heard, HeardNext
    <3> QED BY <1>1, <3>1 DEF EventsOf
  <2>2. k # o.key
    BY <1>6, <2>1
  <2>3. k \in DOMAIN entries /\ entries'[k] = entries[k] /\ EventsOf(k) = {}
    BY <1>1, <1>3, <1>4, <1>6, <2>2, StillSilent
  <2>4. entries[k].used <= booted
    BY <2>3 DEF EntriesInv
  <2> QED BY <1>1, <2>3, <2>4
<1> QED BY <1>2, <1>5, <1>6 DEF EntriesInv

\* Nothing else that happens to a process that is up makes a target forgotten wrongly.
LEMMA EntriesQuiet ==
  ASSUME Types, Types', TimesInv, TimesInv', EntriesInv, phase # "down",
         heard' = heard, since' = since, booted' = booted, clock <= clock',
         entries' = entries \/ (entries' = PruneLocked(entries) /\ clock' = clock)
  PROVE  EntriesInv'
<1>1. Grown /\ \A k : Silent(k)
  BY Heard DEF Grown, Silent
<1>2. /\ \A k \in DOMAIN entries' : k \in DOMAIN entries /\ entries'[k] = entries[k]
      /\ \A k \in DOMAIN entries : k \notin DOMAIN entries' => clock' - entries[k].used > Ttl
  BY Pruned DEF PartOf
<1>3. \A k : EventsOf(k)' = EventsOf(k)
  BY <1>1, StillSilent
<1>4. ASSUME NEW k \in Keys, EventsOf(k)' # {}
      PROVE  Known(k)'
  <2>1. EventsOf(k) # {} /\ Known(k)
    BY <1>3, <1>4 DEF EntriesInv
  <2> QED BY <1>1, <1>2, <2>1, KnownStays
<1>5. ASSUME NEW k \in DOMAIN entries', EventsOf(k)' = {}
      PROVE  entries'[k].used <= booted'
  BY <1>2, <1>3, <1>5 DEF EntriesInv
<1> QED BY <1>4, <1>5 DEF EntriesInv

\* A process that starts has heard of nobody.
LEMMA EntriesStart ==
  ASSUME Types, Types', TimesInv, Sources, heard' = heard, since' = Len(heard), booted' = clock,
         PartOf(entries', rows)
  PROVE  EntriesInv'
<1>1. \A k : EventsOf(k)' = {}
  BY Heard DEF EventsOf
<1>2. ASSUME NEW k \in DOMAIN entries'
      PROVE  entries'[k].used <= booted'
  <2>1. k \in DOMAIN rows /\ entries'[k] = rows[k]
    BY DEF PartOf
  <2>2. PICK j \in HeardOf(k) : rows[k].used = heard[j].at
    BY <2>1 DEF Sources, FromEvents
  <2>3. j \in DOMAIN heard /\ heard[j].at \in Nat /\ heard[j].in \in Nat
    BY Heard DEF HeardOf
  <2>4. heard[j].at <= heard[j].in /\ heard[j].in <= clock
    BY <2>3 DEF TimesInv
  <2> QED BY <2>1, <2>2, <2>3, <2>4, Heard
<1> QED BY <1>1, <1>2 DEF EntriesInv

---------------------------------------------------------------------------
(* The routes.                                                             *)

LEMMA Attempt ==
  ASSUME Types, NEW k, NEW j \in AttemptsOf(k)
  PROVE  /\ j \in 1 .. Len(heard) /\ j > since /\ j \in Nat /\ heard[j].in \in Nat
         /\ heard[j].key = k /\ heard[j].kind = "attempt"
<1>1. j \in since + 1 .. Len(heard) /\ heard[j].key = k /\ heard[j].kind = "attempt"
  BY DEF AttemptsOf, EventsOf
<1>2. j \in 1 .. Len(heard) /\ j > since
  BY <1>1, Heard
<1> QED BY <1>1, <1>2, Heard

\* The samples that are cut are those at the head that are stale.
LEMMA HeadCut ==
  ASSUME Types, NEW s \in Seq(Nat)
  PROVE  LET n == Cardinality(Stale(s)) IN
         /\ n \in 0 .. Len(s) /\ \A i \in 1 .. n : s[i] < clock - Horizon
         /\ Recent(s) \in Seq(Nat) /\ Len(Recent(s)) = Len(s) - n
         /\ \A i \in 1 .. Len(s) - n : Recent(s)[i] = s[i + n]
         /\ n < Len(s) => ~(\A j \in 1 .. n + 1 : s[j] < clock - Horizon)
<1> DEFINE n == Cardinality(Stale(s))
<1>1. Len(s) \in Nat /\ DOMAIN s = 1 .. Len(s)
  OBVIOUS
<1>2. Stale(s) \in SUBSET (1 .. Len(s)) /\ \A i \in Stale(s) : \A j \in 1 .. i : j \in Stale(s)
  BY <1>1 DEF Stale
<1>3. Stale(s) = 1 .. n /\ n \in 0 .. Len(s)
  BY <1>1, <1>2, Prefix
<1> HIDE DEF n
<1>4. \A i \in 1 .. n : s[i] < clock - Horizon
  BY <1>3 DEF Stale
<1>5. Recent(s) = SubSeq(s, n + 1, Len(s))
  BY DEF Recent, n
<1>6. /\ Recent(s) \in Seq(Nat) /\ Len(Recent(s)) = Len(s) - n
      /\ \A i \in 1 .. Len(s) - n : Recent(s)[i] = s[i + n]
  <2>1. n + 1 \in Int /\ Len(s) \in Int /\ \A i \in n + 1 .. Len(s) : s[i] \in Nat
    BY <1>1, <1>3
  <2>2. /\ Recent(s) \in Seq(Nat)
        /\ Len(Recent(s)) = IF n + 1 <= Len(s) THEN Len(s) - (n + 1) + 1 ELSE 0
        /\ \A i \in 1 .. Len(s) - (n + 1) + 1 : Recent(s)[i] = s[n + 1 + i - 1]
    BY <1>5, <2>1, SubSeqProperties
  <2>3. Len(s) - (n + 1) + 1 = Len(s) - n /\ n \in Nat /\ n <= Len(s)
    BY <1>1, <1>3
  <2>4. Len(Recent(s)) = Len(s) - n
    <3>1. CASE n + 1 <= Len(s)
      BY <2>2, <2>3, <3>1
    <3>2. CASE ~(n + 1 <= Len(s))
      <4>1. Len(Recent(s)) = 0
        BY <2>2, <3>2
      <4>2. \A l, m \in Nat : m <= l /\ ~(m + 1 <= l) => l - m = 0
        OBVIOUS
      <4>3. Len(s) - n = 0
        BY <1>1, <2>3, <3>2, <4>2
      <4> QED BY <4>1, <4>3
    <3> QED BY <3>1, <3>2
  <2>5. ASSUME NEW i \in 1 .. Len(s) - n
        PROVE  Recent(s)[i] = s[i + n]
    <3>1. n + 1 + i - 1 = i + n
      BY <2>3
    <3> QED BY <2>2, <2>3, <3>1
  <2> QED BY <2>2, <2>4, <2>5
<1>7. n < Len(s) => ~(\A j \in 1 .. n + 1 : s[j] < clock - Horizon)
  <2>1. n + 1 \notin Stale(s)
    BY <1>3
  <2> QED BY <1>1, <1>3, <2>1 DEF Stale
<1> QED BY <1>3, <1>4, <1>6, <1>7 DEF n

\* To cut them keeps the rest traced.
LEMMA TracedCut ==
  ASSUME Types, NEW k, NEW s \in Seq(Nat), Traced(k, s)
  PROVE  Traced(k, Recent(s))
<1> DEFINE n == Cardinality(Stale(s))
           r == Recent(s)
<1>1. /\ n \in 0 .. Len(s) /\ \A i \in 1 .. n : s[i] < clock - Horizon
      /\ r \in Seq(Nat) /\ Len(r) = Len(s) - n
      /\ \A i \in 1 .. Len(s) - n : r[i] = s[i + n]
  BY HeadCut
<1> HIDE DEF n, r
<1>2. PICK c \in 0 .. Len(heard), f \in [1 .. Len(s) -> 1 .. Len(heard)] :
        SamplePlaces(k, s, f, c) /\ Dropped(k, s, c)
  BY DEF Traced
<1>3. Len(s) \in Nat
  OBVIOUS
<1>4. CASE n = 0
  <2>1. Len(r) = Len(s) /\ \A i \in 1 .. Len(s) : r[i] = s[i]
    BY <1>1, <1>3, <1>4
  <2>2. SamplePlaces(k, r, f, c)
    BY <1>2, <2>1 DEF SamplePlaces
  <2>3. Dropped(k, r, c)
    BY <1>2, <2>1 DEF Dropped
  <2> QED BY <1>2, <2>1, <2>2, <2>3 DEF Traced, r
<1>5. CASE n # 0
  <2> DEFINE g == [i \in 1 .. Len(r) |-> f[i + n]]
  <2>1. n \in 1 .. Len(s) /\ \A i \in 1 .. Len(r) : i + n \in 1 .. Len(s) /\ i + n > n
    BY <1>1, <1>3, <1>5
  <2>2. g \in [1 .. Len(r) -> 1 .. Len(heard)] /\ f[n] \in 0 .. Len(heard)
    <3>1. \A i \in 1 .. Len(r) : f[i + n] \in 1 .. Len(heard)
      BY <1>2, <2>1
    <3>2. f[n] \in 1 .. Len(heard)
      BY <1>2, <2>1
    <3> QED BY <3>1, <3>2, Heard
  <2>3. \A i \in 1 .. Len(s) : f[i] \in AttemptsOf(k) /\ f[i] \in Nat
    BY <1>2, Attempt DEF SamplePlaces
  <2>4. \A i \in 1 .. Len(r) : g[i] \in AttemptsOf(k) /\ g[i] > f[n] /\ r[i] = heard[g[i]].in
    BY <1>1, <1>2, <2>1, <2>3 DEF SamplePlaces
  <2>5. \A i, j \in 1 .. Len(r) : i < j => g[i] < g[j]
    BY <1>1, <1>2, <1>3, <2>1 DEF SamplePlaces
  <2>6. ASSUME NEW j \in AttemptsOf(k), j > f[n]
        PROVE  \E i \in 1 .. Len(r) : g[i] = j
    <3>1. f[n] > c /\ j > c
      <4>1. f[n] > c /\ f[n] \in Nat
        BY <1>2, <2>1, <2>3 DEF SamplePlaces
      <4>2. j \in Nat /\ j > f[n]
        BY <2>6, Attempt
      <4>3. c \in Nat
        BY <1>2, Heard
      <4> QED BY <4>1, <4>2, <4>3
    <3>2. PICK i \in 1 .. Len(s) : f[i] = j
      BY <1>2, <3>1 DEF SamplePlaces
    <3>3. i > n
      BY <1>2, <2>1, <2>3, <2>6, <3>2 DEF SamplePlaces
    <3>4. i - n \in 1 .. Len(r) /\ (i - n) + n = i
      BY <1>1, <1>3, <3>2, <3>3
    <3> QED BY <3>2, <3>4
  <2>7. f[n] \in AttemptsOf(k) /\ heard[f[n]].in < clock - Horizon
    BY <1>1, <1>2, <2>1, <2>3 DEF SamplePlaces
  <2>8. Dropped(k, r, f[n])
    BY <2>7 DEF Dropped
  <2> HIDE DEF g
  <2>9. SamplePlaces(k, r, g, f[n])
    BY <2>4, <2>5, <2>6 DEF SamplePlaces
  <2> QED BY <2>2, <2>8, <2>9 DEF Traced, r
<1> QED BY <1>4, <1>5

\* A route whose target reports no attempt stays traced.
LEMMA TracedStays ==
  ASSUME Types, Types', Grown, NEW k, AttemptsOf(k)' = AttemptsOf(k), clock <= clock',
         NEW s, Traced(k, s)
  PROVE  Traced(k, s)'
<1>1. PICK c \in 0 .. Len(heard), f \in [1 .. Len(s) -> 1 .. Len(heard)] :
        SamplePlaces(k, s, f, c) /\ Dropped(k, s, c)
  BY DEF Traced
<1>2. \A j \in AttemptsOf(k) : heard'[j] = heard[j]
  BY Attempt DEF Grown
<1>3. SamplePlaces(k, s, f, c)'
  BY <1>1, <1>2 DEF SamplePlaces
<1>4. Dropped(k, s, c)'
  <2>1. CASE \A j \in AttemptsOf(k) : j > c
    BY <2>1 DEF Dropped
  <2>2. CASE c \in AttemptsOf(k) /\ heard[c].in < clock - Horizon
    <3>1. heard[c].in \in Nat /\ heard'[c] = heard[c]
      BY <1>2, <2>2, Attempt
    <3>2. clock \in Nat /\ clock' \in Nat /\ Horizon \in Nat
      BY Heard, HeardNext, Constants
    <3>3. heard'[c].in < clock' - Horizon
      BY <2>2, <3>1, <3>2
    <3> QED BY <2>2, <3>3 DEF Dropped
  <2>3. CASE c \in AttemptsOf(k) /\ Len(s) = MaxSamples
    BY <2>3 DEF Dropped
  <2>4. CASE c \in AttemptsOf(k) /\ Cardinality(Rivals(k, InUseSince(c))) >= Capacity
    <3>1. c \in 1 .. Len(heard)
      BY <2>4, Attempt
    <3>2. InUseSince(c) \subseteq InUseSince(c)'
      BY <3>1, StillHeard
    <3>3. \A j \in InUseSince(c) : heard'[j] = heard[j]
      <4> TAKE j \in InUseSince(c)
      <4>1. j \in 1 .. Len(heard)
        BY Heard DEF InUseSince
      <4> QED BY <4>1 DEF Grown
    <3>4. Rivals(k, InUseSince(c)) \subseteq Rivals(k, InUseSince(c))'
      BY <3>2, <3>3 DEF Rivals
    <3>5. IsFiniteSet(Rivals(k, InUseSince(c))')
      <4>1. heard' \in Seq(HeardEvents)
        BY DEF Types
      <4>2. InUseSince(c)' \subseteq DOMAIN heard'
        BY HeardNext DEF InUseSince
      <4>3. Rivals(k, InUseSince(c))' \subseteq {heard'[j].key : j \in DOMAIN heard'}
        BY <4>2 DEF Rivals
      <4> QED BY <4>1, <4>3, FewKeys
    <3>6. /\ Cardinality(Rivals(k, InUseSince(c))) \in Nat
          /\ Cardinality(Rivals(k, InUseSince(c))') \in Nat
          /\ Cardinality(Rivals(k, InUseSince(c))) <= Cardinality(Rivals(k, InUseSince(c))')
      BY <3>4, <3>5, Larger
    <3>7. Cardinality(Rivals(k, InUseSince(c))') >= Capacity
      BY <2>4, <3>6, Constants
    <3> QED BY <2>4, <3>7 DEF Dropped
  <2> QED BY <1>1, <2>1, <2>2, <2>3, <2>4 DEF Dropped
<1>5. c \in 0 .. Len(heard') /\ f \in [1 .. Len(s) -> 1 .. Len(heard')]
  <2>1. 1 .. Len(heard) \subseteq 1 .. Len(heard') /\ 0 .. Len(heard) \subseteq 0 .. Len(heard')
    BY Heard, HeardNext DEF Grown
  <2> QED BY <1>1, <2>1
<1> QED BY <1>3, <1>4, <1>5 DEF Traced

\* The attempts of the target that makes one: those before, and this.
LEMMA Attempted ==
  ASSUME Types, Types', TimesInv, NEW o \in Observations, NEW at \in booted .. clock,
         Submits(o, at), NEW k, k = o.key
  PROVE  /\ o.kind = "attempt" =>
              /\ Len(heard) + 1 \in AttemptsOf(k)'
              /\ \A j \in AttemptsOf(k)' : j = Len(heard) + 1 \/ j \in AttemptsOf(k)
         /\ o.kind # "attempt" => AttemptsOf(k)' = AttemptsOf(k)
<1> DEFINE n == Len(heard) + 1
<1>1. /\ since' = since /\ Len(heard') = n /\ heard'[n].key = k /\ heard'[n].kind = o.kind
      /\ Grown /\ n \in Nat /\ n > since
  BY Submitted, Heard
<1>2. n \in since' + 1 .. Len(heard')
  BY <1>1, Heard
<1>3. AttemptsOf(k) \subseteq AttemptsOf(k)'
  BY <1>1, StillHeard
<1>4. ASSUME NEW j \in AttemptsOf(k)', j # n
      PROVE  j \in AttemptsOf(k)
  <2>1. j \in since' + 1 .. Len(heard') /\ heard'[j].key = k /\ heard'[j].kind = "attempt"
    BY DEF AttemptsOf, EventsOf
  <2>2. j \in since + 1 .. Len(heard) /\ j \in 1 .. Len(heard)
    BY <1>1, <1>4, <2>1, Heard
  <2>3. heard'[j] = heard[j]
    BY <1>1, <2>2 DEF Grown
  <2> QED BY <2>1, <2>2, <2>3 DEF AttemptsOf, EventsOf
<1>5. ASSUME o.kind = "attempt"
      PROVE  n \in AttemptsOf(k)'
  BY <1>1, <1>2, <1>5 DEF AttemptsOf, EventsOf
<1>6. ASSUME o.kind # "attempt"
      PROVE  n \notin AttemptsOf(k)'
  BY <1>1, <1>6 DEF AttemptsOf, EventsOf
<1> QED BY <1>3, <1>4, <1>5, <1>6

\* The new attempt becomes its last sample, and may push out the first.
LEMMA TracedAppended ==
  ASSUME Types, Types', TimesInv, NEW o \in Observations, NEW at \in booted .. clock,
         Submits(o, at), NEW k, k = o.key, o.kind = "attempt",
         NEW s \in Seq(Nat), Len(s) <= MaxSamples, Traced(k, s),
         NEW t, t = Append(Latest(s), clock)
  PROVE  Traced(k, t)' /\ t \in Seq(Nat) /\ Len(t) \in 1 .. MaxSamples
<1> DEFINE n == Len(heard) + 1
<1>1. PICK c \in 0 .. Len(heard), f \in [1 .. Len(s) -> 1 .. Len(heard)] :
        SamplePlaces(k, s, f, c) /\ Dropped(k, s, c)
  BY DEF Traced
<1>2. /\ clock' = clock /\ Len(heard') = n /\ heard'[n].in = clock /\ Grown
      /\ n \in Nat /\ n \in 1 .. Len(heard') /\ Len(s) \in Nat /\ clock \in Nat
  BY Submitted, Heard
<1>3. /\ n \in AttemptsOf(k)'
      /\ \A j \in AttemptsOf(k)' : j = n \/ j \in AttemptsOf(k)
  BY Attempted
<1>4. /\ AttemptsOf(k) \subseteq AttemptsOf(k)'
      /\ \A j \in AttemptsOf(k) : heard'[j] = heard[j] /\ j \in Nat /\ j < n
  BY <1>2, StillHeard, Attempt, Heard DEF Grown
<1>5. MaxSamples \in Nat /\ MaxSamples >= 1 /\ Horizon \in Nat
  BY Constants
<1>6. \A i \in 1 .. Len(s) : f[i] \in AttemptsOf(k) /\ f[i] \in 1 .. Len(heard)
  BY <1>1 DEF SamplePlaces
<1> HIDE DEF n
<1>7. CASE Len(s) < MaxSamples
  <2>g. PICK g : g = [i \in 1 .. Len(s) + 1 |-> IF i = Len(s) + 1 THEN n ELSE f[i]]
    OBVIOUS
  <2>1. t = Append(s, clock)
    BY <1>7 DEF Latest
  <2>2. /\ t \in Seq(Nat) /\ Len(t) = Len(s) + 1 /\ t[Len(s) + 1] = clock
        /\ \A i \in 1 .. Len(s) : t[i] = s[i]
    BY <1>2, <2>1
  <2>3. \A i \in 1 .. Len(t) : i = Len(s) + 1 \/ i \in 1 .. Len(s)
    BY <1>2, <2>2
  <2>4. /\ \A i \in 1 .. Len(s) : g[i] = f[i] /\ g[i] < n
        /\ g[Len(s) + 1] = n
    BY <2>g, <1>2, <1>4, <1>6
  <2>5. g \in [1 .. Len(t) -> 1 .. Len(heard')]
    <3>1. 1 .. Len(heard) \subseteq 1 .. Len(heard')
      BY <1>2, Heard DEF n
    <3>2. \A i \in 1 .. Len(t) : g[i] \in 1 .. Len(heard')
      BY <1>2, <1>6, <2>3, <2>4, <3>1
    <3> QED BY <2>g, <2>2, <3>2
  <2>6. ASSUME NEW i \in 1 .. Len(t)
        PROVE  g[i] \in AttemptsOf(k)' /\ g[i] > c /\ t[i] = heard'[g[i]].in
    <3>1. CASE i = Len(s) + 1
      BY <1>2, <1>3, <2>2, <2>4, <3>1, Heard DEF n
    <3>2. CASE i \in 1 .. Len(s)
      <4>1. f[i] > c /\ s[i] = heard[f[i]].in
        BY <1>1, <3>2 DEF SamplePlaces
      <4> QED BY <1>4, <1>6, <2>2, <2>4, <3>2, <4>1
    <3> QED BY <2>3, <3>1, <3>2
  <2>7. ASSUME NEW i \in 1 .. Len(t), NEW j \in 1 .. Len(t), i < j
        PROVE  g[i] < g[j]
    <3>1. i \in 1 .. Len(s)
      BY <1>2, <2>2, <2>7
    <3>2. CASE j = Len(s) + 1
      BY <2>4, <3>1, <3>2
    <3>3. CASE j \in 1 .. Len(s)
      BY <1>1, <2>4, <2>7, <3>1, <3>3 DEF SamplePlaces
    <3> QED BY <2>3, <3>2, <3>3
  <2>8. ASSUME NEW j \in AttemptsOf(k)', j > c
        PROVE  \E i \in 1 .. Len(t) : g[i] = j
    <3>1. CASE j = n
      <4>1. Len(s) + 1 \in 1 .. Len(t)
        BY <1>2, <2>2
      <4> QED BY <2>4, <3>1, <4>1
    <3>2. CASE j \in AttemptsOf(k)
      <4>1. PICK i \in 1 .. Len(s) : f[i] = j
        BY <1>1, <2>8, <3>2 DEF SamplePlaces
      <4>2. i \in 1 .. Len(t)
        BY <1>2, <2>2
      <4> QED BY <2>4, <4>1, <4>2
    <3> QED BY <1>3, <3>1, <3>2
  <2>9. SamplePlaces(k, t, g, c)'
    BY <2>6, <2>7, <2>8 DEF SamplePlaces
  <2>10. Dropped(k, t, c)'
    <3>1. CASE \A j \in AttemptsOf(k) : j > c
      <4>1. n > c
        BY <1>2, Heard DEF n
      <4> QED BY <1>3, <3>1, <4>1 DEF Dropped
    <3>2. CASE c \in AttemptsOf(k) /\ heard[c].in < clock - Horizon
      BY <1>2, <1>4, <3>2 DEF Dropped
    <3>3. CASE c \in AttemptsOf(k) /\ Cardinality(Rivals(k, InUseSince(c))) >= Capacity
      <4>1. c \in 1 .. Len(heard)
        BY <3>3, Attempt
      <4>2. InUseSince(c) \subseteq InUseSince(c)'
        BY <1>2, <4>1, StillHeard
      <4>3. \A j \in InUseSince(c) : heard'[j] = heard[j]
        <5> TAKE j \in InUseSince(c)
        <5>1. j \in 1 .. Len(heard)
          BY Heard DEF InUseSince
        <5> QED BY <1>2, <5>1 DEF Grown
      <4>4. Rivals(k, InUseSince(c)) \subseteq Rivals(k, InUseSince(c))'
        BY <4>2, <4>3 DEF Rivals
      <4>5. IsFiniteSet(Rivals(k, InUseSince(c))')
        <5>1. heard' \in Seq(HeardEvents)
          BY DEF Types
        <5>2. InUseSince(c)' \subseteq DOMAIN heard'
          BY HeardNext DEF InUseSince
        <5>3. Rivals(k, InUseSince(c))' \subseteq {heard'[j].key : j \in DOMAIN heard'}
          BY <5>2 DEF Rivals
        <5> QED BY <5>1, <5>3, FewKeys
      <4>6. /\ Cardinality(Rivals(k, InUseSince(c))) \in Nat
            /\ Cardinality(Rivals(k, InUseSince(c))') \in Nat
            /\ Cardinality(Rivals(k, InUseSince(c))) <= Cardinality(Rivals(k, InUseSince(c))')
        BY <4>4, <4>5, Larger
      <4>7. Cardinality(Rivals(k, InUseSince(c))') >= Capacity
        BY <3>3, <4>6, Constants
      <4> QED BY <1>4, <3>3, <4>7 DEF Dropped
    <3> QED BY <1>1, <1>7, <3>1, <3>2, <3>3 DEF Dropped
  <2>11. c \in 0 .. Len(heard')
    BY <1>2, Heard DEF n
  <2>12. Len(t) \in 1 .. MaxSamples
    BY <1>2, <1>5, <1>7, <2>2
  <2> QED BY <2>2, <2>5, <2>9, <2>10, <2>11, <2>12 DEF Traced
<1>8. CASE ~(Len(s) < MaxSamples)
  <2>g. PICK g : g = [i \in 1 .. Len(s) |-> IF i = Len(s) THEN n ELSE f[i + 1]]
    OBVIOUS
  <2>1. t = Append(Tail(s), clock) /\ Len(s) = MaxSamples /\ Len(s) >= 1
    BY <1>2, <1>5, <1>8 DEF Latest
  <2>2. /\ Tail(s) \in Seq(Nat) /\ Len(Tail(s)) = Len(s) - 1
        /\ \A i \in 1 .. Len(s) - 1 : Tail(s)[i] = s[i + 1]
    <3>1. s # <<>>
      BY <2>1
    <3> QED BY <3>1, HeadTailProperties
  <2>3. /\ t \in Seq(Nat) /\ Len(t) = Len(s) /\ t[Len(s)] = clock
        /\ \A i \in 1 .. Len(s) - 1 : t[i] = s[i + 1]
    BY <1>2, <2>1, <2>2
  <2>4. /\ \A i \in 1 .. Len(s) : i = Len(s) \/ i \in 1 .. Len(s) - 1
        /\ \A i \in 1 .. Len(s) - 1 : i + 1 \in 1 .. Len(s) /\ i \in 1 .. Len(s) /\ i # Len(s)
    BY <1>2
  <2>5. /\ \A i \in 1 .. Len(s) - 1 : g[i] = f[i + 1] /\ g[i] < n /\ g[i] \in AttemptsOf(k)
        /\ g[Len(s)] = n
    <3>1. \A i \in 1 .. Len(s) - 1 : g[i] = f[i + 1]
      BY <2>g, <2>4
    <3>2. g[Len(s)] = n
      BY <2>g, <2>1, <1>2
    <3> QED BY <1>4, <1>6, <2>4, <3>1, <3>2
  <2>6. g \in [1 .. Len(t) -> 1 .. Len(heard')]
    <3>1. 1 .. Len(heard) \subseteq 1 .. Len(heard')
      BY <1>2, Heard DEF n
    <3>2. \A i \in 1 .. Len(s) : g[i] \in 1 .. Len(heard')
      BY <1>2, <1>6, <2>4, <2>5, <3>1
    <3> QED BY <2>g, <2>3, <3>2
  <2>7. f[1] \in AttemptsOf(k) /\ f[1] \in Nat /\ f[1] < n /\ 1 \in 1 .. Len(s)
    BY <1>2, <1>4, <1>6, <2>1
  <2>8. ASSUME NEW i \in 1 .. Len(s)
        PROVE  g[i] \in AttemptsOf(k)' /\ g[i] > f[1] /\ t[i] = heard'[g[i]].in
    <3>1. CASE i = Len(s)
      BY <1>2, <1>3, <2>3, <2>5, <2>7, <3>1
    <3>2. CASE i \in 1 .. Len(s) - 1
      <4>1. i + 1 \in 1 .. Len(s) /\ 1 < i + 1
        BY <2>4, <3>2
      <4>2. f[i + 1] > f[1] /\ s[i + 1] = heard[f[i + 1]].in
        BY <1>1, <1>4, <1>6, <2>7, <4>1 DEF SamplePlaces
      <4> QED BY <1>4, <2>3, <2>5, <3>2, <4>2
    <3> QED BY <2>4, <3>1, <3>2
  <2>9. ASSUME NEW i \in 1 .. Len(s), NEW j \in 1 .. Len(s), i < j
        PROVE  g[i] < g[j]
    <3>1. i \in 1 .. Len(s) - 1
      BY <1>2, <2>9
    <3>2. CASE j = Len(s)
      BY <2>5, <3>1, <3>2
    <3>3. CASE j \in 1 .. Len(s) - 1
      <4>1. i + 1 \in 1 .. Len(s) /\ j + 1 \in 1 .. Len(s) /\ i + 1 < j + 1
        BY <2>4, <2>9, <3>1, <3>3
      <4> QED BY <1>1, <2>5, <3>1, <3>3, <4>1 DEF SamplePlaces
    <3> QED BY <2>4, <3>2, <3>3
  <2>10. ASSUME NEW j \in AttemptsOf(k)', j > f[1]
         PROVE  \E i \in 1 .. Len(s) : g[i] = j
    <3>1. CASE j = n
      <4>1. Len(s) \in 1 .. Len(s)
        BY <1>2, <2>1
      <4> QED BY <2>5, <3>1, <4>1
    <3>2. CASE j \in AttemptsOf(k)
      <4>1. f[1] > c /\ j > c
        BY <1>1, <1>4, <2>7, <2>10, <3>2, Heard DEF SamplePlaces
      <4>2. PICK i \in 1 .. Len(s) : f[i] = j
        BY <1>1, <3>2, <4>1 DEF SamplePlaces
      <4>3. i # 1
        BY <1>4, <2>7, <2>10, <3>2, <4>2
      <4>4. i - 1 \in 1 .. Len(s) - 1 /\ (i - 1) + 1 = i
        BY <1>2, <4>3
      <4>5. g[i - 1] = j /\ i - 1 \in 1 .. Len(s)
        BY <2>4, <2>5, <4>2, <4>4
      <4> QED BY <4>5
    <3> QED BY <1>3, <3>1, <3>2
  <2>11. SamplePlaces(k, t, g, f[1])'
    <3>1. PICK d : d = f[1]
      OBVIOUS
    <3>2. SamplePlaces(k, t, g, d)'
      BY <2>3, <2>8, <2>9, <2>10, <3>1 DEF SamplePlaces
    <3> QED BY <3>1, <3>2
  <2>12. PICK d : d = f[1]
    OBVIOUS
  <2>13. Dropped(k, t, d)'
    BY <1>4, <2>1, <2>3, <2>7, <2>12 DEF Dropped
  <2>14. d \in 0 .. Len(heard')
    BY <1>2, <2>7, <2>12
  <2>15. Len(t) \in 1 .. MaxSamples
    BY <1>5, <2>1, <2>3
  <2> QED BY <2>3, <2>6, <2>11, <2>12, <2>13, <2>14, <2>15 DEF Traced
<1> QED BY <1>7, <1>8

\* A route that is evicted: Capacity others have been in use since its last sample.
LEMMA TracedEvicted ==
  ASSUME Types, Types', Grown, NEW k, NEW s \in Seq(Nat), Len(s) >= 1, Traced(k, s)',
         NEW T, T \subseteq Keys \ {k}, Cardinality(T) >= Capacity,
         \A p \in T : \E i \in since' + 1 .. Len(heard') :
           heard'[i].key = p /\ heard'[i].kind = "attempt" /\ heard'[i].in >= s[Len(s)]
  PROVE  Traced(k, <<>>)'
<1>1. PICK c \in 0 .. Len(heard'), f \in [1 .. Len(s) -> 1 .. Len(heard')] :
        SamplePlaces(k, s, f, c)'
  BY DEF Traced
<1>2. Len(s) \in 1 .. Len(s) /\ Len(s) \in Nat
  OBVIOUS
<1>3. PICK d : d = f[Len(s)]
  OBVIOUS
<1>4. d \in AttemptsOf(k)' /\ s[Len(s)] = heard'[d].in /\ d \in 1 .. Len(heard') /\ d > c
  BY <1>1, <1>2, <1>3 DEF SamplePlaces
<1>5. PICK g : g = [i \in 1 .. 0 |-> 1]
  OBVIOUS
<1>6. g \in [1 .. Len(<<>>) -> 1 .. Len(heard')] /\ d \in 0 .. Len(heard')
  BY <1>4, <1>5, HeardNext
<1>7. ASSUME NEW j \in AttemptsOf(k)', j > d
      PROVE  FALSE
  <2>1. j \in Nat
    BY HeardNext DEF AttemptsOf, EventsOf
  <2>2. PICK i \in 1 .. Len(s) : f[i] = j
    BY <1>1, <1>4, <1>7, <2>1 DEF SamplePlaces
  <2>3. i = Len(s) \/ i < Len(s)
    BY <1>2
  <2>4. CASE i = Len(s)
    BY <1>3, <1>4, <1>7, <2>1, <2>2, <2>4
  <2>5. CASE i < Len(s)
    <3>1. f[i] < f[Len(s)]
      BY <1>1, <1>2, <2>5 DEF SamplePlaces
    <3> QED BY <1>3, <1>4, <1>7, <2>1, <2>2, <3>1
  <2> QED BY <2>3, <2>4, <2>5
<1>8. SamplePlaces(k, <<>>, g, d)'
  BY <1>5, <1>7 DEF SamplePlaces
<1>9. T \subseteq Rivals(k, InUseSince(d))'
  <2>1. ASSUME NEW p \in T
        PROVE  p \in Rivals(k, InUseSince(d))'
    <3>1. PICK i \in since' + 1 .. Len(heard') :
            heard'[i].key = p /\ heard'[i].kind = "attempt" /\ heard'[i].in >= s[Len(s)]
      OBVIOUS
    <3>2. i \in InUseSince(d)'
      BY <1>4, <3>1 DEF InUseSince
    <3> QED BY <3>1, <3>2 DEF Rivals
  <2> QED BY <2>1
<1>10. IsFiniteSet(Rivals(k, InUseSince(d))')
  <2>1. heard' \in Seq(HeardEvents)
    BY DEF Types
  <2>2. InUseSince(d)' \subseteq DOMAIN heard'
    BY HeardNext DEF InUseSince
  <2>3. Rivals(k, InUseSince(d))' \subseteq {heard'[j].key : j \in DOMAIN heard'}
    BY <2>2 DEF Rivals
  <2> QED BY <2>1, <2>3, FewKeys
<1>11. Cardinality(Rivals(k, InUseSince(d))') >= Capacity
  <2>1. /\ Cardinality(T) \in Nat /\ Cardinality(Rivals(k, InUseSince(d))') \in Nat
        /\ Cardinality(T) <= Cardinality(Rivals(k, InUseSince(d))')
    BY <1>9, <1>10, Larger
  <2> QED BY <2>1, Constants
<1>12. Dropped(k, <<>>, d)'
  BY <1>4, <1>11 DEF Dropped
<1> QED BY <1>6, <1>8, <1>12 DEF Traced

\* The last sample of a route in use is that of its latest attempt.
LEMMA LastSample ==
  ASSUME Types, NEW k, NEW s \in Seq(Nat), Len(s) >= 1, Traced(k, s)
  PROVE  \E j \in AttemptsOf(k) : s[Len(s)] = heard[j].in
<1>1. PICK c \in 0 .. Len(heard), f \in [1 .. Len(s) -> 1 .. Len(heard)] : SamplePlaces(k, s, f, c)
  BY DEF Traced
<1>2. Len(s) \in 1 .. Len(s)
  OBVIOUS
<1> QED BY <1>1, <1>2 DEF SamplePlaces

AllTraced(rs) == \A k \in Keys : Traced(k, SamplesIn(rs, k))

\* Pruning, of one route or of all, leaves routes that are traced.
LEMMA RoutesPruned ==
  ASSUME Types, NEW rs, NEW which, IsRoutes(rs)
  PROVE  LET r == PruneRoutes(rs, which) IN
         /\ IsRoutes(r) /\ DOMAIN r \subseteq DOMAIN rs
         /\ Cardinality(DOMAIN r) <= Cardinality(DOMAIN rs)
         /\ AllTraced(rs) => AllTraced(r)
<1> DEFINE kept == [k \in DOMAIN rs |-> IF k \in which THEN Recent(rs[k]) ELSE rs[k]]
           gone == {k \in DOMAIN kept : kept[k] = <<>>}
           r == PruneRoutes(rs, which)
<1>1. \A k \in DOMAIN rs : rs[k] \in Seq(Nat) /\ Len(rs[k]) \in 1 .. MaxSamples
  BY DEF IsRoutes
<1>2. r = Without(kept, gone)
  BY DEF PruneRoutes
<1>3. DOMAIN r = DOMAIN rs \ gone /\ \A k \in DOMAIN r : r[k] = kept[k]
  BY <1>2 DEF Without, Restrict
<1>4. ASSUME NEW k \in DOMAIN rs
      PROVE  kept[k] \in Seq(Nat) /\ Len(kept[k]) \in 0 .. MaxSamples
  <2>1. CASE k \in which
    <3>1. /\ Recent(rs[k]) \in Seq(Nat) /\ Cardinality(Stale(rs[k])) \in 0 .. Len(rs[k])
          /\ Len(Recent(rs[k])) = Len(rs[k]) - Cardinality(Stale(rs[k]))
      BY <1>1, HeadCut
    <3> QED BY <1>1, <2>1, <3>1, Constants
  <2>2. CASE k \notin which
    BY <1>1, <2>2, Constants
  <2> QED BY <2>1, <2>2
<1>5. DOMAIN r \subseteq DOMAIN rs
  BY <1>3
<1>6. IsRoutes(r) /\ Cardinality(DOMAIN r) <= Cardinality(DOMAIN rs)
  <2>1. IsFiniteSet(DOMAIN rs) /\ DOMAIN rs \subseteq Keys
    BY DEF IsRoutes
  <2>2. IsFiniteSet(DOMAIN r) /\ Cardinality(DOMAIN r) <= Cardinality(DOMAIN rs)
    BY <1>5, <2>1, Larger
  <2>3. ASSUME NEW k \in DOMAIN r
        PROVE  r[k] \in Seq(Nat) /\ Len(r[k]) \in 1 .. MaxSamples
    <3>1. k \in DOMAIN rs /\ r[k] = kept[k] /\ kept[k] # <<>>
      BY <1>3
    <3>2. kept[k] \in Seq(Nat) /\ Len(kept[k]) \in 0 .. MaxSamples
      BY <1>4, <3>1
    <3>3. Len(kept[k]) # 0
      BY <3>1, <3>2, EmptySeq
    <3> QED BY <3>1, <3>2, <3>3, Constants
  <2> QED BY <1>5, <2>1, <2>2, <2>3 DEF IsRoutes
<1>7. ASSUME AllTraced(rs)
      PROVE  AllTraced(r)
  <2>1. ASSUME NEW k \in Keys
        PROVE  Traced(k, SamplesIn(r, k))
    <3>1. Traced(k, SamplesIn(rs, k))
      BY <1>7 DEF AllTraced
    <3>2. CASE k \in DOMAIN rs
      <4>1. Traced(k, rs[k])
        BY <3>1, <3>2 DEF SamplesIn
      <4>2. Traced(k, kept[k])
        <5>1. CASE k \in which
          BY <1>1, <3>2, <4>1, <5>1, TracedCut
        <5>2. CASE k \notin which
          BY <3>2, <4>1, <5>2
        <5> QED BY <5>1, <5>2
      <4>3. SamplesIn(r, k) = kept[k]
        BY <1>3, <3>2 DEF SamplesIn
      <4> QED BY <4>2, <4>3
    <3>3. CASE k \notin DOMAIN rs
      <4>1. SamplesIn(r, k) = SamplesIn(rs, k)
        BY <1>5, <3>3 DEF SamplesIn
      <4> QED BY <3>1, <4>1
    <3> QED BY <3>2, <3>3
  <2> QED BY <2>1 DEF AllTraced
<1> QED BY <1>5, <1>6, <1>7

LEMMA OldestRouteEvicted ==
  ASSUME NEW rs, IsRoutes(rs), DOMAIN rs # {}
  PROVE  /\ EvictOldestRoute(rs) \in DOMAIN rs
         /\ \A j \in DOMAIN rs : Last(rs[EvictOldestRoute(rs)]) <= Last(rs[j])
<1> DEFINE v == [k \in DOMAIN rs |-> Last(rs[k])]
<1>1. \A k \in DOMAIN rs : v[k] \in Nat /\ k \in Nat
  <2> TAKE k \in DOMAIN rs
  <2>1. rs[k] \in Seq(Nat) /\ Len(rs[k]) \in 1 .. Len(rs[k])
    BY Constants DEF IsRoutes
  <2>2. k \in Nat
    BY Constants DEF IsRoutes
  <2> QED BY <2>1, <2>2 DEF Last
<1>2. DOMAIN rs \in SUBSET Nat
  BY <1>1
<1>3. \E c \in DOMAIN rs : \A j \in DOMAIN rs \ {c} : v[c] < v[j] \/ (v[c] = v[j] /\ c < j)
  <2> HIDE DEF v
  <2> QED BY <1>1, <1>2, First
<1>4. \E c \in DOMAIN rs : \A j \in DOMAIN rs \ {c} :
        Last(rs[c]) < Last(rs[j]) \/ (Last(rs[c]) = Last(rs[j]) /\ c < j)
  BY <1>3
<1>5. /\ EvictOldestRoute(rs) \in DOMAIN rs
      /\ \A j \in DOMAIN rs \ {EvictOldestRoute(rs)} :
           \/ Last(rs[EvictOldestRoute(rs)]) < Last(rs[j])
           \/ Last(rs[EvictOldestRoute(rs)]) = Last(rs[j])
  BY <1>4 DEF EvictOldestRoute
<1>6. \A k \in DOMAIN rs : Last(rs[k]) \in Nat
  BY <1>1
<1> QED BY <1>5, <1>6

\* Room for the route of an attempt: nothing becomes untraced, whoever must go.
LEMMA RouteRoom ==
  ASSUME Types, Types', TimesInv, NEW o \in Observations, NEW at \in booted .. clock,
         Submits(o, at), o.kind = "attempt", NEW k, k = o.key,
         NEW rs, IsRoutes(rs), Cardinality(DOMAIN rs) <= Capacity, AllTraced(rs),
         NEW room, room = RoomForRoute(rs, k)
  PROVE  /\ IsRoutes(room) /\ Cardinality(DOMAIN room \cup {k}) <= Capacity
         /\ Traced(k, SamplesIn(room, k))
         /\ \A p \in Keys : \A s : p # k /\ s = SamplesIn(room, p) => Traced(p, s)'
<1> DEFINE live == PruneRoutes(rs, DOMAIN rs)
           n == Len(heard) + 1
<1>1. /\ IsRoutes(live) /\ DOMAIN live \subseteq DOMAIN rs
      /\ Cardinality(DOMAIN live) <= Cardinality(DOMAIN rs) /\ AllTraced(live)
  BY RoutesPruned
<1>2. /\ clock' = clock /\ since' = since /\ Len(heard') = n /\ heard'[n].key = k
      /\ heard'[n].kind = "attempt" /\ heard'[n].in = clock /\ Grown /\ TimesInv'
      /\ \A p : p # k => Silent(p)
  BY Submitted
<1>3. k \in Keys /\ Capacity \in Nat /\ clock <= clock' /\ clock \in Nat
  BY <1>2, Constants, Heard
<1>4. IsFiniteSet(DOMAIN rs) /\ Cardinality(DOMAIN rs) \in Nat
      /\ IsFiniteSet(DOMAIN live) /\ Cardinality(DOMAIN live) \in Nat
  BY <1>1, FS_CardinalityType DEF IsRoutes
<1>5. ASSUME NEW p \in Keys, p # k, NEW s, Traced(p, s)
      PROVE  Traced(p, s)'
  <2>1. AttemptsOf(p)' = AttemptsOf(p)
    BY <1>2, <1>5, StillSilent
  <2> QED BY <1>2, <1>3, <1>5, <2>1, TracedStays
<1> HIDE DEF live, n
<1>6. CASE k \in DOMAIN rs \/ Cardinality(DOMAIN rs) < Capacity
  <2>1. room = rs
    BY <1>6 DEF RoomForRoute
  <2>2. Cardinality(DOMAIN rs \cup {k}) <= Capacity
    <3>1. Cardinality(DOMAIN rs \cup {k}) =
            IF k \in DOMAIN rs THEN Cardinality(DOMAIN rs) ELSE Cardinality(DOMAIN rs) + 1
      BY <1>4, FS_AddElement
    <3> QED BY <1>3, <1>4, <1>6, <3>1
  <2> QED BY <1>3, <1>5, <2>1, <2>2 DEF AllTraced
<1>7. CASE k \notin DOMAIN rs /\ ~(Cardinality(DOMAIN rs) < Capacity) /\ Cardinality(DOMAIN live) < Capacity
  <2>1. room = live
    BY <1>7 DEF RoomForRoute, live
  <2>2. Cardinality(DOMAIN live \cup {k}) <= Capacity
    <3>1. Cardinality(DOMAIN live \cup {k}) =
            IF k \in DOMAIN live THEN Cardinality(DOMAIN live) ELSE Cardinality(DOMAIN live) + 1
      BY <1>4, FS_AddElement
    <3> QED BY <1>3, <1>4, <1>7, <3>1
  <2> QED BY <1>1, <1>3, <1>5, <2>1, <2>2 DEF AllTraced
<1>8. CASE k \notin DOMAIN rs /\ ~(Cardinality(DOMAIN rs) < Capacity) /\ ~(Cardinality(DOMAIN live) < Capacity)
  <2>v. PICK v : v = EvictOldestRoute(live)
    OBVIOUS
  <2>1. room = Without(live, {v})
    BY <2>v, <1>8 DEF RoomForRoute, live
  <2>2. DOMAIN live # {}
    <3>1. Cardinality({}) = 0
      BY FS_EmptySet
    <3> QED BY <1>8, <3>1, Constants
  <2>3. /\ v \in DOMAIN live /\ v \in Keys
        /\ \A j \in DOMAIN live : Last(live[v]) <= Last(live[j])
    BY <2>v, <1>1, <2>2, OldestRouteEvicted DEF IsRoutes
  <2>4. DOMAIN room = DOMAIN live \ {v} /\ \A p \in DOMAIN room : room[p] = live[p]
    BY <2>1 DEF Without, Restrict
  <2>5. /\ IsFiniteSet(DOMAIN room) /\ Cardinality(DOMAIN room) = Cardinality(DOMAIN live) - 1
    BY <1>4, <2>3, <2>4, FS_RemoveElement
  <2>6. k \notin DOMAIN live /\ k \notin DOMAIN room /\ k # v
    BY <1>1, <1>8, <2>3, <2>4
  <2>7. Cardinality(DOMAIN room \cup {k}) = Cardinality(DOMAIN live)
    <3>1. Cardinality(DOMAIN room \cup {k}) = Cardinality(DOMAIN room) + 1
      BY <2>5, <2>6, FS_AddElement
    <3> QED BY <1>4, <2>5, <3>1
  <2>8. Cardinality(DOMAIN room \cup {k}) <= Capacity
    BY <1>1, <1>3, <1>4, <2>7
  <2>9. IsRoutes(room)
    BY <1>1, <2>4, <2>5 DEF IsRoutes
  <2>10. Traced(k, SamplesIn(room, k))
    BY <1>1, <1>3, <2>6 DEF AllTraced, SamplesIn
  <2>11. ASSUME NEW p \in DOMAIN live
         PROVE  /\ live[p] \in Seq(Nat) /\ Len(live[p]) >= 1 /\ Traced(p, live[p]) /\ p \in Keys
                /\ \E j \in AttemptsOf(p) : Last(live[p]) = heard[j].in
    <3>1. live[p] \in Seq(Nat) /\ Len(live[p]) >= 1 /\ p \in Keys
      BY <1>1, Constants DEF IsRoutes
    <3>2. Traced(p, live[p])
      BY <1>1, <3>1 DEF AllTraced, SamplesIn
    <3>3. \E j \in AttemptsOf(p) : Last(live[p]) = heard[j].in
      BY <3>1, <3>2, LastSample DEF Last
    <3> QED BY <3>1, <3>2, <3>3
  <2>12. PICK s : s = live[v]
    OBVIOUS
  <2>13. s \in Seq(Nat) /\ Len(s) >= 1 /\ Last(live[v]) = s[Len(s)]
    BY <2>3, <2>11, <2>12 DEF Last
  <2>14. Traced(v, s)'
    BY <1>5, <2>3, <2>6, <2>11, <2>12
  <2> DEFINE T == DOMAIN room \cup {k}
  <2>15. T \subseteq Keys \ {v} /\ Cardinality(T) >= Capacity
    BY <1>3, <1>4, <1>8, <2>4, <2>6, <2>7, <2>9 DEF IsRoutes
  <2>16. s[Len(s)] \in Nat /\ s[Len(s)] <= clock
    <3>1. PICK j \in AttemptsOf(v) : s[Len(s)] = heard[j].in
      BY <2>3, <2>11, <2>13
    <3>2. j \in DOMAIN heard /\ heard[j].in \in Nat
      BY Attempt, Heard
    <3> QED BY <3>1, <3>2 DEF TimesInv
  <2>17. ASSUME NEW p \in T
         PROVE  \E i \in since' + 1 .. Len(heard') :
                  heard'[i].key = p /\ heard'[i].kind = "attempt" /\ heard'[i].in >= s[Len(s)]
    <3>1. CASE p = k
      <4>1. n \in since' + 1 .. Len(heard')
        BY <1>2, Heard, HeardNext DEF n
      <4> QED BY <1>2, <1>3, <2>16, <3>1, <4>1
    <3>2. CASE p \in DOMAIN room
      <4>1. p \in DOMAIN live /\ s[Len(s)] <= Last(live[p])
        BY <2>3, <2>4, <2>13, <3>2
      <4>2. PICK j \in AttemptsOf(p) : Last(live[p]) = heard[j].in
        BY <2>11, <4>1
      <4>3. j \in 1 .. Len(heard) /\ j > since /\ heard[j].in \in Nat
            /\ heard[j].key = p /\ heard[j].kind = "attempt"
        BY Attempt
      <4>4. heard'[j] = heard[j] /\ j \in since' + 1 .. Len(heard')
        BY <1>2, <4>3, Heard, HeardNext DEF Grown
      <4>5. heard[j].in >= s[Len(s)]
        BY <2>16, <4>1, <4>2, <4>3
      <4> QED BY <4>3, <4>4, <4>5
    <3> QED BY <3>1, <3>2
  <2>18. Traced(v, <<>>)'
    <3> HIDE DEF T
    <3> QED BY <1>2, <2>13, <2>14, <2>15, <2>17, TracedEvicted
  <2>19. ASSUME NEW p \in Keys, p # k, NEW q, q = SamplesIn(room, p)
         PROVE  Traced(p, q)'
    <3>1. CASE p = v
      <4>1. q = <<>>
        BY <2>4, <2>19, <3>1 DEF SamplesIn
      <4> QED BY <2>18, <3>1, <4>1
    <3>2. CASE p # v
      <4>1. q = SamplesIn(live, p)
        BY <2>4, <2>19, <3>2 DEF SamplesIn
      <4>2. Traced(p, q)
        BY <1>1, <4>1 DEF AllTraced
      <4> QED BY <1>5, <2>19, <4>2
    <3> QED BY <3>1, <3>2
  <2> QED BY <2>8, <2>9, <2>10, <2>19
<1> QED BY <1>6, <1>7, <1>8

LEMMA RoutesEmit ==
  ASSUME Types, Types', TimesInv, RoutesInv, phase # "down", phase' = phase,
         NEW o \in Observations, NEW at \in booted .. clock, Submits(o, at),
         routes' = IF o.kind = "attempt" THEN AppendRoute(routes, o.key) ELSE routes
  PROVE  RoutesInv'
<1>1. IsRoutes(routes) /\ Cardinality(DOMAIN routes) <= Capacity /\ AllTraced(routes)
  BY DEF RoutesInv, AllTraced
<1>2. PICK k : k = o.key
  OBVIOUS
<1>3. clock' = clock /\ Grown /\ TimesInv' /\ \A p : p # k => Silent(p)
  BY <1>2, Submitted
<1>4. k \in Keys /\ Capacity \in Nat /\ MaxSamples \in Nat /\ clock <= clock'
  BY <1>2, <1>3, Constants, Heard
<1>5. CASE o.kind = "attempt"
  <2>1. PICK rs : rs = PruneRoutes(routes, {k})
    OBVIOUS
  <2>2. IsFiniteSet(DOMAIN routes) /\ Cardinality(DOMAIN routes) \in Nat
    BY <1>1, FS_CardinalityType DEF IsRoutes
  <2>3. /\ IsRoutes(rs) /\ AllTraced(rs) /\ DOMAIN rs \subseteq DOMAIN routes
        /\ Cardinality(DOMAIN rs) <= Cardinality(DOMAIN routes)
    BY <1>1, <2>1, RoutesPruned
  <2>4. Cardinality(DOMAIN rs) <= Capacity
    <3>1. Cardinality(DOMAIN rs) \in Nat
      BY <2>2, <2>3, Larger
    <3> QED BY <1>1, <1>4, <2>2, <2>3, <3>1
  <2>5. PICK room : room = RoomForRoute(rs, k)
    OBVIOUS
  <2>6. /\ IsRoutes(room) /\ Cardinality(DOMAIN room \cup {k}) <= Capacity
        /\ Traced(k, SamplesIn(room, k))
        /\ \A p \in Keys : \A s : p # k /\ s = SamplesIn(room, p) => Traced(p, s)'
    BY <1>2, <1>5, <2>3, <2>4, <2>5, RouteRoom
  <2>7. PICK s : s = SamplesIn(room, k)
    OBVIOUS
  <2>8. s \in Seq(Nat) /\ Len(s) <= MaxSamples
    BY <1>4, <2>6, <2>7 DEF IsRoutes, SamplesIn
  <2>9. PICK t : t = Append(Latest(s), clock)
    OBVIOUS
  <2>10. Traced(k, t)' /\ t \in Seq(Nat) /\ Len(t) \in 1 .. MaxSamples
    BY <1>2, <1>5, <2>6, <2>7, <2>8, <2>9, TracedAppended
  <2>11. routes' = With(room, k, t)
    BY <1>2, <1>5, <2>1, <2>5, <2>7, <2>9 DEF AppendRoute, SamplesIn
  <2>12. /\ DOMAIN routes' = DOMAIN room \cup {k} /\ routes'[k] = t
         /\ \A p \in DOMAIN room : p # k => routes'[p] = room[p]
    BY <2>11 DEF With
  <2>13. IsFiniteSet(DOMAIN routes')
    BY <2>6, <2>12, FS_AddElement DEF IsRoutes
  <2>14. IsRoutes(routes')
    BY <1>4, <2>6, <2>10, <2>12, <2>13 DEF IsRoutes
  <2>15. ASSUME NEW p \in Keys
         PROVE  Traced(p, SamplesIn(routes, p))'
    <3>1. PICK q : q = SamplesIn(routes', p)
      OBVIOUS
    <3>2. CASE p = k
      <4>1. q = t
        BY <2>12, <3>1, <3>2 DEF SamplesIn
      <4>2. Traced(p, q)'
        BY <2>10, <3>2, <4>1
      <4> QED BY <3>1, <4>2
    <3>3. CASE p # k
      <4>1. q = SamplesIn(room, p)
        BY <2>12, <3>1, <3>3 DEF SamplesIn
      <4>2. Traced(p, q)'
        BY <2>6, <3>3, <4>1
      <4> QED BY <3>1, <4>2
    <3> QED BY <3>2, <3>3
  <2> QED BY <2>6, <2>12, <2>14, <2>15 DEF RoutesInv
<1>6. CASE o.kind # "attempt"
  <2>1. routes' = routes
    BY <1>6
  <2>2. ASSUME NEW p \in Keys
        PROVE  Traced(p, SamplesIn(routes, p))'
    <3>1. PICK q : q = SamplesIn(routes, p)
      OBVIOUS
    <3>2. Traced(p, q)
      BY <1>1, <3>1 DEF AllTraced
    <3>3. AttemptsOf(p)' = AttemptsOf(p)
      BY <1>2, <1>3, <1>6, StillSilent, Attempted
    <3>4. Traced(p, q)'
      BY <1>3, <1>4, <3>2, <3>3, TracedStays
    <3>5. q = SamplesIn(routes', p)
      BY <2>1, <3>1
    <3> QED BY <3>4, <3>5
  <2> QED BY <1>1, <2>1, <2>2 DEF RoutesInv
<1> QED BY <1>5, <1>6

LEMMA RoutesQuiet ==
  ASSUME Types, Types', TimesInv, TimesInv', RoutesInv, phase # "down", phase' # "down",
         heard' = heard, since' = since, clock <= clock',
         NEW which, routes' = routes \/ routes' = PruneRoutes(routes, which)
  PROVE  RoutesInv'
<1>1. IsRoutes(routes) /\ Cardinality(DOMAIN routes) <= Capacity /\ AllTraced(routes)
  BY DEF RoutesInv, AllTraced
<1>2. IsFiniteSet(DOMAIN routes) /\ Cardinality(DOMAIN routes) \in Nat /\ Capacity \in Nat
  BY <1>1, FS_CardinalityType, Constants DEF IsRoutes
<1>3. PICK rs : rs = routes'
  OBVIOUS
<1>4. /\ IsRoutes(rs) /\ AllTraced(rs) /\ DOMAIN rs \subseteq DOMAIN routes
      /\ Cardinality(DOMAIN rs) <= Cardinality(DOMAIN routes)
  BY <1>1, <1>2, <1>3, RoutesPruned
<1>5. Cardinality(DOMAIN rs) <= Capacity
  <2>1. Cardinality(DOMAIN rs) \in Nat
    BY <1>2, <1>4, Larger
  <2> QED BY <1>1, <1>2, <1>4, <2>1
<1>6. Grown /\ \A k : Silent(k)
  BY Heard DEF Grown, Silent
<1>7. ASSUME NEW p \in Keys
      PROVE  Traced(p, SamplesIn(routes, p))'
  <2>1. PICK q : q = SamplesIn(rs, p)
    OBVIOUS
  <2>2. Traced(p, q)
    BY <1>4, <2>1 DEF AllTraced
  <2>3. AttemptsOf(p)' = AttemptsOf(p)
    BY <1>6, StillSilent
  <2>4. Traced(p, q)'
    BY <1>6, <2>2, <2>3, TracedStays
  <2>5. q = SamplesIn(routes', p)
    BY <1>3, <2>1
  <2> QED BY <2>4, <2>5
<1> QED BY <1>3, <1>4, <1>5, <1>7 DEF RoutesInv

\* A process that starts has no routes and has heard of no attempt.
LEMMA RoutesStart ==
  ASSUME Types, Types', RoutesInv, phase = "down", phase' # "down",
         heard' = heard, since' = Len(heard), routes' = routes
  PROVE  RoutesInv'
<1>1. IsRoutes(routes) /\ Cardinality(DOMAIN routes) <= Capacity /\ DOMAIN routes = {}
  BY DEF RoutesInv
<1>2. ASSUME NEW p \in Keys
      PROVE  Traced(p, SamplesIn(routes, p))'
  <2>1. AttemptsOf(p)' = {}
    BY Heard DEF AttemptsOf, EventsOf
  <2>2. SamplesIn(routes', p) = <<>>
    BY <1>1 DEF SamplesIn
  <2>3. PICK g : g = [i \in 1 .. 0 |-> 1]
    OBVIOUS
  <2>4. g \in [1 .. Len(<<>>) -> 1 .. Len(heard')] /\ 0 \in 0 .. Len(heard')
    BY <2>3, HeardNext
  <2>5. SamplePlaces(p, <<>>, g, 0)' /\ Dropped(p, <<>>, 0)'
    BY <2>1, <2>3 DEF SamplePlaces, Dropped
  <2>6. Traced(p, <<>>)'
    BY <2>4, <2>5 DEF Traced
  <2> QED BY <2>2, <2>6
<1> QED BY <1>1, <1>2 DEF RoutesInv

---------------------------------------------------------------------------
(* The steps.                                                              *)

\* An event; a step of a process that is up and goes on without one; and the
\* steps into, and in, the time in which no process is up.
Reports(o, at) ==
  /\ Submits(o, at) /\ phase # "down" /\ phase' = phase
  /\ routes' = IF o.kind = "attempt" THEN AppendRoute(routes, o.key) ELSE routes
  /\ owed' = StillOwed(entries')
  /\ UNCHANGED <<rows, summary, flusher, running>>
WorkGoesOn ==
  /\ phase # "down" /\ phase' # "down"
  /\ heard' = heard /\ since' = since /\ booted' = booted /\ clock' \in clock .. MaxClock
  /\ entries' = entries \/ (entries' = PruneLocked(entries) /\ clock' = clock)
  /\ \E which : routes' = routes \/ routes' = PruneRoutes(routes, which)
IsDown ==
  /\ phase' = "down" /\ heard' = heard /\ since' = since /\ booted' = booted
  /\ clock' \in clock .. MaxClock
  /\ entries' \in {entries, Nothing} /\ DOMAIN routes' = {}

LEMMA Steps ==
  ASSUME Types, Orderly, RoutesInv, [MetricNext]_metricVars
  PROVE  \/ \E o \in Observations, at \in booted .. clock : Reports(o, at)
         \/ WorkGoesOn \/ IsDown \/ Startup
<1>1. clock \in 0 .. MaxClock /\ MaxClock \in Nat /\ clock \in Nat
  BY Constants, Heard DEF Types
<1>2. clock \in clock .. MaxClock
  BY <1>1
<1>3. ASSUME NEW o \in Observations, NEW at \in booted .. clock, Emit(o, at)
      PROVE  Reports(o, at)
  BY <1>3 DEF Emit, Reports, Submits, Note, boot
<1>4. ASSUME NEW o \in Observations, Diagnose(o.key)
      PROVE  WorkGoesOn
  BY <1>2, <1>4 DEF Diagnose, WorkGoesOn, CurrentSnapshot, CurrentRouteSnapshots, boot
<1>5. CASE TimePasses
  <2>1. clock' \in clock .. MaxClock
    BY <1>1, <1>5 DEF TimePasses
  <2>2. CASE phase = "down"
    <3>1. DOMAIN routes' = {}
      BY <1>5, <2>2 DEF TimePasses, RoutesInv, registry
    <3> QED BY <1>5, <2>1, <2>2, <3>1 DEF TimePasses, IsDown, boot, registry, history
  <2>3. CASE phase # "down"
    BY <1>5, <2>1, <2>3 DEF TimePasses, WorkGoesOn, boot, registry, history
  <2> QED BY <2>2, <2>3
<1>6. CASE TickerFlush
  BY <1>2, <1>6 DEF TickerFlush, Snapshot, WorkGoesOn, boot
<1>7. CASE TickerFlushed
  <2>1. phase # "down"
    BY <1>7 DEF TickerFlushed, Flushed, Orderly
  <2> QED BY <1>2, <1>7, <2>1 DEF TickerFlushed, Flushed, WorkGoesOn, boot, registry
<1>8. CASE ShutdownBegins
  BY <1>2, <1>8 DEF ShutdownBegins, WorkGoesOn, boot, registry
<1>9. CASE RunReturns
  BY <1>2, <1>9 DEF RunReturns, WorkGoesOn, boot, registry, history
<1>10. CASE LastSnapshot
  BY <1>2, <1>10 DEF LastSnapshot, Snapshot, WorkGoesOn, boot
<1>11. CASE LastFlushed
  <2>1. phase # "down"
    BY <1>11 DEF LastFlushed, Flushed, Orderly
  <2> QED BY <1>2, <1>11, <2>1 DEF LastFlushed, Flushed, WorkGoesOn, boot, registry
<1>12. DOMAIN Nothing = {}
  BY PartsOfOne
<1>13. CASE ShutdownEnds
  BY <1>2, <1>12, <1>13 DEF ShutdownEnds, Gone, IsDown, boot, history
<1>14. CASE Crash
  BY <1>2, <1>12, <1>14 DEF Crash, Gone, IsDown, boot
<1>15. CASE UNCHANGED metricVars
  <2>1. CASE phase = "down"
    <3>1. DOMAIN routes' = {}
      BY <1>15, <2>1 DEF metricVars, RoutesInv
    <3> QED BY <1>2, <1>15, <2>1, <3>1 DEF metricVars, IsDown
  <2>2. CASE phase # "down"
    BY <1>2, <1>15, <2>2 DEF metricVars, WorkGoesOn
  <2> QED BY <2>1, <2>2
<1> QED BY <1>3, <1>4, <1>5, <1>6, <1>7, <1>8, <1>9, <1>10, <1>11, <1>13, <1>14, <1>15 DEF MetricNext

\* What becomes of the rows, of the snapshot, and of the flags.
LEMMA Flags ==
  ASSUME Types, Orderly, [MetricNext]_metricVars
  PROVE  /\ rows' \in {rows, Upsert(rows, summary), Restrict(rows, ActiveRows)}
         /\ summary' \in {summary, Nothing, Summaries(PruneLocked(entries))}
         /\ phase' \in {"up", "stopping", "draining", "down"}
         /\ flusher' \in {"", "run", "stop"} /\ running' \in BOOLEAN
<1> USE DEF Types
<1>1. ASSUME NEW o \in Observations, NEW at \in booted .. clock, Emit(o, at)
      PROVE  UNCHANGED <<rows, summary, phase, flusher, running>>
  BY <1>1 DEF Emit
<1>2. ASSUME NEW o \in Observations, Diagnose(o.key)
      PROVE  UNCHANGED <<rows, summary, phase, flusher, running>>
  BY <1>2 DEF Diagnose
<1>3. CASE TimePasses \/ RunReturns \/ ShutdownBegins
  BY <1>3 DEF TimePasses, RunReturns, ShutdownBegins
<1>4. CASE TickerFlush \/ LastSnapshot
  BY <1>4 DEF TickerFlush, LastSnapshot, Snapshot
<1>5. CASE TickerFlushed \/ LastFlushed
  BY <1>5 DEF TickerFlushed, LastFlushed, Flushed, Write
<1>6. CASE ShutdownEnds \/ Crash
  BY <1>6 DEF ShutdownEnds, Crash, Gone
<1>7. CASE Startup
  BY <1>7 DEF Startup
<1>8. CASE UNCHANGED metricVars
  BY <1>8 DEF metricVars
<1> QED BY <1>1, <1>2, <1>3, <1>4, <1>5, <1>6, <1>7, <1>8 DEF MetricNext

\* Whom the rows are about has been heard of: they are few, and may be restored.
LEMMA Starting ==
  ASSUME Types, Sources, Startup
  PROVE  /\ PartOf(entries', rows) /\ IsFiniteSet(DOMAIN entries')
         /\ Cardinality(DOMAIN entries') <= Capacity
<1>1. PICK kept \in Restored(ActiveRows) :
        Cardinality(kept) <= Capacity /\ entries' = Restrict(rows, kept)
  BY DEF Startup
<1>2. kept \subseteq ActiveRows /\ ActiveRows \subseteq DOMAIN rows
  BY DEF Restored, ActiveRows
<1>3. DOMAIN entries' = kept /\ PartOf(entries', rows)
  BY <1>1, <1>2, PartsOfOne DEF Restrict
<1>4. heard \in Seq(HeardEvents)
  BY DEF Types
<1>5. ASSUME NEW k \in kept
      PROVE  k \in {heard[j].key : j \in DOMAIN heard}
  BY <1>2 DEF Sources, FromEvents, HeardOf
<1>6. IsFiniteSet(kept)
  BY <1>4, <1>5, FewKeys
<1> QED BY <1>1, <1>3, <1>6

LEMMA TypesStep ==
  ASSUME Types, TimesInv, Sources, Orderly, RoutesInv, [MetricNext]_metricVars
  PROVE  Types'
<1>1. /\ IsTable(entries) /\ IsTable(rows) /\ IsTable(summary) /\ heard \in Seq(HeardEvents)
      /\ IsFiniteSet(DOMAIN entries) /\ Cardinality(DOMAIN entries) <= Capacity
      /\ clock \in 0 .. MaxClock /\ booted \in 0 .. clock /\ since \in 0 .. Len(heard)
  BY DEF Types
<1>2. /\ phase' \in {"up", "stopping", "draining", "down"}
      /\ flusher' \in {"", "run", "stop"} /\ running' \in BOOLEAN
  BY Flags
<1>3. IsTable(rows')
  <2>1. IsTable(Upsert(rows, summary))
    BY <1>1, PartsOfOne
  <2>2. IsTable(Restrict(rows, ActiveRows))
    <3>1. PartOf(Restrict(rows, ActiveRows), rows)
      BY PartsOfOne DEF ActiveRows
    <3> QED BY <1>1, <3>1, PartsOfOne
  <2> QED BY <1>1, <2>1, <2>2, Flags
<1>4. IsTable(summary')
  <2>1. IsTable(PruneLocked(entries))
    BY <1>1, Pruned, PartsOfOne
  <2>2. IsTable(Summaries(PruneLocked(entries)))
    BY <2>1, PartsOfOne DEF Summaries
  <2> QED BY <1>1, <2>2, Flags, PartsOfOne
<1>5. /\ IsTable(entries') /\ IsFiniteSet(DOMAIN entries') /\ Cardinality(DOMAIN entries') <= Capacity
      /\ heard' \in Seq(HeardEvents) /\ since' \in 0 .. Len(heard')
      /\ clock' \in 0 .. MaxClock /\ booted' \in 0 .. clock'
  <2>1. ASSUME NEW o \in Observations, NEW at \in booted .. clock, Reports(o, at)
        PROVE  /\ IsTable(entries') /\ IsFiniteSet(DOMAIN entries')
               /\ Cardinality(DOMAIN entries') <= Capacity
               /\ heard' \in Seq(HeardEvents) /\ since' \in 0 .. Len(heard')
               /\ clock' \in 0 .. MaxClock /\ booted' \in 0 .. clock'
    <3>1. Submits(o, at) /\ at \in Nat
      BY <2>1, Heard DEF Reports
    <3>2. /\ since' = since /\ booted' = booted /\ clock' = clock
          /\ entries' = Record(entries, o, at)
          /\ heard' \in Seq(HeardEvents) /\ Len(heard') = Len(heard) + 1
      BY <3>1, Submitted
    <3>3. IsTable(entries') /\ IsFiniteSet(DOMAIN entries') /\ Cardinality(DOMAIN entries') <= Capacity
      BY <3>1, <3>2, Recorded
    <3>4. since' \in 0 .. Len(heard')
      BY <1>1, <3>2, Heard
    <3> QED BY <1>1, <3>2, <3>3, <3>4
  <2>2. CASE WorkGoesOn
    <3>1. clock' \in 0 .. MaxClock /\ booted' \in 0 .. clock'
      BY <1>1, <2>2, Constants DEF WorkGoesOn
    <3>2. IsTable(PruneLocked(entries))
      BY <1>1, Pruned, PartsOfOne
    <3>3. IsTable(entries') /\ IsFiniteSet(DOMAIN entries') /\ Cardinality(DOMAIN entries') <= Capacity
      BY <1>1, <2>2, <3>2, Pruned DEF WorkGoesOn
    <3> QED BY <1>1, <2>2, <3>1, <3>3 DEF WorkGoesOn
  <2>3. CASE IsDown
    <3>1. clock' \in 0 .. MaxClock /\ booted' \in 0 .. clock'
      BY <1>1, <2>3, Constants DEF IsDown
    <3>2. /\ IsTable(Nothing) /\ IsFiniteSet(DOMAIN Nothing) /\ Cardinality(DOMAIN Nothing) <= Capacity
      <4>1. IsFiniteSet({}) /\ Cardinality({}) = 0
        BY FS_EmptySet
      <4> QED BY <4>1, PartsOfOne, Constants
    <3> QED BY <1>1, <2>3, <3>1, <3>2 DEF IsDown
  <2>4. CASE Startup
    <3>1. heard' = heard /\ since' = Len(heard) /\ clock' = clock /\ booted' = clock
      BY <2>4 DEF Startup
    <3>2. since' \in 0 .. Len(heard') /\ booted' \in 0 .. clock'
      BY <3>1, Heard
    <3>3. IsTable(entries') /\ IsFiniteSet(DOMAIN entries') /\ Cardinality(DOMAIN entries') <= Capacity
      BY <1>1, <2>4, Starting, PartsOfOne
    <3> QED BY <1>1, <3>1, <3>2, <3>3
  <2> QED BY <2>1, <2>2, <2>3, <2>4, Steps
<1> QED BY <1>2, <1>3, <1>4, <1>5 DEF Types

LEMMA TimesStep ==
  ASSUME Types, Types', TimesInv, Sources, Orderly, RoutesInv, [MetricNext]_metricVars
  PROVE  TimesInv'
<1>1. ASSUME NEW o \in Observations, NEW at \in booted .. clock, Reports(o, at)
      PROVE  TimesInv'
  BY <1>1, Submitted DEF Reports
<1>2. CASE WorkGoesOn \/ IsDown
  <2>1. heard' = heard /\ since' = since /\ booted' = booted /\ clock <= clock'
    BY <1>2, Heard, Constants DEF WorkGoesOn, IsDown
  <2>2. \A j \in DOMAIN heard : heard[j].in <= clock'
    <3> TAKE j \in DOMAIN heard
    <3>1. heard[j].in <= clock /\ heard[j].in \in Nat
      BY Heard DEF TimesInv
    <3> QED BY <2>1, <3>1, Heard, HeardNext
  <2> QED BY <2>1, <2>2 DEF TimesInv
<1>3. CASE Startup
  <2>1. heard' = heard /\ since' = Len(heard) /\ booted' = clock /\ clock' = clock
    BY <1>3 DEF Startup
  <2>2. ASSUME NEW j \in DOMAIN heard
        PROVE  ~(j > Len(heard)) /\ heard[j].at <= clock
    <3>1. heard[j].at <= heard[j].in /\ heard[j].in <= clock
      BY DEF TimesInv
    <3> QED BY <3>1, Heard
  <2> QED BY <2>1, <2>2 DEF TimesInv
<1> QED BY <1>1, <1>2, <1>3, Steps

\* The history only grows.
LEMMA HistoryGrows ==
  ASSUME Types, TimesInv, Orderly, RoutesInv, [MetricNext]_metricVars
  PROVE  Len(heard) <= Len(heard') /\ \A j \in 1 .. Len(heard) : heard'[j] = heard[j]
<1>1. ASSUME NEW o \in Observations, NEW at \in booted .. clock, Reports(o, at)
      PROVE  Grown
  BY <1>1, Submitted DEF Reports
<1>2. CASE WorkGoesOn \/ IsDown \/ Startup
  BY <1>2, Heard DEF WorkGoesOn, IsDown, Startup
<1> QED BY <1>1, <1>2, Steps DEF Grown

LEMMA HeardGrows ==
  ASSUME Types, Types', Len(heard) <= Len(heard'),
         \A j \in 1 .. Len(heard) : heard'[j] = heard[j], NEW k
  PROVE  /\ HeardOf(k) \subseteq HeardOf(k)' /\ IsFiniteSet(HeardOf(k)')
         /\ Cardinality(HeardOf(k)) \in Nat /\ Cardinality(HeardOf(k)') \in Nat
         /\ Cardinality(HeardOf(k)) <= Cardinality(HeardOf(k)')
<1>1. HeardOf(k) \subseteq HeardOf(k)'
  BY Heard, HeardNext DEF HeardOf
<1>2. HeardOf(k)' \in SUBSET (1 .. Len(heard'))
  BY HeardNext DEF HeardOf
<1>3. IsFiniteSet(HeardOf(k)')
  BY <1>2, HeardNext, Indexes
<1> QED BY <1>1, <1>3, Larger

LEMMA SourcesGrow ==
  ASSUME Types, Types', Len(heard) <= Len(heard'),
         \A j \in 1 .. Len(heard) : heard'[j] = heard[j],
         NEW es, IsTable(es), FromEvents(es)
  PROVE  FromEvents(es)'
<1>1. ASSUME NEW k \in DOMAIN es
      PROVE  Count(es[k]) <= Cardinality(HeardOf(k)')
             /\ \E j \in HeardOf(k)' : es[k].used = heard'[j].at
  <2>1. /\ HeardOf(k) \subseteq HeardOf(k)'
        /\ Cardinality(HeardOf(k)) \in Nat /\ Cardinality(HeardOf(k)') \in Nat
        /\ Cardinality(HeardOf(k)) <= Cardinality(HeardOf(k)')
    BY HeardGrows
  <2>2. Count(es[k]) \in Nat /\ Count(es[k]) <= Cardinality(HeardOf(k))
    BY CounterFields DEF FromEvents, IsTable
  <2>3. PICK j \in HeardOf(k) : es[k].used = heard[j].at
    BY DEF FromEvents
  <2>4. heard'[j] = heard[j]
    BY Heard DEF HeardOf
  <2>5. Count(es[k]) <= Cardinality(HeardOf(k)')
    BY <2>1, <2>2
  <2> QED BY <2>1, <2>3, <2>4, <2>5
<1> QED BY <1>1 DEF FromEvents

\* An event makes the counters of its target one larger, and its events one more.
LEMMA SourcesEmit ==
  ASSUME Types, Types', TimesInv, FromEvents(entries),
         NEW o \in Observations, NEW at \in booted .. clock, Submits(o, at)
  PROVE  FromEvents(entries)'
<1>1. PICK es, next, n : es = entries /\ next = Record(entries, o, at) /\ n = Len(heard) + 1
  OBVIOUS
<1>2. /\ entries' = next /\ Len(heard') = n /\ heard'[n] = Note(o, at) /\ Grown
      /\ Note(o, at).key = o.key /\ Note(o, at).at = at /\ at \in Nat /\ n \in Nat /\ n >= 1
      /\ ~(n \in DOMAIN heard)
  BY <1>1, Submitted, Heard
<1>3. Len(heard) <= Len(heard') /\ \A j \in 1 .. Len(heard) : heard'[j] = heard[j]
  BY <1>2 DEF Grown
<1>4. IsTable(es) /\ FromEvents(es)
  BY <1>1 DEF Types
<1>5. FromEvents(es)'
  BY <1>3, <1>4, SourcesGrow
<1>6. PICK a : a = IF o.key \in DOMAIN PruneLocked(entries) THEN entries[o.key] ELSE Zero
  OBVIOUS
<1>7. /\ next[o.key] = Counted(a, o, at) /\ a \in Counters
      /\ \A k \in DOMAIN next : k # o.key => k \in DOMAIN es /\ next[k] = es[k]
  BY <1>1, <1>2, <1>6, Recorded, Pruned DEF PartOf
<1>8. a = Zero \/ (o.key \in DOMAIN es /\ a = es[o.key])
  BY <1>1, <1>6, Pruned DEF PartOf
<1>9. /\ Count(next[o.key]) = Count(a) + 1 /\ Count(a) \in Nat /\ a.used \in Nat
      /\ next[o.key].used = IF a.used < at THEN at ELSE a.used
  <2>1. /\ Count(Counted(a, o, at)) = Count(a) + 1
        /\ Counted(a, o, at).used = IF a.used < at THEN at ELSE a.used
    BY <1>2, <1>7, OneEvent
  <2>2. Count(a) \in Nat /\ a.used \in Nat
    BY <1>7, CounterFields
  <2> QED BY <1>7, <2>1, <2>2
<1>10. /\ HeardOf(o.key) \subseteq HeardOf(o.key)' /\ IsFiniteSet(HeardOf(o.key)')
       /\ Cardinality(HeardOf(o.key)) \in Nat /\ Cardinality(HeardOf(o.key)') \in Nat
  BY <1>3, HeardGrows
<1>11. n \in HeardOf(o.key)' /\ n \notin HeardOf(o.key)
  BY <1>2, HeardNext DEF HeardOf
<1>12. Cardinality(HeardOf(o.key)) + 1 <= Cardinality(HeardOf(o.key)')
  BY <1>10, <1>11, OneMore
<1>13. Count(a) <= Cardinality(HeardOf(o.key))
  BY <1>4, <1>8, <1>10, ZeroCounters DEF FromEvents
<1>14. Count(next[o.key]) <= Cardinality(HeardOf(o.key)')
  BY <1>9, <1>10, <1>12, <1>13
<1>15. \E j \in HeardOf(o.key)' : next[o.key].used = heard'[j].at
  <2>1. CASE next[o.key].used = at
    BY <1>2, <1>11, <2>1
  <2>2. CASE next[o.key].used # at
    <3>1. next[o.key].used = a.used /\ a.used > at
      BY <1>2, <1>9, <2>2
    <3>2. o.key \in DOMAIN es /\ a = es[o.key]
      BY <1>2, <1>8, <3>1, ZeroCounters
    <3> QED BY <1>5, <3>1, <3>2 DEF FromEvents
  <2> QED BY <2>1, <2>2
<1>16. ASSUME NEW k \in DOMAIN next
       PROVE  Count(next[k]) <= Cardinality(HeardOf(k)')
              /\ \E j \in HeardOf(k)' : next[k].used = heard'[j].at
  <2>1. CASE k = o.key
    BY <1>14, <1>15, <2>1
  <2>2. CASE k # o.key
    BY <1>5, <1>7, <2>2 DEF FromEvents
  <2> QED BY <2>1, <2>2
<1>17. FromEvents(next)'
  BY <1>16 DEF FromEvents
<1> QED BY <1>2, <1>17 DEF FromEvents

LEMMA SourcesStep ==
  ASSUME Types, Types', TimesInv, Sources, Orderly, RoutesInv, [MetricNext]_metricVars
  PROVE  Sources'
<1>1. Len(heard) <= Len(heard') /\ \A j \in 1 .. Len(heard) : heard'[j] = heard[j]
  BY HistoryGrows
<1>2. PICK es, rs, ss, live :
        es = entries /\ rs = rows /\ ss = summary /\ live = PruneLocked(entries)
  OBVIOUS
<1>3. IsTable(es) /\ IsTable(rs) /\ IsTable(ss) /\ IsTable(live) /\ IsTable(Nothing)
  BY <1>2, Pruned, PartsOfOne DEF Types
<1>4. FromEvents(es) /\ FromEvents(rs) /\ FromEvents(ss)
  BY <1>2 DEF Sources
<1>5. FromEvents(live)
  BY <1>2, <1>4, Pruned, PartsOfOne
<1>6. FromEvents(es)' /\ FromEvents(rs)' /\ FromEvents(ss)' /\ FromEvents(live)'
  BY <1>1, <1>3, <1>4, <1>5, SourcesGrow
<1>7. /\ FromEvents(Nothing)' /\ FromEvents(Upsert(rs, ss))'
      /\ FromEvents(Summaries(live))'
  <2>1. FromEvents(Nothing)'
    BY PartsOfOne DEF FromEvents
  <2>2. FromEvents(Upsert(rs, ss))'
    BY <1>6 DEF FromEvents, Upsert
  <2>3. FromEvents(Summaries(live))'
    BY <1>6 DEF FromEvents, Summaries, Without, Restrict
  <2> QED BY <2>1, <2>2, <2>3
<1>8. PICK active : active = ActiveRows /\ active \subseteq DOMAIN rs
  BY <1>2 DEF ActiveRows
<1>9. FromEvents(Restrict(rs, active))'
  BY <1>6, <1>8 DEF FromEvents, Restrict
<1>10. FromEvents(rows)'
  <2>1. rows' \in {rs, Upsert(rs, ss), Restrict(rs, active)}
    BY <1>2, <1>8, Flags
  <2> QED BY <1>6, <1>7, <1>9, <2>1 DEF FromEvents
<1>11. FromEvents(summary)'
  <2>1. summary' \in {ss, Nothing, Summaries(live)}
    BY <1>2, Flags
  <2> QED BY <1>6, <1>7, <2>1 DEF FromEvents
<1>12. FromEvents(entries)'
  <2>1. ASSUME NEW o \in Observations, NEW at \in booted .. clock, Reports(o, at)
        PROVE  FromEvents(entries)'
    BY <2>1, SourcesEmit DEF Reports, Sources
  <2>2. CASE WorkGoesOn \/ IsDown
    <3>1. entries' \in {es, live, Nothing}
      BY <1>2, <2>2 DEF WorkGoesOn, IsDown
    <3> QED BY <1>6, <1>7, <3>1 DEF FromEvents
  <2>3. CASE Startup
    <3>1. PartOf(entries', rs)
      BY <1>2, <2>3, Starting
    <3> QED BY <1>6, <3>1 DEF PartOf, FromEvents
  <2> QED BY <2>1, <2>2, <2>3, Steps
<1> QED BY <1>10, <1>11, <1>12 DEF Sources

\* What is still owed was owed before; during a shutdown the registry covers it.
LEMMA OwedStill ==
  ASSUME NEW es
  PROVE  /\ PartOf(StillOwed(es), owed)
         /\ phase # "stopping" => StillOwed(es) = owed
         /\ phase = "stopping" =>
              \A k \in DOMAIN StillOwed(es) :
                k \in DOMAIN es /\ Count(es[k]) >= Count(StillOwed(es)[k])
<1> DEFINE held == {k \in DOMAIN owed \cap DOMAIN es : Count(es[k]) >= Count(owed[k])}
<1>1. CASE phase # "stopping"
  BY <1>1 DEF StillOwed, PartOf
<1>2. CASE phase = "stopping"
  <2>1. StillOwed(es) = Restrict(owed, held)
    BY <1>2 DEF StillOwed
  <2>2. DOMAIN StillOwed(es) = held /\ \A k \in held : StillOwed(es)[k] = owed[k]
    BY <2>1 DEF Restrict
  <2> QED BY <1>2, <2>2 DEF PartOf
<1> QED BY <1>1, <1>2

\* Reading the registry, and reporting to it.
LEMMA OrderlyQuiet ==
  ASSUME Orderly, phase' = phase, flusher' = flusher, running' = running,
         rows' = rows, summary' = summary, owed' = StillOwed(entries')
  PROVE  Orderly'
<1>1. PICK es : es = entries'
  OBVIOUS
<1>2. /\ PartOf(owed', owed)
      /\ phase # "stopping" => owed' = owed
      /\ phase = "stopping" =>
           \A k \in DOMAIN owed' : k \in DOMAIN es /\ Count(es[k]) >= Count(owed'[k])
  BY <1>1, OwedStill
<1>3. phase = "stopping" => Covered(entries)'
  BY <1>1, <1>2 DEF Covered
<1>4. phase = "stopping" /\ flusher = "stop" => Covered(summary)'
  BY <1>2 DEF Orderly, Covered, PartOf
<1>5. phase \in {"draining", "down"} => Covered(rows)'
  BY <1>2 DEF Orderly, Covered
<1> QED BY <1>2, <1>3, <1>4, <1>5 DEF Orderly, PartOf

LEMMA OrderlySnapshot ==
  ASSUME Types, Orderly, NEW who \in {"run", "stop"}, Snapshot(who),
         IF who = "run" THEN running ELSE phase = "stopping" /\ ~running
  PROVE  Orderly'
<1>1. PICK es : es = PruneLocked(entries)
  OBVIOUS
<1>2. /\ flusher = "" /\ flusher' = who /\ entries' = es /\ summary' = Summaries(es)
      /\ owed' = StillOwed(es) /\ UNCHANGED <<phase, rows, running>>
  BY <1>1 DEF Snapshot
<1>3. /\ PartOf(owed', owed)
      /\ phase # "stopping" => owed' = owed
      /\ phase = "stopping" =>
           \A k \in DOMAIN owed' : k \in DOMAIN es /\ Count(es[k]) >= Count(owed'[k])
  BY <1>2, OwedStill
<1>4. phase = "stopping" => Covered(entries)'
  BY <1>2, <1>3 DEF Covered
<1>5. phase = "stopping" => Covered(summary)'
  <2>1. ASSUME NEW k \in DOMAIN owed', phase = "stopping"
        PROVE  k \in DOMAIN Summaries(es) /\ Count(Summaries(es)[k]) >= Count(owed'[k])
    <3>1. k # Preflight /\ k \in DOMAIN es /\ Count(es[k]) >= Count(owed'[k])
      BY <1>3, <2>1 DEF Orderly, PartOf
    <3> QED BY <3>1 DEF Summaries, Without, Restrict
  <2> QED BY <1>2, <2>1 DEF Covered
<1>6. phase \in {"up", "stopping"}
  BY DEF Orderly
<1> QED BY <1>2, <1>3, <1>4, <1>5, <1>6 DEF Orderly, PartOf

LEMMA OrderlyStep ==
  ASSUME Types, Types', Orderly, [MetricNext]_metricVars
  PROVE  Orderly'
<1>1. ASSUME NEW o \in Observations, NEW at \in booted .. clock, Emit(o, at)
      PROVE  Orderly'
  BY <1>1, OrderlyQuiet DEF Emit
<1>2. ASSUME NEW o \in Observations, Diagnose(o.key)
      PROVE  Orderly'
  BY <1>2, OrderlyQuiet DEF Diagnose
<1>3. CASE TimePasses \/ UNCHANGED metricVars
  <2>1. UNCHANGED <<phase, entries, rows, summary, flusher, running, owed>>
    BY <1>3 DEF TimePasses, registry, history, metricVars
  <2> QED BY <2>1 DEF Orderly, Covered
<1>4. CASE TickerFlush
  BY <1>4, OrderlySnapshot DEF TickerFlush
<1>5. CASE TickerFlushed
  <2>1. /\ flusher = "run" /\ flusher' = "" /\ phase' = phase /\ running' = running
        /\ entries' = entries /\ owed' = owed
    BY <1>5 DEF TickerFlushed, Flushed, Write, registry
  <2>2. running /\ phase \in {"up", "stopping"}
    BY <2>1 DEF Orderly
  <2> QED BY <2>1, <2>2 DEF Orderly, Covered
<1>6. CASE ShutdownBegins
  <2>1. /\ phase = "up" /\ phase' = "stopping" /\ owed' = Summaries(entries)
        /\ UNCHANGED <<entries, rows, summary, flusher, running>>
    BY <1>6 DEF ShutdownBegins, registry
  <2>2. ASSUME NEW k \in DOMAIN Summaries(entries)
        PROVE  /\ k # Preflight /\ k \in DOMAIN entries /\ Summaries(entries)[k] = entries[k]
               /\ Count(entries[k]) \in Nat
    <3>1. k # Preflight /\ k \in DOMAIN entries /\ Summaries(entries)[k] = entries[k]
      BY DEF Summaries, Without, Restrict
    <3> QED BY <3>1, CounterFields DEF Types, IsTable
  <2>3. Covered(entries)' /\ Preflight \notin DOMAIN owed'
    BY <2>1, <2>2 DEF Covered
  <2> QED BY <2>1, <2>3 DEF Orderly
<1>7. CASE RunReturns
  BY <1>7 DEF RunReturns, registry, history, Orderly, Covered
<1>8. CASE LastSnapshot
  BY <1>8, OrderlySnapshot DEF LastSnapshot, AwaitsRun
<1>9. CASE LastFlushed
  <2>1. /\ flusher = "stop" /\ flusher' = "" /\ phase' = "draining" /\ running' = running
        /\ \/ rows' = Upsert(rows, summary) /\ owed' = owed
           \/ owed' = Nothing
    BY <1>9 DEF LastFlushed, Flushed, Write
  <2>2. phase = "stopping" /\ ~running /\ Covered(summary) /\ Preflight \notin DOMAIN owed
    BY <2>1 DEF Orderly
  <2>3. Covered(rows)' /\ Preflight \notin DOMAIN owed'
    <3>1. CASE owed' = Nothing
      BY <3>1, PartsOfOne DEF Covered
    <3>2. CASE rows' = Upsert(rows, summary) /\ owed' = owed
      BY <2>2, <3>2 DEF Covered, Upsert
    <3> QED BY <2>1, <3>1, <3>2
  <2> QED BY <2>1, <2>2, <2>3 DEF Orderly
<1>10. CASE ShutdownEnds
  BY <1>10 DEF ShutdownEnds, Gone, history, Orderly, Covered
<1>11. CASE Crash
  <2>1. phase' = "down" /\ flusher' = "" /\ running' = FALSE /\ DOMAIN owed' = {}
    BY <1>11, PartsOfOne DEF Crash, Gone
  <2> QED BY <2>1 DEF Orderly, Covered
<1>12. CASE Startup
  <2>1. /\ phase = "down" /\ phase' = "up" /\ flusher' = flusher /\ running' = TRUE
        /\ DOMAIN owed' = {}
    BY <1>12, PartsOfOne DEF Startup
  <2> QED BY <2>1 DEF Orderly, Covered
<1> QED BY <1>1, <1>2, <1>3, <1>4, <1>5, <1>6, <1>7, <1>8, <1>9, <1>10, <1>11, <1>12 DEF MetricNext

LEMMA EntriesStep ==
  ASSUME Types, Types', TimesInv, TimesInv', Sources, Orderly, EntriesInv, RoutesInv,
         [MetricNext]_metricVars
  PROVE  EntriesInv'
<1>1. ASSUME NEW o \in Observations, NEW at \in booted .. clock, Reports(o, at)
      PROVE  EntriesInv'
  BY <1>1, EntriesEmit DEF Reports
<1>2. CASE WorkGoesOn
  <2>1. /\ phase # "down" /\ heard' = heard /\ since' = since /\ booted' = booted
        /\ clock <= clock'
        /\ entries' = entries \/ (entries' = PruneLocked(entries) /\ clock' = clock)
    BY <1>2, Heard, Constants DEF WorkGoesOn
  <2> QED BY <2>1, EntriesQuiet
<1>3. CASE IsDown
  BY <1>3 DEF IsDown, EntriesInv
<1>4. CASE Startup
  <2>1. heard' = heard /\ since' = Len(heard) /\ booted' = clock
    BY <1>4 DEF Startup
  <2>2. PartOf(entries', rows)
    BY <1>4, Starting
  <2> QED BY <2>1, <2>2, EntriesStart
<1> QED BY <1>1, <1>2, <1>3, <1>4, Steps

LEMMA RoutesStep ==
  ASSUME Types, Types', TimesInv, TimesInv', Orderly, RoutesInv, [MetricNext]_metricVars
  PROVE  RoutesInv'
<1>1. ASSUME NEW o \in Observations, NEW at \in booted .. clock, Reports(o, at)
      PROVE  RoutesInv'
  BY <1>1, RoutesEmit DEF Reports
<1>2. CASE WorkGoesOn
  <2>1. /\ phase # "down" /\ phase' # "down" /\ heard' = heard /\ since' = since
        /\ clock <= clock'
    BY <1>2, Heard, Constants DEF WorkGoesOn
  <2>2. PICK which : routes' = routes \/ routes' = PruneRoutes(routes, which)
    BY <1>2 DEF WorkGoesOn
  <2> QED BY <2>1, <2>2, RoutesQuiet
<1>3. CASE IsDown
  <2>1. phase' = "down" /\ DOMAIN routes' = {}
    BY <1>3 DEF IsDown
  <2>2. IsFiniteSet({}) /\ Cardinality({}) = 0
    BY FS_EmptySet
  <2> QED BY <2>1, <2>2, Constants DEF RoutesInv, IsRoutes
<1>4. CASE Startup
  <2>1. /\ phase = "down" /\ phase' # "down" /\ heard' = heard /\ since' = Len(heard)
        /\ routes' = routes
    BY <1>4 DEF Startup
  <2> QED BY <2>1, RoutesStart
<1> QED BY <1>1, <1>2, <1>3, <1>4, Steps

---------------------------------------------------------------------------
(* The invariant.                                                          *)

LEMMA MetricStarts == MetricInit => MetricInv
<1> SUFFICES ASSUME MetricInit
             PROVE  MetricInv
  OBVIOUS
<1>1. /\ clock = 0 /\ booted = 0 /\ since = 0 /\ phase = "up" /\ running = TRUE
      /\ entries = Nothing /\ rows = Nothing /\ summary = Nothing /\ owed = Nothing
      /\ routes = Nothing /\ heard = <<>> /\ flusher = ""
  BY DEF MetricInit
<1>2. DOMAIN Nothing = {} /\ IsTable(Nothing) /\ FromEvents(Nothing)
  BY PartsOfOne
<1>3. IsFiniteSet({}) /\ Cardinality({}) = 0
  BY FS_EmptySet
<1>4. Len(heard) = 0 /\ DOMAIN heard = {} /\ heard \in Seq(HeardEvents)
  <2>1. Len(<<>>) = 0 /\ DOMAIN <<>> = {}
    OBVIOUS
  <2>2. <<>> \in Seq(HeardEvents)
    BY EmptySeq
  <2> QED BY <1>1, <2>1, <2>2
<1>5. Types
  <2>0. clock = 0 /\ booted = 0 /\ since = 0 /\ Len(heard) = 0 /\ DOMAIN entries = {}
    BY <1>1, <1>2, <1>4
  <2>1. clock \in 0 .. MaxClock /\ booted \in 0 .. clock /\ since \in 0 .. Len(heard)
    BY <2>0, Constants
  <2>2. IsFiniteSet(DOMAIN entries) /\ Cardinality(DOMAIN entries) <= Capacity
    BY <1>3, <2>0, Constants
  <2> QED BY <1>1, <1>2, <1>4, <2>1, <2>2 DEF Types
<1>6. TimesInv
  BY <1>4 DEF TimesInv
<1>7. Sources
  BY <1>1, <1>2 DEF Sources
<1>8. Orderly
  BY <1>1, <1>2 DEF Orderly
<1>9. \A k : EventsOf(k) = {}
  <2>1. since = 0 /\ Len(heard) = 0
    BY <1>1, <1>4
  <2>2. since + 1 .. Len(heard) = {}
    BY <2>1
  <2> QED BY <2>2 DEF EventsOf
<1>10. EntriesInv
  BY <1>1, <1>2, <1>9 DEF EntriesInv
<1>11. ASSUME NEW k \in Keys
       PROVE  Traced(k, SamplesIn(routes, k))
  <2>1. SamplesIn(routes, k) = <<>> /\ AttemptsOf(k) = {}
    BY <1>1, <1>2, <1>9 DEF SamplesIn, AttemptsOf
  <2>2. PICK g : g = [i \in 1 .. 0 |-> 1]
    OBVIOUS
  <2>3. g \in [1 .. Len(<<>>) -> 1 .. Len(heard)] /\ 0 \in 0 .. Len(heard)
    BY <1>4, <2>2
  <2>4. SamplePlaces(k, <<>>, g, 0) /\ Dropped(k, <<>>, 0)
    BY <2>1, <2>2 DEF SamplePlaces, Dropped
  <2>5. Traced(k, <<>>)
    BY <2>3, <2>4 DEF Traced
  <2> QED BY <2>1, <2>5
<1>12. RoutesInv
  <2>1. DOMAIN routes = {} /\ phase # "down"
    BY <1>1, <1>2
  <2>2. IsRoutes(routes)
    BY <1>3, <2>1 DEF IsRoutes
  <2>3. Cardinality(DOMAIN routes) <= Capacity
    BY <1>3, <2>1, Constants
  <2> QED BY <1>11, <2>1, <2>2, <2>3 DEF RoutesInv
<1> QED BY <1>5, <1>6, <1>7, <1>8, <1>10, <1>12 DEF MetricInv

LEMMA Inductive == MetricInv /\ [MetricNext]_metricVars => MetricInv'
<1> SUFFICES ASSUME Types, TimesInv, Sources, Orderly, EntriesInv, RoutesInv,
                    [MetricNext]_metricVars
             PROVE  MetricInv'
  BY DEF MetricInv
<1>1. Types'
  BY TypesStep
<1>2. TimesInv'
  BY <1>1, TimesStep
<1>3. Sources' /\ Orderly'
  BY <1>1, SourcesStep, OrderlyStep
<1>4. EntriesInv' /\ RoutesInv'
  BY <1>1, <1>2, EntriesStep, RoutesStep
<1> QED BY <1>1, <1>2, <1>3, <1>4 DEF MetricInv

---------------------------------------------------------------------------
(* What the invariant is for.                                              *)

\* An increasing function counts what it reaches.
LEMMA Enumerated ==
  ASSUME NEW n \in Nat, NEW S \in SUBSET Nat, NEW f \in [1 .. n -> S],
         \A i, j \in 1 .. n : i < j => f[i] < f[j], \A x \in S : \E i \in 1 .. n : f[i] = x
  PROVE  Cardinality(S) = n /\ IsFiniteSet(S)
<1>1. \A i \in 1 .. n : f[i] \in Nat
  OBVIOUS
<1>2. ASSUME NEW i \in 1 .. n, NEW j \in 1 .. n, f[i] = f[j]
      PROVE  i = j
  <2>1. ~(f[i] < f[j]) /\ ~(f[j] < f[i])
    BY <1>1, <1>2
  <2>2. ~(i < j) /\ ~(j < i)
    BY <2>1
  <2> QED BY <2>2
<1>3. f \in Bijection(1 .. n, S)
  BY <1>2 DEF Bijection, Injection, Surjection, IsInjective
<1>4. ExistsBijection(1 .. n, S)
  BY <1>3 DEF ExistsBijection
<1>5. 1 \in Int /\ n \in Int
  OBVIOUS
<1>6. IsFiniteSet(1 .. n)
  BY <1>5, FS_Interval
<1> QED BY <1>4, <1>6, FS_CountingElements, FS_Bijection

\* What a diagnosis misses of the recent attempts lies before the first it sees.
LEMMA AttemptsSeen ==
  ASSUME Types, TimesInv, RoutesInv, phase # "down", NEW k \in Keys
  PROVE  SeesRecent(k)
<1>1. PICK s : s = SamplesIn(routes, k)
  OBVIOUS
<1>2. s \in Seq(Nat) /\ Traced(k, s)
  BY <1>1, EmptySeq DEF RoutesInv, IsRoutes, SamplesIn
<1>3. PICK r, L : r = Recent(s) /\ L = Len(r)
  OBVIOUS
<1>4. /\ r \in Seq(Nat) /\ L \in Nat
      /\ L >= 1 => r[1] >= clock - Horizon
  <2>1. PICK n : n = Cardinality(Stale(s))
    OBVIOUS
  <2>2. /\ n \in 0 .. Len(s) /\ \A i \in 1 .. n : s[i] < clock - Horizon
        /\ r \in Seq(Nat) /\ L = Len(s) - n
        /\ \A i \in 1 .. Len(s) - n : r[i] = s[i + n]
        /\ n < Len(s) => ~(\A j \in 1 .. n + 1 : s[j] < clock - Horizon)
    BY <1>2, <1>3, <2>1, HeadCut
  <2>3. Len(s) \in Nat /\ n \in Nat /\ L \in Nat /\ \A i \in 1 .. Len(s) : s[i] \in Nat
    BY <1>2, <2>2
  <2>4. ASSUME L >= 1
        PROVE  r[1] >= clock - Horizon
    <3>1. n < Len(s) /\ 1 \in 1 .. Len(s) - n /\ 1 + n = n + 1 /\ n + 1 \in 1 .. Len(s)
      BY <2>2, <2>3, <2>4
    <3>2. PICK j \in 1 .. n + 1 : ~(s[j] < clock - Horizon)
      BY <2>2, <3>1
    <3>3. j = n + 1
      BY <2>2, <2>3, <3>2
    <3>4. r[1] = s[n + 1]
      BY <2>2, <3>1
    <3> QED BY <2>3, <3>1, <3>2, <3>3, <3>4, Heard, Constants
  <2> QED BY <2>2, <2>3, <2>4
<1>5. Traced(k, r)
  BY <1>2, <1>3, TracedCut
<1>6. RouteAttempts(k) = L
  <2>1. CASE k \in DOMAIN routes
    BY <1>1, <1>3, <2>1 DEF RouteAttempts, SamplesIn
  <2>2. CASE k \notin DOMAIN routes
    <3>1. s = <<>>
      BY <1>1, <2>2 DEF SamplesIn
    <3>2. Len(s) = 0
      BY <3>1
    <3>3. PICK n : n \in 0 .. Len(s) /\ Len(Recent(s)) = Len(s) - n
      BY <1>2, HeadCut
    <3>4. n = 0 /\ Len(Recent(s)) = 0 - n
      BY <3>2, <3>3
    <3>5. L = 0
      BY <1>3, <3>4
    <3> QED BY <2>2, <3>5 DEF RouteAttempts
  <2> QED BY <2>1, <2>2
<1>7. PICK c \in 0 .. Len(heard), f \in [1 .. L -> 1 .. Len(heard)] :
        SamplePlaces(k, r, f, c) /\ Dropped(k, r, c)
  BY <1>3, <1>5 DEF Traced
<1>8. PICK all, hi, lo :
        /\ all = RecentAttempts(k)
        /\ hi = {j \in all : j > c} /\ lo = {j \in all : j <= c}
  OBVIOUS
<1>9. /\ \A j \in AttemptsOf(k) : j \in 1 .. Len(heard) /\ j \in Nat /\ heard[j].in \in Nat
      /\ c \in Nat /\ Len(heard) \in Nat /\ clock \in Nat /\ Horizon \in Nat
      /\ \A j \in all : j \in AttemptsOf(k) /\ heard[j].in >= clock - Horizon
      /\ \A j \in AttemptsOf(k) : heard[j].in >= clock - Horizon => j \in all
  BY <1>7, <1>8, Attempt, Heard, Constants DEF RecentAttempts
<1>10. Cardinality(hi) = L
  <2>1. ASSUME NEW i \in 1 .. L
        PROVE  f[i] \in hi
    <3>1. f[i] \in AttemptsOf(k) /\ f[i] > c /\ r[i] = heard[f[i]].in
      BY <1>3, <1>7 DEF SamplePlaces
    <3>2. 1 \in 1 .. L /\ L >= 1 /\ i \in Nat
      BY <1>4
    <3>3. f[1] \in AttemptsOf(k) /\ r[1] = heard[f[1]].in
      BY <1>3, <1>7, <3>2 DEF SamplePlaces
    <3>4. f[1] <= f[i]
      <4>1. CASE i = 1
        BY <1>9, <3>3, <4>1
      <4>2. CASE i # 1
        <5>1. 1 < i
          BY <4>2
        <5> QED BY <1>3, <1>7, <1>9, <3>1, <3>2, <3>3, <5>1 DEF SamplePlaces
      <4> QED BY <4>1, <4>2
    <3>5. heard[f[1]].in <= heard[f[i]].in
      BY <1>9, <3>1, <3>3, <3>4, Heard DEF TimesInv
    <3>6. heard[f[1]].in >= clock - Horizon
      BY <1>4, <3>2, <3>3
    <3>7. heard[f[i]].in >= clock - Horizon
      BY <1>9, <3>1, <3>3, <3>5, <3>6
    <3> QED BY <1>8, <1>9, <3>1, <3>7
  <2>2. f \in [1 .. L -> hi]
    BY <1>7, <2>1
  <2>3. \A i, j \in 1 .. L : i < j => f[i] < f[j]
    BY <1>3, <1>7 DEF SamplePlaces
  <2>4. \A x \in hi : \E i \in 1 .. L : f[i] = x
    BY <1>3, <1>7, <1>8, <1>9 DEF SamplePlaces
  <2>5. hi \in SUBSET Nat
    BY <1>8, <1>9
  <2> QED BY <1>4, <2>2, <2>3, <2>4, <2>5, Enumerated
<1>11. Cardinality(all) - L = Cardinality(lo) /\ Cardinality(lo) \in Nat
  <2>1. /\ hi \in SUBSET (1 .. Len(heard)) /\ lo \in SUBSET (1 .. Len(heard))
        /\ all = lo \cup hi /\ lo \cap hi = {}
    BY <1>8, <1>9
  <2>2. IsFiniteSet(hi) /\ IsFiniteSet(lo) /\ Cardinality(hi) \in Nat /\ Cardinality(lo) \in Nat
    BY <1>9, <2>1, Indexes
  <2>3. Cardinality(all) = Cardinality(lo) + Cardinality(hi) - Cardinality(lo \cap hi)
    BY <2>1, <2>2, FS_Union
  <2>4. Cardinality(lo \cap hi) = 0
    BY <2>1, FS_EmptySet
  <2> QED BY <1>10, <2>2, <2>3, <2>4
<1>12. PICK missing : missing = Cardinality(all) - L
  OBVIOUS
<1>13. lo = {} => missing = 0
  BY <1>11, <1>12, FS_EmptySet
<1>14. CASE \A j \in AttemptsOf(k) : j > c
  <2>1. lo = {}
    BY <1>8, <1>9, <1>14
  <2> QED BY <1>6, <1>8, <1>12, <1>13, <2>1 DEF SeesRecent
<1>15. CASE c \in AttemptsOf(k) /\ c \notin all
  <2>1. ASSUME NEW j \in lo
        PROVE  FALSE
    <3>1. j \in AttemptsOf(k) /\ j <= c /\ heard[j].in >= clock - Horizon
      BY <1>8, <1>9
    <3>2. heard[j].in <= heard[c].in
      BY <1>9, <1>15, <3>1, Heard DEF TimesInv
    <3> QED BY <1>9, <1>15, <3>1, <3>2
  <2>2. lo = {}
    BY <2>1
  <2> QED BY <1>6, <1>8, <1>12, <1>13, <2>2 DEF SeesRecent
<1>16. CASE L = MaxSamples
  <2>1. missing = 0 \/ (missing > 0 /\ L = MaxSamples)
    BY <1>11, <1>12, <1>16
  <2> QED BY <1>6, <1>8, <1>12, <2>1 DEF SeesRecent
<1>17. CASE c \in all /\ Cardinality(Rivals(k, InUseSince(c))) >= Capacity
  <2>1. Cardinality({i \in all : i <= c}) = missing
    BY <1>8, <1>11, <1>12
  <2> QED BY <1>6, <1>8, <1>12, <1>17, <2>1 DEF SeesRecent
<1>18. \/ \A j \in AttemptsOf(k) : j > c
       \/ c \in AttemptsOf(k) /\ c \notin all
       \/ L = MaxSamples
       \/ c \in all /\ Cardinality(Rivals(k, InUseSince(c))) >= Capacity
  <2>1. ASSUME c \in AttemptsOf(k), heard[c].in < clock - Horizon
        PROVE  c \notin all
    BY <1>9, <2>1
  <2> QED BY <1>3, <1>7, <2>1 DEF Dropped
<1> QED BY <1>14, <1>15, <1>16, <1>17, <1>18

LEMMA TypesHold == MetricInv => MetricTypeOK
<1> SUFFICES ASSUME Types, TimesInv, Sources, RoutesInv
             PROVE  MetricTypeOK
  BY DEF MetricInv
<1>1. ASSUME NEW es, IsTable(es), FromEvents(es)
      PROVE  DOMAIN es \subseteq Keys /\ \A k \in DOMAIN es : es[k].used \in 0 .. clock
  <2>1. ASSUME NEW k \in DOMAIN es
        PROVE  es[k].used \in 0 .. clock
    <3>1. PICK j \in HeardOf(k) : es[k].used = heard[j].at
      BY <1>1 DEF FromEvents
    <3>2. j \in DOMAIN heard
      BY <3>1 DEF HeardOf
    <3>3. heard[j].at <= heard[j].in /\ heard[j].in <= clock
      BY <3>2 DEF TimesInv
    <3> QED BY <3>1, <3>2, <3>3, Heard
  <2> QED BY <1>1, <2>1 DEF IsTable
<1>2. \A es \in {entries, rows} : DOMAIN es \subseteq Keys
                                   /\ \A k \in DOMAIN es : es[k].used \in 0 .. clock
  BY <1>1 DEF Types, Sources
<1> QED BY <1>2 DEF MetricTypeOK, Types, RoutesInv, IsRoutes

LEMMA RememberedHolds == MetricInv => Remembered
<1> SUFFICES ASSUME Types, TimesInv, EntriesInv, RoutesInv, phase # "down", NEW k \in Keys
             PROVE  /\ EventsOf(k) # {} => k \in DOMAIN entries \/ ForgottenRightly(k)
                    /\ SeesRecent(k)
  BY DEF MetricInv, Remembered
<1>1. EventsOf(k) # {} => k \in DOMAIN entries \/ ForgottenRightly(k)
  BY DEF EntriesInv, Known
<1> QED BY <1>1, AttemptsSeen

LEMMA CountsHold == MetricInv => CountsKept
<1> SUFFICES ASSUME MetricInv
             PROVE  CountsKept
  OBVIOUS
<1>1. CountedOnce
  BY DEF MetricInv, Sources, FromEvents, HeardOf, CountedOnce
<1>2. Settled
  BY DEF MetricInv, Orderly, Covered, Settled
<1>3. phase = "draining" => flusher = "" /\ ~running
  BY DEF MetricInv, Orderly
<1> QED BY <1>1, <1>2, <1>3, RememberedHolds DEF CountsKept

\* The registry holds no more targets and routes than its capacity, a route no
\* more samples than fit, and no counter, in memory or in the database, has been
\* used in the future (Registry.Record, Registry.AppendRoute, Checkpoint.Flush).
THEOREM MetricTyping == MetricSpec => []MetricTypeOK
<1>1. MetricSpec => []MetricInv
  BY MetricStarts, Inductive, PTL DEF MetricSpec
<1> QED BY <1>1, TypesHold, PTL

\* The counters survive what they should: a target is forgotten, and a recent
\* attempt unseen, for a reason only; no event counts twice, in memory or in the
\* database, over any number of restarts; after an orderly shutdown whose last
\* transaction committed the database covers what was counted before it; and no
\* flush is left for a closed store (Registry.Record, Registry.Restore,
\* Checkpoint.Flush, Checkpoint.Stop).
THEOREM CountersKept == MetricSpec => []CountsKept
<1>1. MetricSpec => []MetricInv
  BY MetricStarts, Inductive, PTL DEF MetricSpec
<1> QED BY <1>1, CountsHold, PTL
=============================================================================
