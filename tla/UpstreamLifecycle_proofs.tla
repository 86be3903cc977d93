---------------------- MODULE UpstreamLifecycle_proofs ----------------------
(* Proofs about UpstreamLifecycle, for every set of upstreams and clients  *)
(* and every attempt limit: the inductive invariant, what follows from it, *)
(* and two action properties.                                              *)
EXTENDS UpstreamLifecycle, TLAPS

USE EnabledAssumption, AttemptsAssumption, ClientAssumption

(* The next attempt number is an attempt number. *)
LEMMA NextAttemptType == \A n \in Attempt : NextAttempt(n) \in Attempt
  BY SMT DEF NextAttempt, Attempt

(* Scheduling keeps a timer table well formed, touches no other upstream,  *)
(* and leaves a timer pending for an enabled upstream of a live aggregator.*)
LEMMA ScheduleFacts ==
  ASSUME NEW tab \in [Upstreams -> Attempt \cup {NoTimer}],
         NEW u \in Upstreams, NEW n \in Attempt
  PROVE  LET new == Schedule(tab, u, n)
         IN /\ new \in [Upstreams -> Attempt \cup {NoTimer}]
            /\ \A v \in Upstreams \ {u} : new[v] = tab[v]
            /\ tab[u] # NoTimer => new = tab
            /\ closed => new = tab
            /\ u \in Enabled /\ ~closed => new[u] # NoTimer
            /\ u \in Enabled /\ ~closed /\ tab[u] = NoTimer => new[u] = n
  BY SMT DEF Schedule, Attempt, NoTimer

LEMMA InitInv == Init => IInv
<1> SUFFICES ASSUME Init PROVE IInv
  OBVIOUS
<1> USE DEF Init
<1>1. closed \in BOOLEAN /\ notified \in BOOLEAN /\ fetched \in BOOLEAN
  BY Zenon
<1>2. TypeOK
  BY SMT, <1>1 DEF TypeOK, NoConnect, Stage, Owner
<1>3. NoOrphan /\ InFlightIntact
  BY SMT DEF NoOrphan, InFlightIntact, NoConnect
<1>4. NoWedge /\ BatchKeepsAccount
  BY SMT DEF NoWedge, BatchKeepsAccount
<1>5. ConnectShape /\ NothingLeft
  BY SMT DEF ConnectShape, NothingLeft, NoConnect
<1> QED BY <1>2, <1>3, <1>4, <1>5 DEF IInv

LEMMA HandshakeOkInv ==
  ASSUME IInv, NEW u \in Upstreams, HandshakeOk(u)
  PROVE  IInv'
<1> USE DEF IInv, HandshakeOk, connVars, retryVars, bootVars, viewVars
<1>1. TypeOK'
  BY SMT DEF TypeOK, Stage, InFlightIntact
<1>2. NoOrphan'
  BY SMT DEF NoOrphan, TypeOK
<1>3. InFlightIntact'
  BY SMT DEF InFlightIntact, TypeOK
<1>4. NoWedge' /\ BatchKeepsAccount'
  BY SMT DEF NoWedge, BatchKeepsAccount, TypeOK, Ready, Alive, Unserved, ConnectShape, Connecting
<1>5. ConnectShape'
  BY SMT DEF ConnectShape, TypeOK, Connecting
<1>6. NothingLeft'
  BY SMT DEF NothingLeft, TypeOK, NoConnect
<1> QED BY <1>1, <1>2, <1>3, <1>4, <1>5, <1>6

LEMMA ListOkInv ==
  ASSUME IInv, NEW u \in Upstreams, ListOk(u)
  PROVE  IInv'
<1> USE DEF IInv, ListOk, connVars, retryVars, bootVars, viewVars
<1>1. TypeOK'
  BY SMT DEF TypeOK, Stage, Owner, NoConnect, Signal
<1>2. NoOrphan'
  BY SMT DEF NoOrphan, TypeOK
<1>3. InFlightIntact'
  BY SMT DEF InFlightIntact, TypeOK, NoConnect
<1>4. NoWedge' /\ BatchKeepsAccount'
  BY SMT DEF NoWedge, BatchKeepsAccount, TypeOK, Ready, Alive, Unserved, ConnectShape, Connecting, NoConnect, InFlightIntact
<1>5. ConnectShape'
  BY SMT DEF ConnectShape, TypeOK, Connecting, NoConnect
<1>6. NothingLeft'
  BY SMT DEF NothingLeft, TypeOK, NoConnect
<1> QED BY <1>1, <1>2, <1>3, <1>4, <1>5, <1>6

(* What is left of u after its connect was rejected, tab being the timer   *)
(* table the rejection met: a timer for an enabled upstream whenever there *)
(* was one, an attempt was awaiting, or reconnect() owned the connect.     *)
LEMMA RejectTimer ==
  ASSUME TypeOK, NEW u \in Upstreams, ~closed,
         NEW tab \in [Upstreams -> Attempt \cup {NoTimer}],
         timer' \in TimersAfterReject(u, tab)
  PROVE  /\ timer' \in [Upstreams -> Attempt \cup {NoTimer}]
         /\ \A v \in Upstreams \ {u} : timer'[v] = tab[v]
         /\ u \in Enabled /\ (tab[u] # NoTimer \/ attempts[u] # {} \/ connect[u].owner = "reconnect")
              => timer'[u] # NoTimer
<1>0. 0 \in Attempt
  BY SMT DEF Attempt
<1>1. CASE connect[u].owner = "reconnect"
  <2> DEFINE cleared == [tab EXCEPT ![u] = NoTimer]
  <2>1. cleared \in [Upstreams -> Attempt \cup {NoTimer}] /\ \A v \in Upstreams \ {u} : cleared[v] = tab[v]
    OBVIOUS
  <2>2. timer' = Schedule(cleared, u, 0)
    BY <1>1 DEF TimersAfterReject
  <2> HIDE DEF cleared
  <2> QED BY <1>0, <2>1, <2>2, ScheduleFacts
<1>2. CASE connect[u].owner # "reconnect" /\ attempts[u] = {}
  BY <1>2 DEF TimersAfterReject
<1>3. CASE connect[u].owner # "reconnect" /\ attempts[u] # {}
  <2>1. PICK n \in attempts[u] : timer' = Schedule(tab, u, NextAttempt(n))
    BY <1>3 DEF TimersAfterReject
  <2>2. NextAttempt(n) \in Attempt
    BY NextAttemptType DEF TypeOK
  <2> QED BY <1>3, <2>1, <2>2, ScheduleFacts
<1> QED BY <1>1, <1>2, <1>3

LEMMA RejectInv ==
  ASSUME IInv, NEW u \in Upstreams, connect[u].stage # "none", ~closed,
         NEW tab \in [Upstreams -> Attempt \cup {NoTimer}],
         \A v \in Upstreams \ {u} : tab[v] = timer[v],
         timer[u] # NoTimer => tab[u] # NoTimer,
         Reject(u, tab), closed' = closed, boot' = boot,
         notified' \in BOOLEAN, viewVars' = viewVars
  PROVE  IInv'
<1> USE DEF IInv, viewVars
<1>0. /\ timer' \in [Upstreams -> Attempt \cup {NoTimer}]
      /\ \A v \in Upstreams \ {u} : timer'[v] = timer[v]
      /\ u \in Enabled /\ (timer[u] # NoTimer \/ attempts[u] # {} \/ connect[u].owner = "reconnect")
           => timer'[u] # NoTimer
  BY RejectTimer DEF Reject
<1> USE DEF Reject, Discard
<1>1. TypeOK'
  <2>1. connect' \in [Upstreams -> [stage : Stage, owner : Owner]]
    BY SMT DEF NoConnect, Stage, Owner, TypeOK
  <2> QED BY <1>0, <2>1, SMT DEF TypeOK
<1>2. NoOrphan'
  BY SMT DEF NoOrphan, TypeOK
<1>3. InFlightIntact'
  BY SMT DEF InFlightIntact, TypeOK, NoConnect
<1>4. NoWedge'
  BY <1>0, SMT DEF NoWedge, TypeOK, Ready, Alive, NoConnect
<1>5. BatchKeepsAccount'
  BY <1>0, SMT DEF BatchKeepsAccount, TypeOK, Unserved, Ready, Alive, NoConnect
<1>6. ConnectShape'
  BY <1>0, SMT DEF ConnectShape, TypeOK, Connecting, NoConnect
<1>7. NothingLeft'
  BY SMT DEF NothingLeft, TypeOK, NoConnect
<1> QED BY <1>1, <1>2, <1>3, <1>4, <1>5, <1>6, <1>7

LEMMA ConnectFailInv ==
  ASSUME IInv, NEW u \in Upstreams, ConnectFail(u)
  PROVE  IInv'
<1>1. ~closed /\ timer \in [Upstreams -> Attempt \cup {NoTimer}] /\ notified' \in BOOLEAN
  BY SMT DEF IInv, TypeOK, ConnectFail, Signal, NothingLeft, NoConnect, RelayedByDiscard
<1> QED BY <1>1, RejectInv DEF ConnectFail

(* A death starts a cycle of the backoff, unless an attempt is running. *)
LEMMA TimerAfterDeathFacts ==
  ASSUME TypeOK, NEW u \in Upstreams
  PROVE  /\ TimerAfterDeath(u) \in [Upstreams -> Attempt \cup {NoTimer}]
         /\ \A v \in Upstreams \ {u} : TimerAfterDeath(u)[v] = timer[v]
         /\ timer[u] # NoTimer => TimerAfterDeath(u)[u] # NoTimer
         /\ u \in Enabled /\ ~closed /\ attempts[u] = {} => TimerAfterDeath(u)[u] # NoTimer
<1>1. timer \in [Upstreams -> Attempt \cup {NoTimer}] /\ 0 \in Attempt
  BY SMT DEF TypeOK, Attempt
<1>2. CASE attempts[u] # {}
  BY <1>1, <1>2 DEF TimerAfterDeath
<1>3. CASE attempts[u] = {}
  BY <1>1, <1>3, ScheduleFacts DEF TimerAfterDeath
<1> QED BY <1>2, <1>3

LEMMA DeathWhileListingInv ==
  ASSUME IInv, NEW u \in Upstreams, DeathWhileListing(u)
  PROVE  IInv'
<1>1. ~closed /\ connect[u].stage # "none" /\ notified' \in BOOLEAN
  BY SMT DEF IInv, TypeOK, DeathWhileListing, Signal, NothingLeft, NoConnect, RelayedByDiscard
<1>2. TypeOK
  BY DEF IInv
<1> QED BY <1>1, <1>2, TimerAfterDeathFacts, RejectInv DEF DeathWhileListing

LEMMA DeathOfLiveInv ==
  ASSUME IInv, NEW u \in Upstreams, DeathOfLive(u)
  PROVE  IInv'
<1> USE DEF IInv, DeathOfLive, Discard, connVars, retryVars, bootVars, viewVars
<1>0. /\ timer' \in [Upstreams -> Attempt \cup {NoTimer}]
      /\ \A v \in Upstreams \ {u} : timer'[v] = timer[v]
      /\ u \in Enabled => timer'[u] # NoTimer
  BY TimerAfterDeathFacts, SMT DEF ConnectShape, Connecting, NothingLeft, Alive
<1>a. notified' \in BOOLEAN /\ ~closed
  BY SMT DEF TypeOK, Signal, RelayedByDiscard, NothingLeft, Alive
<1>1. TypeOK'
  <2>1. /\ cached' \in [Upstreams -> Clients \cup {NoClient}]
        /\ open' \in [Upstreams -> SUBSET Clients]
        /\ established' \in [Upstreams -> SUBSET Clients]
    BY SMT DEF TypeOK
  <2>2. tools' \in SUBSET Upstreams /\ refreshing' \in SUBSET Upstreams
    BY SMT DEF TypeOK
  <2> QED BY <1>0, <1>a, <2>1, <2>2 DEF TypeOK
<1>2. NoOrphan'
  BY SMT DEF NoOrphan, TypeOK
<1>3. InFlightIntact'
  BY SMT DEF InFlightIntact, NoOrphan, TypeOK, NoConnect
<1>4. NoWedge'
  BY <1>0, SMT DEF NoWedge, TypeOK, Ready, Alive, ConnectShape, Connecting, NoConnect, InFlightIntact, NothingLeft
<1>5. BatchKeepsAccount'
  BY <1>0, SMT DEF BatchKeepsAccount, TypeOK, Unserved, Ready, Alive, ConnectShape, Connecting, NoConnect, InFlightIntact, NothingLeft
<1>6. ConnectShape'
  BY <1>0, SMT DEF ConnectShape, TypeOK, Connecting, NoConnect, NothingLeft
<1>7. NothingLeft'
  BY <1>0, <1>a, SMT DEF NothingLeft, TypeOK, NoConnect, ConnectShape, Alive
<1> QED BY <1>1, <1>2, <1>3, <1>4, <1>5, <1>6, <1>7

LEMMA AttemptJoinsInv ==
  ASSUME IInv, NEW u \in Upstreams, AttemptJoins(u)
  PROVE  IInv'
<1> USE DEF IInv, AttemptJoins, Fired, connVars, retryVars, bootVars, viewVars
<1>0. /\ attempts'[u] # {}
      /\ \A v \in Upstreams \ {u} : attempts'[v] = attempts[v] /\ timer'[v] = timer[v]
  BY SMT DEF TypeOK
<1>1. TypeOK'
  BY SMT DEF TypeOK, Stage, Owner, NoConnect, Signal, InFlightIntact
<1>2. NoOrphan'
  BY SMT DEF NoOrphan, TypeOK
<1>3. InFlightIntact'
  BY SMT DEF InFlightIntact, NoOrphan, TypeOK, NoConnect
<1>4. NoWedge'
  BY <1>0, SMT DEF NoWedge, Ready, Alive
<1>5. BatchKeepsAccount'
  BY <1>0, SMT DEF BatchKeepsAccount, Unserved, Ready, Alive
<1>6. ConnectShape'
  BY SMT DEF ConnectShape, TypeOK, Connecting, NoConnect, NothingLeft
<1>7. NothingLeft'
  BY SMT DEF NothingLeft, TypeOK, NoConnect, ConnectShape
<1> QED BY <1>1, <1>2, <1>3, <1>4, <1>5, <1>6, <1>7

LEMMA AttemptFindsLiveInv ==
  ASSUME IInv, NEW u \in Upstreams, AttemptFindsLive(u)
  PROVE  IInv'
<1> USE DEF IInv, AttemptFindsLive, Fired, connVars, retryVars, bootVars, viewVars
<1>0. /\ Ready(u)
      /\ \A v \in Upstreams \ {u} : timer'[v] = timer[v]
  BY SMT DEF TypeOK, ConnectShape, Connecting, Ready, Owner
<1>1. TypeOK'
  BY SMT DEF TypeOK, Stage, Owner, NoConnect, Signal, InFlightIntact
<1>2. NoOrphan'
  BY SMT DEF NoOrphan, TypeOK
<1>3. InFlightIntact'
  BY SMT DEF InFlightIntact, NoOrphan, TypeOK, NoConnect
<1>4. NoWedge'
  BY <1>0, SMT DEF NoWedge, Ready, Alive
<1>5. BatchKeepsAccount'
  BY <1>0, SMT DEF BatchKeepsAccount, Unserved, Ready, Alive
<1>6. ConnectShape'
  BY SMT DEF ConnectShape, TypeOK, Connecting, NoConnect, NothingLeft
<1>7. NothingLeft'
  BY SMT DEF NothingLeft, TypeOK, NoConnect, ConnectShape
<1> QED BY <1>1, <1>2, <1>3, <1>4, <1>5, <1>6, <1>7

(* Starting a connect, provided u is then accounted for. *)
LEMMA SpawnInv ==
  ASSUME IInv, NEW u \in Upstreams, NEW k \in Clients, NEW owner \in {"ensure", "reconnect"},
         Spawn(u, k, owner), ~closed, closed' = closed,
         boot # "cold" => boot' = boot, boot = "cold" => boot' = "never",
         bootFailed' = bootFailed,
         attempts' \in [Upstreams -> SUBSET Attempt],
         timer' \in [Upstreams -> Attempt \cup {NoTimer}],
         \A v \in Upstreams \ {u} : attempts'[v] = attempts[v] /\ timer'[v] = timer[v],
         boot # "cold" /\ timer'[u] = NoTimer /\ attempts'[u] = {} => owner = "reconnect",
         notified' \in BOOLEAN, fetched' \in BOOLEAN, shown' \in SUBSET Upstreams
  PROVE  IInv'
<1> USE DEF Spawn
<1>1. /\ connect'[u] = [stage |-> "handshake", owner |-> owner]
      /\ cached'[u] = k
      /\ k \in open'[u] /\ established'[u] = {}
      /\ open'[u] \subseteq {k}
      /\ \A v \in Upstreams \ {u} : /\ connect'[v] = connect[v] /\ cached'[v] = cached[v]
                                    /\ open'[v] = open[v] /\ established'[v] = established[v]
  BY SMT DEF IInv, TypeOK, NoOrphan, InFlightIntact
<1>2. TypeOK'
  <2>1. connect' \in [Upstreams -> [stage : Stage, owner : Owner]]
    BY SMT DEF Stage, Owner, IInv, TypeOK
  <2>2. /\ cached' \in [Upstreams -> Clients \cup {NoClient}]
        /\ open' \in [Upstreams -> SUBSET Clients]
        /\ established' \in [Upstreams -> SUBSET Clients]
    BY SMT DEF IInv, TypeOK
  <2>3. /\ closed' \in BOOLEAN /\ boot' \in {"cold", "batch", "done", "never"}
        /\ bootFailed' \in SUBSET Upstreams
    BY DEF IInv, TypeOK
  <2>4. tools' \in SUBSET Upstreams /\ refreshing' \in SUBSET Upstreams
    BY SMT DEF IInv, TypeOK
  <2> QED BY <2>1, <2>2, <2>3, <2>4 DEF TypeOK
<1> HIDE DEF Spawn
<1>3. NoOrphan'
  BY <1>1, SMT DEF IInv, NoOrphan
<1>4. InFlightIntact'
  BY <1>1, SMT DEF IInv, InFlightIntact
<1>5. NoWedge' /\ BatchKeepsAccount'
  BY <1>1, SMT DEF IInv, NoWedge, BatchKeepsAccount, Unserved, Ready, Alive
<1>6. ConnectShape'
  <2>1. \A v \in Upstreams : connect[v].owner = "boot" => boot' = boot
    BY DEF IInv, NothingLeft, NoConnect
  <2> QED BY <1>1, <2>1, SMT DEF IInv, ConnectShape, Connecting
<1>7. NothingLeft'
  <2>1. ~closed' /\ boot' # "cold"
    OBVIOUS
  <2> QED BY <2>1 DEF NothingLeft
<1> QED BY <1>2, <1>3, <1>4, <1>5, <1>6, <1>7 DEF IInv

LEMMA AttemptSpawnsInv ==
  ASSUME IInv, NEW u \in Upstreams, AttemptSpawns(u)
  PROVE  IInv'
<1>1. PICK k \in Clients : Spawn(u, k, "ensure")
  BY DEF AttemptSpawns
<1>2. /\ attempts' \in [Upstreams -> SUBSET Attempt]
      /\ attempts'[u] # {}
      /\ \A v \in Upstreams \ {u} : attempts'[v] = attempts[v]
  BY SMT DEF IInv, TypeOK, AttemptSpawns, Fired
<1>3. /\ timer' \in [Upstreams -> Attempt \cup {NoTimer}]
      /\ \A v \in Upstreams \ {u} : timer'[v] = timer[v]
  BY DEF IInv, TypeOK, AttemptSpawns, Fired
<1>4. boot # "cold" /\ ~closed
  BY DEF IInv, NothingLeft, AttemptSpawns, Fired
<1>5. /\ closed' = closed /\ boot' = boot /\ bootFailed' = bootFailed
      /\ notified' \in BOOLEAN /\ fetched' \in BOOLEAN /\ shown' \in SUBSET Upstreams
  BY DEF IInv, TypeOK, AttemptSpawns, bootVars, viewVars
<1> QED BY <1>1, <1>2, <1>3, <1>4, <1>5, SpawnInv

LEMMA DiscoverInv ==
  ASSUME IInv, NEW u \in Upstreams, Discover(u)
  PROVE  IInv'
<1>1. PICK k \in Clients : Spawn(u, k, "ensure")
  BY DEF Discover
<1>2. /\ attempts' \in [Upstreams -> SUBSET Attempt] /\ attempts' = attempts
      /\ timer' \in [Upstreams -> Attempt \cup {NoTimer}] /\ timer' = timer
      /\ notified' \in BOOLEAN /\ fetched' \in BOOLEAN /\ shown' \in SUBSET Upstreams
      /\ ~closed /\ closed' = closed /\ boot = "cold" /\ boot' = "never" /\ bootFailed' = bootFailed
  BY DEF IInv, TypeOK, Discover, retryVars, viewVars
<1> QED BY <1>1, <1>2, SpawnInv

(* Dropping whatever u had, when no connect of u is in flight and an       *)
(* enabled u has a timer afterwards (a connect refused before it spawned). *)
LEMMA RefusedInv ==
  ASSUME IInv, NEW u \in Upstreams, ~closed, Refused(u), connect[u].stage = "none",
         closed' = closed, boot' = boot, bootFailed' = bootFailed, attempts' = attempts,
         timer' \in [Upstreams -> Attempt \cup {NoTimer}],
         \A v \in Upstreams \ {u} : timer'[v] = timer[v],
         u \in Enabled => timer'[u] # NoTimer,
         boot # "cold",
         notified' \in BOOLEAN, fetched' \in BOOLEAN, shown' \in SUBSET Upstreams
  PROVE  IInv'
<1> USE DEF Refused, Discard
<1>1. /\ cached'[u] = NoClient /\ connect' = connect
      /\ \A v \in Upstreams \ {u} : cached'[v] = cached[v] /\ established'[v] = established[v]
      /\ open'[u] = {} /\ established'[u] = {}
      /\ \A v \in Upstreams \ {u} : open'[v] = open[v]
  BY SMT DEF IInv, TypeOK, NoOrphan, InFlightIntact
<1>2. TypeOK'
  <2>1. /\ cached' \in [Upstreams -> Clients \cup {NoClient}]
        /\ open' \in [Upstreams -> SUBSET Clients]
        /\ established' \in [Upstreams -> SUBSET Clients]
    BY SMT DEF IInv, TypeOK
  <2>2. tools' \in SUBSET Upstreams /\ refreshing' \in SUBSET Upstreams
    BY SMT DEF IInv, TypeOK
  <2> QED BY <1>1, <2>1, <2>2 DEF IInv, TypeOK
<1> HIDE DEF Refused, Discard
<1>3. NoOrphan'
  BY <1>1, SMT DEF IInv, NoOrphan
<1>4. InFlightIntact'
  BY <1>1, SMT DEF IInv, InFlightIntact
<1>5. NoWedge' /\ BatchKeepsAccount'
  BY <1>1, SMT DEF IInv, NoWedge, BatchKeepsAccount, Unserved, Ready, Alive
<1>6. ConnectShape'
  <2>1. connect[u].owner = "none"
    BY DEF IInv, ConnectShape
  <2> QED BY <1>1, <2>1, SMT DEF IInv, ConnectShape, Connecting
<1>7. NothingLeft'
  BY SMT DEF NothingLeft
<1> QED BY <1>2, <1>3, <1>4, <1>5, <1>6, <1>7 DEF IInv

(* A refused retry or reconnect() leaves its upstream a timer. *)
LEMMA RescheduleFacts ==
  ASSUME ~closed, NEW u \in Upstreams, NEW n \in Attempt,
         NEW cleared \in [Upstreams -> Attempt \cup {NoTimer}],
         \A v \in Upstreams \ {u} : cleared[v] = timer[v],
         timer' = Schedule(cleared, u, n)
  PROVE  /\ timer' \in [Upstreams -> Attempt \cup {NoTimer}]
         /\ \A v \in Upstreams \ {u} : timer'[v] = timer[v]
         /\ u \in Enabled => timer'[u] # NoTimer
BY ScheduleFacts

LEMMA AttemptRefusedInv ==
  ASSUME IInv, NEW u \in Upstreams, AttemptRefused(u)
  PROVE  IInv'
<1>1. TypeOK /\ ~closed /\ Refused(u) /\ timer[u] \in Attempt
  BY DEF IInv, TypeOK, AttemptRefused
<1>2. boot # "cold" /\ connect[u].stage = "none"
  BY SMT DEF IInv, TypeOK, NothingLeft, ConnectShape, Connecting, Owner, AttemptRefused
<1>3. timer' = Schedule([timer EXCEPT ![u] = NoTimer], u, NextAttempt(timer[u]))
  BY DEF AttemptRefused
<1>4. NextAttempt(timer[u]) \in Attempt
  BY <1>1, NextAttemptType
<1>5. /\ closed' = closed /\ boot' = boot /\ bootFailed' = bootFailed /\ attempts' = attempts
      /\ notified' \in BOOLEAN /\ fetched' \in BOOLEAN /\ shown' \in SUBSET Upstreams
  BY <1>1 DEF TypeOK, AttemptRefused, bootVars, viewVars
<1>6. /\ timer' \in [Upstreams -> Attempt \cup {NoTimer}]
      /\ \A v \in Upstreams \ {u} : timer'[v] = timer[v]
      /\ u \in Enabled => timer'[u] # NoTimer
  <2> DEFINE cleared == [timer EXCEPT ![u] = NoTimer]
  <2>1. cleared \in [Upstreams -> Attempt \cup {NoTimer}] /\ \A v \in Upstreams \ {u} : cleared[v] = timer[v]
    BY <1>1 DEF TypeOK
  <2>2. timer' = Schedule(cleared, u, NextAttempt(timer[u]))
    BY <1>3
  <2> HIDE DEF cleared
  <2> QED BY <1>1, <1>4, <2>1, <2>2, RescheduleFacts
<1> QED BY <1>1, <1>2, <1>5, <1>6, RefusedInv

LEMMA KickInv ==
  ASSUME IInv, NEW u \in Upstreams, Kick(u)
  PROVE  IInv'
<1>1. /\ ~closed /\ closed' = closed /\ boot = "done" /\ boot' = boot /\ bootFailed' = bootFailed
      /\ attempts' = attempts /\ timer' = timer
      /\ notified' \in BOOLEAN /\ fetched' \in BOOLEAN /\ shown' \in SUBSET Upstreams
      /\ attempts' \in [Upstreams -> SUBSET Attempt]
      /\ timer' \in [Upstreams -> Attempt \cup {NoTimer}]
  BY DEF IInv, TypeOK, Kick, bootVars, retryVars, viewVars
<1>2. connect[u].stage = "none" /\ attempts[u] = {}
  BY SMT DEF IInv, TypeOK, ConnectShape, Connecting, Owner, Kick
<1>3. timer[u] # NoTimer
  BY <1>1, <1>2, SMT DEF IInv, ConnectShape, NoWedge, Ready, Kick
<1>4. CASE \E k \in Clients : Spawn(u, k, "ensure")
  BY <1>1, <1>3, <1>4, SpawnInv
<1>5. CASE Refused(u)
  BY <1>1, <1>2, <1>3, <1>5, RefusedInv
<1> QED BY <1>4, <1>5 DEF Kick

LEMMA ReconnectInv ==
  ASSUME IInv, NEW u \in Upstreams, Reconnect(u)
  PROVE  IInv'
<1>1. /\ TypeOK /\ ~closed /\ closed' = closed /\ boot = "done" /\ boot' = boot
      /\ bootFailed' = bootFailed /\ attempts' = attempts
      /\ attempts' \in [Upstreams -> SUBSET Attempt]
      /\ shown' \in SUBSET Upstreams /\ fetched' = FALSE
  BY DEF IInv, TypeOK, Reconnect, bootVars
<1>2. fetched' \in BOOLEAN
  BY <1>1
<1>3. notified' \in BOOLEAN
  BY <1>1, SMT DEF TypeOK, Reconnect, Signal, RelayedByDiscard
<1>4. connect[u].stage = "none"
  BY SMT DEF IInv, TypeOK, ConnectShape, Connecting, Owner, Reconnect
<1>5. CASE u \in Enabled /\ UNCHANGED timer /\ \E k \in Clients : Spawn(u, k, "reconnect")
  <2>1. timer' \in [Upstreams -> Attempt \cup {NoTimer}] /\ timer' = timer
    BY <1>1, <1>5 DEF TypeOK
  <2> QED BY <1>1, <1>2, <1>3, <1>5, <2>1, SpawnInv
<1>6. CASE Refused(u) /\ timer' = Schedule([timer EXCEPT ![u] = NoTimer], u, 0)
  <2>1. 0 \in Attempt
    BY SMT DEF Attempt
  <2>2. /\ timer' \in [Upstreams -> Attempt \cup {NoTimer}]
        /\ \A v \in Upstreams \ {u} : timer'[v] = timer[v]
        /\ u \in Enabled => timer'[u] # NoTimer
    <3> DEFINE cleared == [timer EXCEPT ![u] = NoTimer]
    <3>1. cleared \in [Upstreams -> Attempt \cup {NoTimer}] /\ \A v \in Upstreams \ {u} : cleared[v] = timer[v]
      BY <1>1 DEF TypeOK
    <3>2. timer' = Schedule(cleared, u, 0)
      BY <1>6
    <3> HIDE DEF cleared
    <3> QED BY <1>1, <2>1, <3>1, <3>2, RescheduleFacts
  <2> QED BY <1>1, <1>2, <1>3, <1>4, <1>6, <2>2, RefusedInv
<1> QED BY <1>5, <1>6 DEF Reconnect

LEMMA ListChangedInv ==
  ASSUME IInv, NEW u \in Upstreams, ListChanged(u)
  PROVE  IInv'
<1> USE DEF IInv, ListChanged, Signal, connVars, retryVars, bootVars, viewVars
<1>1. TypeOK'
  BY SMT DEF TypeOK, Stage, Owner, NoConnect, Signal, InFlightIntact
<1>2. NoOrphan'
  BY SMT DEF NoOrphan, TypeOK
<1>3. InFlightIntact'
  BY SMT DEF InFlightIntact, NoOrphan, TypeOK, NoConnect
<1>4. NoWedge'
  BY SMT DEF NoWedge, TypeOK, Ready, Alive, ConnectShape, Connecting, NoConnect, InFlightIntact, NothingLeft
<1>5. BatchKeepsAccount'
  BY SMT DEF BatchKeepsAccount, TypeOK, Unserved, Ready, Alive, ConnectShape, Connecting, NoConnect, InFlightIntact, NothingLeft
<1>6. ConnectShape'
  BY SMT DEF ConnectShape, TypeOK, Connecting, NoConnect, NothingLeft
<1>7. NothingLeft'
  BY SMT DEF NothingLeft, TypeOK, NoConnect, ConnectShape
<1> QED BY <1>1, <1>2, <1>3, <1>4, <1>5, <1>6, <1>7

LEMMA StrayListChangedInv ==
  ASSUME IInv, NEW u \in Upstreams, StrayListChanged(u)
  PROVE  IInv'
<1> USE DEF IInv, StrayListChanged, Signal, connVars, retryVars, bootVars, viewVars
<1>1. TypeOK'
  BY SMT DEF TypeOK, Stage, Owner, NoConnect, Signal, InFlightIntact
<1>2. NoOrphan'
  BY SMT DEF NoOrphan, TypeOK
<1>3. InFlightIntact'
  BY SMT DEF InFlightIntact, NoOrphan, TypeOK, NoConnect
<1>4. NoWedge'
  BY SMT DEF NoWedge, TypeOK, Ready, Alive, ConnectShape, Connecting, NoConnect, InFlightIntact, NothingLeft
<1>5. BatchKeepsAccount'
  BY SMT DEF BatchKeepsAccount, TypeOK, Unserved, Ready, Alive, ConnectShape, Connecting, NoConnect, InFlightIntact, NothingLeft
<1>6. ConnectShape'
  BY SMT DEF ConnectShape, TypeOK, Connecting, NoConnect, NothingLeft
<1>7. NothingLeft'
  BY SMT DEF NothingLeft, TypeOK, NoConnect, ConnectShape
<1> QED BY <1>1, <1>2, <1>3, <1>4, <1>5, <1>6, <1>7

LEMMA RefreshOkInv ==
  ASSUME IInv, NEW u \in Upstreams, RefreshOk(u)
  PROVE  IInv'
<1> USE DEF IInv, RefreshOk, Signal, connVars, retryVars, bootVars, viewVars
<1>1. TypeOK'
  BY SMT DEF TypeOK, Stage, Owner, NoConnect, Signal, InFlightIntact
<1>2. NoOrphan'
  BY SMT DEF NoOrphan, TypeOK
<1>3. InFlightIntact'
  BY SMT DEF InFlightIntact, NoOrphan, TypeOK, NoConnect
<1>4. NoWedge'
  BY SMT DEF NoWedge, TypeOK, Ready, Alive, ConnectShape, Connecting, NoConnect, InFlightIntact, NothingLeft
<1>5. BatchKeepsAccount'
  BY SMT DEF BatchKeepsAccount, TypeOK, Unserved, Ready, Alive, ConnectShape, Connecting, NoConnect, InFlightIntact, NothingLeft
<1>6. ConnectShape'
  BY SMT DEF ConnectShape, TypeOK, Connecting, NoConnect, NothingLeft
<1>7. NothingLeft'
  BY SMT DEF NothingLeft, TypeOK, NoConnect, ConnectShape
<1> QED BY <1>1, <1>2, <1>3, <1>4, <1>5, <1>6, <1>7

LEMMA RefreshFailInv ==
  ASSUME IInv, NEW u \in Upstreams, RefreshFail(u)
  PROVE  IInv'
<1> USE DEF IInv, RefreshFail, Signal, connVars, retryVars, bootVars, viewVars
<1>1. TypeOK'
  BY SMT DEF TypeOK, Stage, Owner, NoConnect, Signal, InFlightIntact
<1>2. NoOrphan'
  BY SMT DEF NoOrphan, TypeOK
<1>3. InFlightIntact'
  BY SMT DEF InFlightIntact, NoOrphan, TypeOK, NoConnect
<1>4. NoWedge'
  BY SMT DEF NoWedge, TypeOK, Ready, Alive, ConnectShape, Connecting, NoConnect, InFlightIntact, NothingLeft
<1>5. BatchKeepsAccount'
  BY SMT DEF BatchKeepsAccount, TypeOK, Unserved, Ready, Alive, ConnectShape, Connecting, NoConnect, InFlightIntact, NothingLeft
<1>6. ConnectShape'
  BY SMT DEF ConnectShape, TypeOK, Connecting, NoConnect, NothingLeft
<1>7. NothingLeft'
  BY SMT DEF NothingLeft, TypeOK, NoConnect, ConnectShape
<1> QED BY <1>1, <1>2, <1>3, <1>4, <1>5, <1>6, <1>7

LEMMA FetchToolsInv ==
  ASSUME IInv, FetchTools
  PROVE  IInv'
<1> USE DEF IInv, FetchTools, Advertised, connVars, retryVars, bootVars, viewVars
<1>1. TypeOK'
  <2>1. shown' \in SUBSET Upstreams
    BY TopLevelAssumption
  <2>2. fetched' \in BOOLEAN /\ notified' \in BOOLEAN
    BY Zenon
  <2>3. UNCHANGED <<closed, boot, bootFailed, cached, open, established, connect,
                    attempts, timer, tools, refreshing>>
    OBVIOUS
  <2> QED BY <2>1, <2>2, <2>3 DEF TypeOK
<1>2. NoOrphan'
  BY SMT DEF NoOrphan, TypeOK
<1>3. InFlightIntact'
  BY SMT DEF InFlightIntact, NoOrphan, TypeOK, NoConnect
<1>4. NoWedge'
  BY SMT DEF NoWedge, TypeOK, Ready, Alive, ConnectShape, Connecting, NoConnect, InFlightIntact, NothingLeft
<1>5. BatchKeepsAccount'
  BY SMT DEF BatchKeepsAccount, TypeOK, Unserved, Ready, Alive, ConnectShape, Connecting, NoConnect, InFlightIntact, NothingLeft
<1>6. ConnectShape'
  BY SMT DEF ConnectShape, TypeOK, Connecting, NoConnect, NothingLeft
<1>7. NothingLeft'
  BY SMT DEF NothingLeft, TypeOK, NoConnect, ConnectShape
<1> QED BY <1>1, <1>2, <1>3, <1>4, <1>5, <1>6, <1>7

LEMMA CloseAllInv ==
  ASSUME IInv, CloseAll
  PROVE  IInv'
<1> USE DEF IInv, CloseAll, connVars, retryVars, bootVars, viewVars
<1>1. TypeOK'
  BY SMT DEF TypeOK, Stage, Owner, NoConnect, Signal, InFlightIntact
<1>2. NoOrphan'
  BY SMT DEF NoOrphan, TypeOK
<1>3. InFlightIntact'
  BY SMT DEF InFlightIntact, NoOrphan, TypeOK, NoConnect
<1>4. NoWedge'
  BY SMT DEF NoWedge, TypeOK, Ready, Alive, ConnectShape, Connecting, NoConnect, InFlightIntact, NothingLeft
<1>5. BatchKeepsAccount'
  BY SMT DEF BatchKeepsAccount, TypeOK, Unserved, Ready, Alive, ConnectShape, Connecting, NoConnect, InFlightIntact, NothingLeft
<1>6. ConnectShape'
  BY SMT DEF ConnectShape, TypeOK, Connecting, NoConnect, NothingLeft
<1>7. NothingLeft'
  BY SMT DEF NothingLeft, TypeOK, NoConnect, ConnectShape
<1> QED BY <1>1, <1>2, <1>3, <1>4, <1>5, <1>6, <1>7

LEMMA ConnectAllInv ==
  ASSUME IInv, ConnectAll
  PROVE  IInv'
<1> USE DEF IInv, ConnectAll, connVars, retryVars, bootVars, viewVars
<1>1. PICK refused \in SUBSET Enabled, k \in Clients :
        /\ bootFailed' = refused
        /\ cached' = [u \in Upstreams |-> IF u \in Enabled \ refused THEN k ELSE NoClient]
        /\ open' = [u \in Upstreams |-> IF u \in Enabled \ refused THEN {k} ELSE {}]
        /\ connect' = [u \in Upstreams |->
             IF u \in Enabled \ refused THEN [stage |-> "handshake", owner |-> "boot"]
                                       ELSE NoConnect]
  OBVIOUS
<1>2. \A u \in Upstreams : established[u] = {}
  BY SMT DEF NothingLeft, NoOrphan, InFlightIntact, TypeOK
<1>3. TypeOK'
  <2>1. /\ connect' \in [Upstreams -> [stage : Stage, owner : Owner]]
        /\ cached' \in [Upstreams -> Clients \cup {NoClient}]
        /\ open' \in [Upstreams -> SUBSET Clients]
        /\ bootFailed' \in SUBSET Upstreams
    BY <1>1 DEF Stage, Owner, NoConnect
  <2> QED BY <2>1 DEF TypeOK
<1>4. NoOrphan'
  BY <1>1 DEF NoOrphan
<1>5. InFlightIntact'
  <2> SUFFICES ASSUME NEW u \in Upstreams
               PROVE  InFlightIntact!(u)'
    BY DEF InFlightIntact
  <2>1. CASE u \in Enabled \ refused
    BY <1>1, <1>2, <2>1
  <2>2. CASE u \notin Enabled \ refused
    BY <1>1, <1>2, <2>2 DEF NoConnect
  <2> QED BY <2>1, <2>2
<1>6. NoWedge'
  BY DEF NoWedge
<1>7. BatchKeepsAccount'
  BY <1>1 DEF BatchKeepsAccount
<1>8. ConnectShape'
  BY <1>1, SMT DEF ConnectShape, NothingLeft, NoConnect, Connecting
<1>9. NothingLeft'
  BY DEF NothingLeft
<1> QED BY <1>3, <1>4, <1>5, <1>6, <1>7, <1>8, <1>9

(* The batch is over: what failed gets a timer, the rest was accounted for *)
(* already.                                                                *)
LEMMA BatchEndInv ==
  ASSUME IInv, BatchEnd
  PROVE  IInv'
<1> USE DEF IInv
<1>0. /\ BatchSettled /\ boot = "batch" /\ boot' = "done" /\ bootFailed' = {}
      /\ UNCHANGED <<closed, cached, open, established, connect, tools, refreshing,
                     attempts, notified, fetched, shown>>
  BY DEF BatchEnd, BatchSettled, connVars, viewVars
<1>1. timer' = [u \in Upstreams |-> IF u \in bootFailed THEN Schedule(timer, u, 0)[u] ELSE timer[u]]
  BY DEF BatchEnd
<1>2. 0 \in Attempt /\ timer \in [Upstreams -> Attempt \cup {NoTimer}]
  BY SMT DEF Attempt, TypeOK
<1>3. \A u \in Upstreams : /\ Schedule(timer, u, 0)[u] \in Attempt \cup {NoTimer}
                           /\ timer[u] # NoTimer => Schedule(timer, u, 0)[u] # NoTimer
                           /\ u \in Enabled /\ ~closed => Schedule(timer, u, 0)[u] # NoTimer
                           /\ closed => Schedule(timer, u, 0)[u] = timer[u]
  BY <1>2, ScheduleFacts
<1>4. /\ timer' \in [Upstreams -> Attempt \cup {NoTimer}]
      /\ \A u \in Upstreams : /\ timer[u] # NoTimer => timer'[u] # NoTimer
                              /\ u \in Enabled \cap bootFailed /\ ~closed => timer'[u] # NoTimer
                              /\ closed => timer'[u] = timer[u]
  BY <1>1, <1>2, <1>3
<1>5. TypeOK'
  BY <1>0, <1>4 DEF TypeOK
<1>6. NoOrphan' /\ InFlightIntact'
  BY <1>0 DEF NoOrphan, InFlightIntact
<1>7. NoWedge'
  <2> SUFFICES ASSUME ~closed, NEW u \in Enabled
               PROVE  (Ready(u) \/ timer[u] # NoTimer \/ attempts[u] # {} \/ connect[u].owner = "reconnect")'
    BY <1>0 DEF NoWedge
  <2>1. u \in Upstreams /\ connect[u].owner # "boot" /\ boot = "batch" /\ ~closed
    BY <1>0, EnabledAssumption DEF BatchSettled
  <2>2. CASE u \in bootFailed
    <3>1. timer'[u] # NoTimer
      BY <1>4, <2>1, <2>2
    <3> QED BY <3>1
  <2>3. CASE u \notin bootFailed
    <3>1. ~Unserved(u)
      BY <2>1, <2>3 DEF BatchKeepsAccount
    <3>2. Ready(u) \/ timer'[u] # NoTimer \/ attempts[u] # {} \/ connect[u].owner = "reconnect"
      BY <1>4, <2>1, <3>1 DEF Unserved
    <3>3. Ready(u) => Ready(u)'
      BY <1>0 DEF Ready, Alive
    <3> QED BY <1>0, <3>2, <3>3
  <2> QED BY <2>2, <2>3
<1>8. BatchKeepsAccount'
  BY <1>0 DEF BatchKeepsAccount
<1>9. ConnectShape'
  BY <1>0 DEF ConnectShape, Connecting, BatchSettled
<1>10. NothingLeft'
  <2>1. closed => \A u \in Upstreams : timer'[u] = NoTimer
    BY <1>4 DEF NothingLeft
  <2> QED BY <1>0, <2>1 DEF NothingLeft
<1> QED BY <1>5, <1>6, <1>7, <1>8, <1>9, <1>10

(* A step that changes nothing. *)
LEMMA StutterInv ==
  ASSUME IInv, UNCHANGED vars
  PROVE  IInv'
BY DEF IInv, vars, connVars, retryVars, bootVars, viewVars, TypeOK, NoOrphan, InFlightIntact,
   NoWedge, BatchKeepsAccount, ConnectShape, NothingLeft, Unserved, Ready, Alive, Connecting

LEMMA NextInv == IInv /\ [Next]_vars => IInv'
<1> SUFFICES ASSUME IInv, [Next]_vars PROVE IInv'
  OBVIOUS
<1>1. CASE ConnectAll
  BY <1>1, ConnectAllInv
<1>2. CASE BatchEnd
  BY <1>2, BatchEndInv
<1>3. CASE FetchTools
  BY <1>3, FetchToolsInv
<1>4. CASE CloseAll
  BY <1>4, CloseAllInv
<1>5. ASSUME NEW u \in Upstreams, ConnectSettles(u) PROVE IInv'
  BY <1>5, HandshakeOkInv, ListOkInv, ConnectFailInv DEF ConnectSettles
<1>6. ASSUME NEW u \in Upstreams, Death(u) PROVE IInv'
  BY <1>6, DeathOfLiveInv, DeathWhileListingInv DEF Death
<1>7. ASSUME NEW u \in Upstreams, TimerFires(u) PROVE IInv'
  BY <1>7, AttemptJoinsInv, AttemptFindsLiveInv, AttemptSpawnsInv, AttemptRefusedInv DEF TimerFires
<1>8. ASSUME NEW u \in Upstreams, Relist(u) PROVE IInv'
  BY <1>8, ListChangedInv, StrayListChangedInv, RefreshOkInv, RefreshFailInv DEF Relist
<1>9. ASSUME NEW u \in Upstreams, Kick(u) \/ Discover(u) \/ Reconnect(u) PROVE IInv'
  BY <1>9, KickInv, DiscoverInv, ReconnectInv
<1>10. CASE UNCHANGED vars
  BY <1>10, StutterInv
<1> QED BY <1>1, <1>2, <1>3, <1>4, <1>5, <1>6, <1>7, <1>8, <1>9, <1>10 DEF Next

(* The strengthening holds in every reachable state. *)
THEOREM Invariant == Spec => []IInv
<1>1. Init => IInv
  BY InitInv
<1>2. IInv /\ [Next]_vars => IInv'
  BY NextInv
<1> QED BY <1>1, <1>2, PTL DEF Spec

-----------------------------------------------------------------------------
(* What follows for every reachable state.                                 *)

(* The variables keep the types the code gives them. *)
THEOREM TypeCorrect == Spec => []TypeOK
BY Invariant, PTL DEF IInv

(* No child process is ever out of the aggregator's reach (connectAll,     *)
(* ensureConnected, reconnect and _discard, in any interleaving).          *)
THEOREM NoOrphanHolds == Spec => []NoOrphan
BY Invariant, PTL DEF IInv

(* Nobody closes a half-built client under the caller that awaits it. *)
THEOREM InFlightIntactHolds == Spec => []InFlightIntact
BY Invariant, PTL DEF IInv

(* After startup an enabled upstream is served or has somebody working on  *)
(* it: the failure paths of connectAll, _scheduleReconnect and reconnect   *)
(* never leave it without client, connect and timer at once.               *)
THEOREM NoWedgeHolds == Spec => []NoWedge
BY Invariant, PTL DEF IInv

(* closeAll leaves no child, timer or tool behind, whatever was in flight. *)
THEOREM ClosedIsQuietHolds == Spec => []ClosedIsQuiet
<1>1. IInv => ClosedIsQuiet
  BY DEF IInv, ClosedIsQuiet, NothingLeft, NoOrphan, TypeOK
<1> QED BY <1>1, Invariant, PTL

(* ... and no later callback revives anything on the closed instance. *)
THEOREM ClosedIsFinalHolds == Spec => ClosedIsFinal
<1>1. ASSUME IInv, closed, [Next]_vars
      PROVE  closed' /\ UNCHANGED <<connVars, retryVars>>
  <2>1. CASE UNCHANGED vars
    BY <1>1, <2>1 DEF vars
  <2>2. CASE BatchEnd
    <3>1. timer \in [Upstreams -> Attempt \cup {NoTimer}] /\ 0 \in Attempt
      BY <1>1, SMT DEF IInv, TypeOK, Attempt
    <3>2. \A u \in Upstreams : Schedule(timer, u, 0) = timer
      BY <1>1, <3>1, ScheduleFacts
    <3>3. timer' = [u \in Upstreams |-> timer[u]]
      BY <2>2, <3>2 DEF BatchEnd
    <3> QED BY <1>1, <2>2, <3>1, <3>3 DEF BatchEnd, retryVars
  <2>3. ASSUME NEW u \in Upstreams, Relist(u)
        PROVE  closed' /\ UNCHANGED <<connVars, retryVars>>
    BY <1>1, <2>3 DEF IInv, NothingLeft, Relist, ListChanged, StrayListChanged, RefreshOk, RefreshFail
  <2>4. ASSUME NEW u \in Upstreams, ConnectSettles(u) \/ Death(u) PROVE FALSE
    <3>1. connect[u].stage = "none" /\ ~Alive(u)
      BY <1>1 DEF IInv, NothingLeft, NoConnect, Alive
    <3> QED BY <2>4, <3>1 DEF ConnectSettles, HandshakeOk, ListOk, ConnectFail,
               Death, DeathOfLive, DeathWhileListing
  <2>5. ASSUME NEW u \in Upstreams, TimerFires(u) \/ Kick(u) \/ Discover(u) \/ Reconnect(u)
        PROVE  FALSE
    BY <1>1, <2>5 DEF TimerFires, AttemptJoins, AttemptFindsLive, AttemptSpawns, AttemptRefused,
       Fired, Kick, Discover, Reconnect
  <2>6. ~ConnectAll /\ ~FetchTools /\ ~CloseAll
    BY <1>1 DEF ConnectAll, FetchTools, CloseAll
  <2> QED BY <1>1, <2>1, <2>2, <2>3, <2>4, <2>5, <2>6 DEF Next
<1>2. IInv /\ [Next]_vars => [closed => closed' /\ UNCHANGED <<connVars, retryVars>>]_vars
  BY <1>1
<1> QED BY <1>2, Invariant, PTL DEF Spec, ClosedIsFinal

(* The next step of the backoff after u's attempt fails with no timer      *)
(* pending is the successor of an attempt that was awaiting it.            *)
LEMMA RejectEscalates ==
  ASSUME TypeOK, NEW u \in Enabled, ~closed, timer[u] = NoTimer, attempts[u] # {},
         connect[u].owner = "ensure", timer' \in TimersAfterReject(u, timer)
  PROVE  \E n \in attempts[u] : timer'[u] = NextAttempt(n)
<1>1. PICK n \in attempts[u] : timer' = Schedule(timer, u, NextAttempt(n))
  BY DEF TimersAfterReject
<1>2. u \in Upstreams
  BY EnabledAssumption
<1>3. NextAttempt(n) \in Attempt /\ timer \in [Upstreams -> Attempt \cup {NoTimer}]
  BY <1>2, NextAttemptType DEF TypeOK
<1>4. timer'[u] = NextAttempt(n)
  BY <1>1, <1>2, <1>3, ScheduleFacts
<1> QED BY <1>4

(* A death in the middle of an attempt does not reset its backoff          *)
(* (_reconnecting, _handleUpstreamDown).                                   *)
THEOREM BackoffEscalatesHolds == Spec => BackoffEscalates
<1> DEFINE Fails(u) == /\ attempts[u] # {} /\ attempts'[u] = {} /\ ~Ready(u)' /\ ~closed'
                       /\ connect[u].owner = "ensure" /\ timer[u] = NoTimer
<1>1. ASSUME IInv, Next, NEW u \in Enabled, Fails(u)
      PROVE  \E n \in attempts[u] : timer'[u] = NextAttempt(n)
  <2> USE <1>1
  <2>1. TypeOK /\ u \in Upstreams /\ attempts'[u] # attempts[u]
    BY EnabledAssumption DEF IInv
  <2>2. attempts' # attempts
    BY <2>1
  <2>3. CASE \E v \in Upstreams : ConnectFail(v)
    <3>1. PICK v \in Upstreams : ConnectFail(v)
      BY <2>3
    <3>2. v = u /\ ~closed
      BY <2>1, <3>1 DEF ConnectFail, Reject, TypeOK
    <3> QED BY <2>1, <3>1, <3>2, RejectEscalates DEF ConnectFail, Reject
  <2>4. CASE \E v \in Upstreams : DeathWhileListing(v)
    <3>1. PICK v \in Upstreams : DeathWhileListing(v)
      BY <2>4
    <3>2. v = u /\ ~closed
      BY <2>1, <3>1 DEF DeathWhileListing, Reject, TypeOK
    <3>3. TimerAfterDeath(u) = timer
      BY DEF TimerAfterDeath
    <3> QED BY <2>1, <3>1, <3>2, <3>3, RejectEscalates DEF DeathWhileListing, Reject
  <2>5. CASE \E v \in Upstreams : ListOk(v)
    <3>1. PICK v \in Upstreams : ListOk(v)
      BY <2>5
    <3>2. v = u
      BY <2>1, <3>1 DEF ListOk, TypeOK
    <3>3. Ready(u)'
      <4>1. cached[u] \in established[u] /\ cached[u] # NoClient
        BY <2>1, <3>1, <3>2, ClientAssumption DEF ListOk, IInv, InFlightIntact, TypeOK
      <4> QED BY <2>1, <3>1, <3>2, <4>1 DEF ListOk, Ready, Alive, TypeOK, NoConnect
    <3> QED BY <3>3
  <2>6. ASSUME NEW v \in Upstreams, AttemptJoins(v) \/ AttemptSpawns(v) PROVE FALSE
    BY <2>1, <2>6 DEF AttemptJoins, AttemptSpawns, TypeOK
  <2>7. ASSUME NEW v \in Upstreams,
               \/ HandshakeOk(v) \/ DeathOfLive(v) \/ AttemptFindsLive(v) \/ AttemptRefused(v)
               \/ Relist(v) \/ Kick(v) \/ Discover(v) \/ Reconnect(v)
        PROVE  FALSE
    BY <2>2, <2>7 DEF HandshakeOk, DeathOfLive, AttemptFindsLive, AttemptRefused, Relist, ListChanged,
       StrayListChanged, RefreshOk, RefreshFail, Kick, Discover, Reconnect, retryVars
  <2>8. ~ConnectAll /\ ~BatchEnd /\ ~FetchTools /\ ~CloseAll
    BY <2>2 DEF ConnectAll, BatchEnd, FetchTools, CloseAll, retryVars
  <2> QED BY <2>3, <2>4, <2>5, <2>6, <2>7, <2>8 DEF Next, ConnectSettles, Death, TimerFires
<1>2. IInv /\ [Next]_vars => [EscalationStep]_vars
  BY <1>1 DEF EscalationStep
<1> QED BY <1>2, Invariant, PTL DEF Spec, BackoffEscalates

-----------------------------------------------------------------------------
(* A stale view is never left to itself.                                   *)

(* What NoStaleView says of one upstream. *)
Told(u) == (u \in shown <=> u \in Advertised) \/ ToldLater(u)

(* A step of u alone can only make the view stale about u. *)
LEMMA OthersStayTold ==
  ASSUME NoStaleView, NEW u \in Upstreams,
         closed' = closed, viewVars' = viewVars, notified => notified',
         \A v \in Upstreams \ {u} :
           /\ cached'[v] = cached[v] /\ timer'[v] = timer[v] /\ attempts'[v] = attempts[v]
           /\ v \in tools' <=> v \in tools
           /\ v \in refreshing' <=> v \in refreshing,
         fetched /\ ~closed /\ ~notified' => Told(u)'
  PROVE  NoStaleView'
<1> SUFFICES ASSUME fetched', ~closed', ~notified', NEW v \in Upstreams
             PROVE  Told(v)'
  BY DEF NoStaleView, Told
<1>1. fetched' = fetched /\ shown' = shown
  BY DEF viewVars
<1>2. CASE v = u
  BY <1>1, <1>2
<1>3. CASE v # u
  <2>1. Told(v)
    BY <1>1 DEF NoStaleView, Told
  <2> QED BY <1>1, <1>3, <2>1 DEF Told, Advertised, Listed, ToldLater
<1> QED BY <1>2, <1>3

(* An upstream that is off, or not on the top level, is shown in no view:  *)
(* nothing that happens to it can make one stale.                          *)
LEMMA NeverShown ==
  ASSUME ViewShape, NEW u \in Upstreams, u \notin TopLevel \cap Enabled, shown' = shown
  PROVE  Told(u)'
BY DEF ViewShape, Told, Advertised, Listed

(* After startup an enabled upstream whose connection is being worked on   *)
(* has a timer, or an attempt awaiting the connect.                        *)
LEMMA BackIsOnTheWay ==
  ASSUME IInv, ViewShape, fetched, ~closed, NEW u \in Upstreams, u \in Enabled, ~Ready(u)
  PROVE  /\ boot = "done" /\ connect[u].owner # "reconnect"
         /\ timer[u] # NoTimer \/ attempts[u] # {}
BY DEF IInv, NoWedge, ViewShape

(* What connects without having been asked to by an attempt does so before *)
(* the timer of the upstream fires; an attempt signals itself.             *)
LEMMA ListOkTold ==
  ASSUME IInv, ViewInv, NEW u \in Upstreams, ListOk(u)
  PROVE  NoStaleView'
<1>1. ASSUME fetched, ~closed, ~notified', u \in TopLevel \cap Enabled PROVE Told(u)'
  <2>1. ~Ready(u) /\ connect[u].stage = "listing"
    BY DEF ListOk, Ready
  <2>2. boot = "done" /\ (timer[u] # NoTimer \/ attempts[u] # {})
    BY <1>1, <2>1, BackIsOnTheWay DEF ViewInv
  <2>3. attempts[u] = {}
    BY <1>1, <2>2 DEF ListOk, Signal
  <2> QED BY <2>2, <2>3 DEF ListOk, Told, ToldLater
<1>2. fetched /\ ~closed /\ ~notified' => Told(u)'
  BY <1>1, NeverShown DEF ListOk, ViewInv, viewVars
<1>3. \A v \in Upstreams \ {u} : attempts'[v] = attempts[v]
  BY DEF ListOk, IInv, TypeOK
<1> QED BY <1>2, <1>3, OthersStayTold DEF ListOk, ViewInv, Signal

(* A connect that is rejected leaves an enabled upstream with a timer.     *)
LEMMA RejectTold ==
  ASSUME IInv, ViewInv, NEW u \in Upstreams, connect[u].stage # "none",
         NEW tab \in [Upstreams -> Attempt \cup {NoTimer}],
         \A v \in Upstreams \ {u} : tab[v] = timer[v],
         timer[u] # NoTimer => tab[u] # NoTimer,
         Reject(u, tab), closed' = closed, viewVars' = viewVars, notified => notified'
  PROVE  NoStaleView'
<1> USE DEF ViewInv
<1>1. CASE closed
  BY <1>1 DEF NoStaleView
<1>2. CASE ~closed
  <2>1. /\ \A v \in Upstreams \ {u} : timer'[v] = timer[v]
        /\ u \in Enabled /\ (timer[u] # NoTimer \/ attempts[u] # {}) => timer'[u] # NoTimer
    BY <1>2, RejectTimer DEF Reject, IInv
  <2>2. fetched /\ u \in Enabled => timer[u] # NoTimer \/ attempts[u] # {}
    BY <1>2, BackIsOnTheWay DEF Ready
  <2>3. fetched => Told(u)'
    BY <2>1, <2>2, NeverShown DEF Told, ToldLater, viewVars
  <2>4. \A v \in Upstreams \ {u} :
          /\ cached'[v] = cached[v] /\ attempts'[v] = attempts[v]
          /\ v \in tools' <=> v \in tools
          /\ v \in refreshing' <=> v \in refreshing
    BY DEF Reject, Discard, IInv, TypeOK
  <2> QED BY <2>1, <2>3, <2>4, OthersStayTold
<1> QED BY <1>1, <1>2

LEMMA ConnectFailTold ==
  ASSUME IInv, ViewInv, NEW u \in Upstreams, ConnectFail(u)
  PROVE  NoStaleView'
<1>1. timer \in [Upstreams -> Attempt \cup {NoTimer}]
  BY DEF IInv, TypeOK
<1> QED BY <1>1, RejectTold DEF ConnectFail, Signal

LEMMA DeathTold ==
  ASSUME IInv, ViewInv, NEW u \in Upstreams, Death(u)
  PROVE  NoStaleView'
<1>1. /\ TimerAfterDeath(u) \in [Upstreams -> Attempt \cup {NoTimer}]
      /\ \A v \in Upstreams \ {u} : TimerAfterDeath(u)[v] = timer[v]
      /\ timer[u] # NoTimer => TimerAfterDeath(u)[u] # NoTimer
  BY TimerAfterDeathFacts DEF IInv
<1>2. CASE DeathWhileListing(u)
  <2>1. connect[u].stage # "none"
    BY <1>2 DEF DeathWhileListing
  <2> QED BY <1>1, <1>2, <2>1, RejectTold DEF DeathWhileListing, Signal
<1>3. CASE DeathOfLive(u)
  <2>1. fetched /\ ~closed /\ ~notified' => u \notin TopLevel
    BY <1>3 DEF DeathOfLive, Signal, ViewInv, ViewShape
  <2>2. fetched /\ ~closed /\ ~notified' => Told(u)'
    BY <1>3, <2>1, NeverShown DEF DeathOfLive, ViewInv, viewVars
  <2>3. \A v \in Upstreams \ {u} :
          /\ cached'[v] = cached[v] /\ attempts'[v] = attempts[v]
          /\ v \in tools' <=> v \in tools
          /\ v \in refreshing' <=> v \in refreshing
    BY <1>3 DEF DeathOfLive, Discard, IInv, TypeOK
  <2> QED BY <1>1, <1>3, <2>2, <2>3, OthersStayTold DEF DeathOfLive, ViewInv, Signal
<1> QED BY <1>2, <1>3 DEF Death

LEMMA TimerFiresTold ==
  ASSUME IInv, ViewInv, NEW u \in Upstreams, TimerFires(u)
  PROVE  NoStaleView'
<1> USE DEF ViewInv
<1>0. /\ timer \in [Upstreams -> Attempt \cup {NoTimer}] /\ timer[u] \in Attempt
      /\ attempts \in [Upstreams -> SUBSET Attempt]
      /\ cached \in [Upstreams -> Clients \cup {NoClient}]
      /\ closed' = closed /\ viewVars' = viewVars
  BY DEF IInv, TypeOK, TimerFires, AttemptJoins, AttemptFindsLive, AttemptSpawns, AttemptRefused, Fired
<1>1. CASE AttemptJoins(u)
  <2>1. attempts'[u] # {}
    BY <1>0, <1>1 DEF AttemptJoins
  <2> QED BY <1>0, <1>1, <2>1, OthersStayTold DEF AttemptJoins, Fired, connVars, Told, ToldLater
<1>2. CASE AttemptFindsLive(u)
  <2>1. fetched /\ ~closed /\ ~notified' => u \notin TopLevel
    BY <1>2 DEF AttemptFindsLive, Signal, ViewShape
  <2>2. fetched /\ ~closed /\ ~notified' => Told(u)'
    BY <1>0, <2>1, NeverShown DEF viewVars
  <2> QED BY <1>0, <1>2, <2>2, OthersStayTold DEF AttemptFindsLive, Fired, connVars, Signal
<1>3. CASE AttemptSpawns(u)
  <2>1. attempts'[u] # {}
    BY <1>0, <1>3 DEF AttemptSpawns
  <2>2. \A v \in Upstreams \ {u} :
          /\ cached'[v] = cached[v] /\ timer'[v] = timer[v] /\ attempts'[v] = attempts[v]
          /\ v \in tools' <=> v \in tools
          /\ v \in refreshing' <=> v \in refreshing
    BY <1>0, <1>3 DEF AttemptSpawns, Spawn, Fired
  <2>3. notified' = notified
    BY <1>3 DEF AttemptSpawns
  <2> QED BY <1>0, <2>1, <2>2, <2>3, OthersStayTold DEF Told, ToldLater
<1>4. CASE AttemptRefused(u)
  <2> DEFINE cleared == [timer EXCEPT ![u] = NoTimer]
  <2>1. /\ cleared \in [Upstreams -> Attempt \cup {NoTimer}]
        /\ \A v \in Upstreams \ {u} : cleared[v] = timer[v]
    BY <1>0
  <2>2. timer' = Schedule(cleared, u, NextAttempt(timer[u])) /\ ~closed
    BY <1>4 DEF AttemptRefused
  <2> HIDE DEF cleared
  <2>3. NextAttempt(timer[u]) \in Attempt
    BY <1>0, NextAttemptType
  <2>4. /\ \A v \in Upstreams \ {u} : timer'[v] = timer[v]
        /\ u \in Enabled => timer'[u] # NoTimer
    BY <2>1, <2>2, <2>3, ScheduleFacts
  <2>5. Told(u)'
    BY <1>0, <2>4, NeverShown DEF Told, ToldLater, viewVars
  <2>6. \A v \in Upstreams \ {u} :
          /\ cached'[v] = cached[v] /\ attempts'[v] = attempts[v]
          /\ v \in tools' <=> v \in tools
          /\ v \in refreshing' <=> v \in refreshing
    BY <1>0, <1>4 DEF AttemptRefused, Refused, Discard
  <2>7. notified' = notified
    BY <1>4 DEF AttemptRefused
  <2> QED BY <1>0, <2>4, <2>5, <2>6, <2>7, OthersStayTold
<1> QED BY <1>1, <1>2, <1>3, <1>4 DEF TimerFires

(* The kick of a dead wrap target comes before its timer, which stays.     *)
LEMMA KickTold ==
  ASSUME IInv, ViewInv, NEW u \in Upstreams, Kick(u)
  PROVE  NoStaleView'
<1> USE DEF ViewInv
<1>1. /\ closed' = closed /\ viewVars' = viewVars /\ notified' = notified
      /\ timer' = timer /\ attempts' = attempts
  BY DEF Kick, retryVars
<1>2. \A v \in Upstreams \ {u} :
        /\ cached'[v] = cached[v]
        /\ v \in tools' <=> v \in tools
        /\ v \in refreshing' <=> v \in refreshing
  BY DEF Kick, Refused, Discard, Spawn, IInv, TypeOK
<1>3. ASSUME fetched PROVE timer[u] # NoTimer
  <2>1. ~Ready(u) /\ ~closed /\ u \in Enabled /\ attempts[u] = {}
    BY DEF Kick, Ready, IInv, ConnectShape
  <2> QED BY <1>3, <2>1, BackIsOnTheWay
<1>4. fetched => Told(u)'
  BY <1>1, <1>3 DEF Told, ToldLater
<1> QED BY <1>1, <1>2, <1>4, OthersStayTold

LEMMA RelistTold ==
  ASSUME IInv, ViewInv, NEW u \in Upstreams, Relist(u)
  PROVE  NoStaleView'
<1>1. CASE ListChanged(u)
  <2>1. Told(u)'
    BY <1>1 DEF ListChanged, Told, ToldLater
  <2> QED BY <1>1, <2>1, OthersStayTold DEF ListChanged, retryVars, ViewInv
<1>2. CASE StrayListChanged(u) \/ RefreshOk(u) \/ RefreshFail(u)
  <2>1. fetched' = fetched /\ (boot = "done" => notified')
    BY <1>2 DEF StrayListChanged, RefreshOk, RefreshFail, Signal, viewVars
  <2> QED BY <2>1 DEF ViewInv, ViewShape, NoStaleView
<1> QED BY <1>1, <1>2 DEF Relist

(* Until a client has listed there is no view; a tools/list makes it right;*)
(* a reconnect() starts over with a client that has listed nothing.        *)
LEMMA NextTold ==
  ASSUME IInv, ViewInv, [Next]_vars
  PROVE  NoStaleView'
<1> USE DEF ViewInv
<1>1. CASE ConnectAll \/ BatchEnd
  <2>1. ~fetched /\ fetched' = fetched
    BY <1>1 DEF ConnectAll, BatchEnd, BatchSettled, viewVars, ViewShape
  <2> QED BY <2>1 DEF NoStaleView
<1>2. CASE FetchTools
  <2>1. shown' = Advertised'
    BY <1>2 DEF FetchTools, Advertised, Listed, connVars
  <2> QED BY <2>1 DEF NoStaleView
<1>3. CASE CloseAll
  BY <1>3 DEF CloseAll, NoStaleView
<1>4. ASSUME NEW u \in Upstreams, ConnectSettles(u) PROVE NoStaleView'
  <2>1. CASE HandshakeOk(u)
    BY <2>1 DEF HandshakeOk, retryVars, viewVars, NoStaleView, ToldLater, Advertised, Listed
  <2> QED BY <1>4, <2>1, ListOkTold, ConnectFailTold DEF ConnectSettles
<1>5. ASSUME NEW u \in Upstreams, Discover(u) \/ Reconnect(u) PROVE NoStaleView'
  <2>1. ~fetched'
    BY <1>5 DEF Discover, Reconnect, viewVars, ViewShape
  <2> QED BY <2>1 DEF NoStaleView
<1>6. CASE UNCHANGED vars
  BY <1>6 DEF vars, connVars, retryVars, viewVars, NoStaleView, ToldLater, Advertised, Listed
<1> QED BY <1>1, <1>2, <1>3, <1>4, <1>5, <1>6, DeathTold, TimerFiresTold, KickTold, RelistTold DEF Next

(* A client that has listed keeps boot over and reconnect() away.          *)
LEMMA NextViewShape ==
  ASSUME IInv, ViewShape, [Next]_vars
  PROVE  ViewShape'
<1>0. \A u \in Upstreams : connect[u] \in [stage : Stage, owner : Owner]
  BY DEF IInv, TypeOK
<1>1. CASE ConnectAll \/ BatchEnd
  <2>1. ~fetched /\ fetched' = fetched /\ shown' = shown
    BY <1>1 DEF ConnectAll, BatchEnd, BatchSettled, viewVars, ViewShape
  <2> QED BY <2>1 DEF ViewShape
<1>2. CASE FetchTools
  BY <1>2 DEF FetchTools, Advertised, Listed, connVars, bootVars, ViewShape
<1>3. CASE CloseAll
  BY <1>3 DEF CloseAll, viewVars, NoConnect, ViewShape
<1>4. ASSUME NEW u \in Upstreams,
             \/ ConnectSettles(u) \/ Death(u) \/ TimerFires(u) \/ Relist(u) \/ Kick(u)
      PROVE  ViewShape'
  <2>1. boot' = boot /\ viewVars' = viewVars
    BY <1>4 DEF ConnectSettles, HandshakeOk, ListOk, ConnectFail, Death, DeathOfLive,
       DeathWhileListing, TimerFires, AttemptJoins, AttemptFindsLive, AttemptSpawns, AttemptRefused,
       Relist, ListChanged, StrayListChanged, RefreshOk, RefreshFail, Kick, bootVars
  <2>2. \/ connect' = connect
        \/ connect' = [connect EXCEPT ![u] = NoConnect]
        \/ connect' = [connect EXCEPT ![u].stage = "listing"]
        \/ connect' = [connect EXCEPT ![u] = [stage |-> "handshake", owner |-> "ensure"]]
    BY <1>4 DEF ConnectSettles, HandshakeOk, ListOk, ConnectFail, Reject, Death, DeathOfLive,
       DeathWhileListing, TimerFires, AttemptJoins, AttemptFindsLive, AttemptSpawns, Spawn,
       AttemptRefused, Refused, Relist, ListChanged, StrayListChanged, RefreshOk, RefreshFail,
       Kick, connVars
  <2>3. \A v \in Upstreams : connect[v].owner # "reconnect" => connect'[v].owner # "reconnect"
    <3> SUFFICES ASSUME NEW v \in Upstreams, connect[v].owner # "reconnect"
                 PROVE  connect'[v].owner # "reconnect"
      OBVIOUS
    <3>1. DOMAIN connect = Upstreams
      BY DEF IInv, TypeOK
    <3>2. connect[u] \in [stage : Stage, owner : Owner]
      BY <1>0
    <3>3. CASE v # u
      BY <2>2, <3>1, <3>3
    <3>4. CASE v = u
      <4>1. \/ connect'[u] = connect[u] \/ connect'[u] = NoConnect
            \/ connect'[u] = [stage |-> "listing", owner |-> connect[u].owner]
            \/ connect'[u] = [stage |-> "handshake", owner |-> "ensure"]
        BY <2>2, <3>1, <3>2
      <4>2. connect'[u].owner \in {connect[u].owner, "none", "ensure"}
        BY <4>1 DEF NoConnect
      <4> QED BY <3>4, <4>2
    <3> QED BY <3>3, <3>4
  <2> QED BY <2>1, <2>3 DEF ViewShape, viewVars
<1>5. ASSUME NEW u \in Upstreams, Discover(u) PROVE ViewShape'
  BY <1>5 DEF Discover, viewVars, ViewShape
<1>6. ASSUME NEW u \in Upstreams, Reconnect(u) PROVE ViewShape'
  BY <1>6 DEF Reconnect, ViewShape
<1>7. CASE UNCHANGED vars
  BY <1>7 DEF vars, bootVars, connVars, viewVars, ViewShape
<1> QED BY <1>1, <1>2, <1>3, <1>4, <1>5, <1>6, <1>7 DEF Next

(* A view that has gone stale is one the client has been told of, or will  *)
(* be: by an attempt that awaits its connect or is due, or by a re-list    *)
(* (_handleUpstreamDown, _scheduleReconnect, refreshTools).  What liveness *)
(* adds, that the timer fires and the attempt ends, is left to the run.    *)
THEOREM NoStaleViewHolds == Spec => []NoStaleView
<1>1. Init => ViewInv
  BY InitInv DEF Init, ViewInv, ViewShape, NoStaleView
<1>2. ViewInv /\ [Next]_vars => ViewInv'
  BY NextInv, NextTold, NextViewShape DEF ViewInv
<1>3. ViewInv => NoStaleView
  BY DEF ViewInv
<1> QED BY <1>1, <1>2, <1>3, PTL DEF Spec

=============================================================================
