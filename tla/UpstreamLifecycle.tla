-------------------------- MODULE UpstreamLifecycle --------------------------
(***************************************************************************)
(* The life of the upstream connections one Aggregator owns                *)
(* (src/mcp/aggregator.js) over McpClient children (src/mcp/mcp-client.js):*)
(* the startup batch, on-demand connects, the manual reconnect, unexpected *)
(* deaths, the backoff timers that bring an upstream back, tool-list       *)
(* refreshes, and teardown.                                                *)
(*                                                                         *)
(* Node runs one callback at a time and drains the promise continuations   *)
(* it released before the next one, so an action here is one such callback *)
(* (a timer, a child's reply, a child's exit, a call) with everything it   *)
(* settles.  Awaits are where actions interleave.                          *)
(***************************************************************************)
EXTENDS Integers, FiniteSets

CONSTANTS Upstreams,         \* ids of the store's upstreams
          Enabled,           \* those with enabled: true in expose.json
          Clients,           \* identities of McpClient instances, per upstream
          MaxFastAttempts,   \* MAX_FAST_ATTEMPTS, 6 in the code
          TopLevel           \* those _affectsTopLevel says yes to

ASSUME EnabledAssumption == Enabled \subseteq Upstreams
ASSUME TopLevelAssumption == TopLevel \subseteq Upstreams
ASSUME AttemptsAssumption == MaxFastAttempts \in Nat \ {0}

NoTimer == -1
NoClient == "no client"
ASSUME ClientAssumption == NoClient \notin Clients

Attempt == 0..MaxFastAttempts
Stage == {"none", "handshake", "listing"}
Owner == {"none", "boot", "ensure", "reconnect"}

VARIABLES
  closed,       \* _closed, latched by closeAll
  boot,         \* connectAll: "cold" before it, "batch" while it awaits, "done";
                \* "never" in the throwaway instance of one discover()
  bootFailed,   \* upstreams whose startup connect was rejected (-> failed[])
  cached,       \* _clients: the client cached for each upstream
  open,         \* clients not close()d whose child runs, cached or not
  established,  \* open clients that finished the handshake (_everConnected)
  connect,      \* the connect in flight per upstream, and who started it
  attempts,     \* reconnect attempts awaiting it (_reconnecting), by number
  timer,        \* _reconnectTimers: the attempt a pending timer carries
  tools,        \* _tools: upstreams with a cached tool list
  refreshing,   \* upstreams with a list_changed re-list outstanding
  notified,     \* a tools/list_changed the client has not acted on yet
  fetched,      \* the client has listed tools since its last initialize
  shown         \* the upstreams whose tools that list contained

connVars == <<cached, open, established, connect, tools, refreshing>>
retryVars == <<attempts, timer>>
bootVars == <<boot, bootFailed>>
viewVars == <<fetched, shown>>
vars == <<closed, bootVars, connVars, retryVars, notified, viewVars>>

NoConnect == [stage |-> "none", owner |-> "none"]

(* The type invariant: no step of the connection tables leaves their types,
   and the attempt number stays under its cap (_scheduleReconnect).        *)
TypeOK ==
  /\ closed \in BOOLEAN
  /\ boot \in {"cold", "batch", "done", "never"}
  /\ bootFailed \in SUBSET Upstreams
  /\ cached \in [Upstreams -> Clients \cup {NoClient}]
  /\ open \in [Upstreams -> SUBSET Clients]
  /\ established \in [Upstreams -> SUBSET Clients]
  /\ connect \in [Upstreams -> [stage : Stage, owner : Owner]]
  /\ attempts \in [Upstreams -> SUBSET Attempt]
  /\ timer \in [Upstreams -> Attempt \cup {NoTimer}]
  /\ tools \in SUBSET Upstreams
  /\ refreshing \in SUBSET Upstreams
  /\ notified \in BOOLEAN
  /\ fetched \in BOOLEAN
  /\ shown \in SUBSET Upstreams

Init ==
  /\ closed = FALSE
  /\ boot = "cold"
  /\ bootFailed = {}
  /\ cached = [u \in Upstreams |-> NoClient]
  /\ open = [u \in Upstreams |-> {}]
  /\ established = [u \in Upstreams |-> {}]
  /\ connect = [u \in Upstreams |-> NoConnect]
  /\ attempts = [u \in Upstreams |-> {}]
  /\ timer = [u \in Upstreams |-> NoTimer]
  /\ tools = {}
  /\ refreshing = {}
  /\ notified = FALSE
  /\ fetched = FALSE
  /\ shown = {}

-----------------------------------------------------------------------------
(* What the methods share.                                                 *)

Connecting(u) == connect[u].owner \in {"ensure", "reconnect"}   \* _connecting.has(u)

Alive(u) == cached[u] # NoClient /\ cached[u] \in established[u]

(* A tool of u is advertised and runnable: cached list, cached client, on. *)
Listed(u) == u \in tools /\ cached[u] # NoClient /\ u \in Enabled

(* Mistake: the latch of closeAll is not consulted. *)
ScheduleAfterClose(tab, u, n) ==
  IF tab[u] # NoTimer \/ u \notin Enabled THEN tab ELSE [tab EXCEPT ![u] = n]

(* _scheduleReconnect(u, n) applied to a timer table. *)
Schedule(tab, u, n) ==
  IF closed \/ tab[u] # NoTimer \/ u \notin Enabled
    THEN tab
    ELSE [tab EXCEPT ![u] = n]

NextAttempt(n) == IF n + 1 < MaxFastAttempts THEN n + 1 ELSE MaxFastAttempts

(* Mistake: the client is forgotten, its child is left running. *)
DiscardWithoutClose(u) ==
  /\ cached' = [cached EXCEPT ![u] = NoClient]
  /\ tools' = tools \ {u}
  /\ refreshing' = refreshing \ {u}
  /\ UNCHANGED <<open, established>>

(* _discard(u): close whatever client is cached now and forget u. *)
Discard(u) ==
  /\ open' = [open EXCEPT ![u] = @ \ {cached[u]}]
  /\ established' = [established EXCEPT ![u] = @ \ {cached[u]}]
  /\ cached' = [cached EXCEPT ![u] = NoClient]
  /\ tools' = tools \ {u}
  /\ refreshing' = refreshing \ {u}

(* onToolsChanged and onUpstreamNotification are wired once boot is done.  *)
Signal(b) == notified' = (notified \/ (b /\ boot = "done"))

(* A re-list that the close of its client rejects is relayed all the same. *)
RelayedByDiscard(u) == u \in refreshing

(* The synchronous half of _connectOne, after any stale client is dropped: *)
(* the new client is cached before its handshake.                          *)
Spawn(u, k, owner) ==
  /\ k \notin open[u] \ {cached[u]}
  /\ open' = [open EXCEPT ![u] = (@ \ {cached[u]}) \cup {k}]
  /\ established' = [established EXCEPT ![u] = @ \ {cached[u], k}]
  /\ cached' = [cached EXCEPT ![u] = k]
  /\ connect' = [connect EXCEPT ![u] = [stage |-> "handshake", owner |-> owner]]
  /\ tools' = tools \ {u}
  /\ refreshing' = refreshing \ {u}

(* The factory throws (isolation guard) or spawn throws: nothing is left.  *)
Refused(u) == Discard(u) /\ UNCHANGED connect

(* Mistake: reconnect() leaves its failure to the backoff it has stopped.   *)
TimersAfterRejectedAttempt(u, tab) ==
  IF attempts[u] = {} THEN {tab}
                      ELSE {Schedule(tab, u, NextAttempt(n)) : n \in attempts[u]}

(* Mistake: the fast attempts are the only ones. *)
TimersUntilMax(u, tab) ==
  IF attempts[u] = {}
    THEN {tab}
    ELSE {IF n = MaxFastAttempts THEN tab ELSE Schedule(tab, u, n + 1) : n \in attempts[u]}

(* The timer table after u's connect was rejected, tab being the table     *)
(* then: reconnect() drops a stale timer and retries from 0; otherwise the *)
(* first awaiting attempt to resume takes the next backoff step.           *)
TimersAfterReject(u, tab) ==
  IF connect[u].owner = "reconnect"
    THEN {Schedule([tab EXCEPT ![u] = NoTimer], u, 0)}
    ELSE IF attempts[u] = {}
      THEN {tab}
      ELSE {Schedule(tab, u, NextAttempt(n)) : n \in attempts[u]}

(* u's connect is rejected: every awaiting caller's catch runs. *)
Reject(u, tab) ==
  /\ Discard(u)
  /\ connect' = [connect EXCEPT ![u] = NoConnect]
  /\ attempts' = [attempts EXCEPT ![u] = {}]
  /\ timer' \in TimersAfterReject(u, tab)
  /\ bootFailed' = IF connect[u].owner = "boot" THEN bootFailed \cup {u} ELSE bootFailed

-----------------------------------------------------------------------------
(* Startup.                                                                *)

(* connectAll: every enabled upstream starts at once, none of them in      *)
(* _connecting; those the factory refuses have failed already.             *)
ConnectAll ==
  /\ ~closed /\ boot = "cold"
  /\ boot' = "batch"
  /\ \E refused \in SUBSET Enabled, k \in Clients :
       LET started == Enabled \ refused
       IN /\ bootFailed' = refused
          /\ cached' = [u \in Upstreams |-> IF u \in started THEN k ELSE NoClient]
          /\ open' = [u \in Upstreams |-> IF u \in started THEN {k} ELSE {}]
          /\ connect' = [u \in Upstreams |->
               IF u \in started THEN [stage |-> "handshake", owner |-> "boot"]
                                ELSE NoConnect]
  /\ UNCHANGED <<closed, established, tools, refreshing, retryVars, notified, viewVars>>

BatchSettled == boot = "batch" /\ \A u \in Upstreams : connect[u].owner # "boot"

(* The event loop can take its next callback.                              *)
Turn == ~BatchSettled

(* allSettled: the failures are walked and handed to the backoff.  A       *)
(* continuation of the last settlement, so it comes before all else.       *)
BatchEnd ==
  /\ BatchSettled
  /\ boot' = "done"
  /\ bootFailed' = {}
  /\ timer' = [u \in Upstreams |->
                 IF u \in bootFailed THEN Schedule(timer, u, 0)[u] ELSE timer[u]]
  /\ UNCHANGED <<closed, connVars, attempts, notified, viewVars>>

-----------------------------------------------------------------------------
(* A connect in flight settles.                                            *)

(* McpClient.connect resolves; the tools/list of _connectOne is sent.      *)
HandshakeOk(u) ==
  /\ Turn /\ connect[u].stage = "handshake"
  /\ connect' = [connect EXCEPT ![u].stage = "listing"]
  /\ established' = [established EXCEPT ![u] = @ \cup {cached[u]}]
  /\ UNCHANGED <<closed, bootVars, cached, open, tools, refreshing, retryVars,
                 notified, viewVars>>

(* The list is cached, every caller resumes; a reconnect attempt signals.  *)
(* discover() lists once more.                                             *)
ListOk(u) ==
  /\ Turn /\ connect[u].stage = "listing"
  /\ connect' = [connect EXCEPT ![u] = NoConnect]
  /\ tools' = tools \cup {u}
  /\ refreshing' = IF boot = "never" /\ attempts[u] = {} THEN refreshing \cup {u}
                                                         ELSE refreshing
  /\ attempts' = [attempts EXCEPT ![u] = {}]
  /\ Signal(attempts[u] # {} /\ u \in TopLevel)
  /\ UNCHANGED <<closed, bootVars, cached, open, established, timer, viewVars>>

(* A request of the handshake or the list fails or times out, or the child *)
(* exits before it is established.                                         *)
ConnectFail(u) ==
  /\ Turn /\ connect[u].stage # "none"
  /\ Reject(u, timer)
  /\ Signal(RelayedByDiscard(u))
  /\ UNCHANGED <<closed, boot, viewVars>>

-----------------------------------------------------------------------------
(* An established child exits: McpClient.onClose -> _handleUpstreamDown.   *)

(* Mistake: a death during an attempt starts a backoff of its own. *)
TimerAfterEveryDeath(u) == Schedule(timer, u, 0)

TimerAfterDeath(u) ==
  IF attempts[u] # {} THEN timer ELSE Schedule(timer, u, 0)

DeathOfLive(u) ==
  /\ Turn /\ Alive(u) /\ connect[u].stage = "none"
  /\ Discard(u)
  /\ timer' = TimerAfterDeath(u)
  /\ Signal(u \in TopLevel \/ RelayedByDiscard(u))
  /\ UNCHANGED <<closed, bootVars, connect, attempts, viewVars>>

(* Same, while the connect still awaits its list: onClose runs first, then *)
(* the rejection of the list does.                                         *)
DeathWhileListing(u) ==
  /\ Turn /\ Alive(u) /\ connect[u].stage = "listing"
  /\ Reject(u, TimerAfterDeath(u))
  /\ Signal(u \in TopLevel \/ RelayedByDiscard(u))
  /\ UNCHANGED <<closed, boot, viewVars>>

-----------------------------------------------------------------------------
(* The backoff timer of u fires (its entry goes first) and the attempt     *)
(* calls ensureConnected.                                                  *)

Fired(u) ==
  /\ Turn /\ ~closed /\ timer[u] # NoTimer
  /\ timer' = [timer EXCEPT ![u] = NoTimer]

(* ... joining the connect in flight, before it looks at the cache         *)
AttemptJoins(u) ==
  /\ Fired(u) /\ Connecting(u)
  /\ attempts' = [attempts EXCEPT ![u] = @ \cup {timer[u]}]
  /\ UNCHANGED <<closed, bootVars, connVars, notified, viewVars>>

(* Mistake: a connection found live is taken for one that was announced. *)
AttemptFindsLiveSilently(u) ==
  /\ Fired(u) /\ ~Connecting(u) /\ Alive(u)
  /\ UNCHANGED <<closed, bootVars, connVars, attempts, notified, viewVars>>

(* ... finding a live client: the attempt succeeds at once                 *)
AttemptFindsLive(u) ==
  /\ Fired(u) /\ ~Connecting(u) /\ Alive(u)
  /\ Signal(u \in TopLevel)
  /\ UNCHANGED <<closed, bootVars, connVars, attempts, viewVars>>

(* ... starting a connect of its own                                       *)
AttemptSpawns(u) ==
  /\ Fired(u) /\ ~Connecting(u) /\ ~Alive(u)
  /\ \E k \in Clients : Spawn(u, k, "ensure")
  /\ attempts' = [attempts EXCEPT ![u] = @ \cup {timer[u]}]
  /\ UNCHANGED <<closed, bootVars, notified, viewVars>>

(* ... or refused before a child exists: the next backoff step             *)
AttemptRefused(u) ==
  /\ Turn /\ ~closed /\ timer[u] # NoTimer /\ ~Connecting(u) /\ ~Alive(u)
  /\ Refused(u)
  /\ timer' = Schedule([timer EXCEPT ![u] = NoTimer], u, NextAttempt(timer[u]))
  /\ UNCHANGED <<closed, bootVars, attempts, notified, viewVars>>

-----------------------------------------------------------------------------
(* The other callers of ensureConnected.                                   *)

(* scheduleStateNotify's background kick of the wrap target; a join or a   *)
(* live client changes nothing.  Its failure is swallowed.                 *)
Kick(u) ==
  /\ ~closed /\ boot = "done" /\ u \in Enabled
  /\ ~Connecting(u) /\ ~Alive(u)
  /\ \/ \E k \in Clients : Spawn(u, k, "ensure")
     \/ Refused(u)
  /\ UNCHANGED <<closed, bootVars, retryVars, notified, viewVars>>

(* The manager's discover button, in an instance of its own; the one       *)
(* caller that may connect a disabled upstream.                            *)
Discover(u) ==
  /\ ~closed /\ boot = "cold"
  /\ boot' = "never"
  /\ \E k \in Clients : Spawn(u, k, "ensure")
  /\ UNCHANGED <<closed, bootFailed, retryVars, notified, viewVars>>

(* reconnect, from a client's initialize on a wrap: it settles a connect   *)
(* in flight first, then destroys the connection and makes a new one.      *)
(* The client that sent the initialize has listed nothing yet.             *)
Reconnect(u) ==
  /\ ~closed /\ boot = "done"
  /\ ~Connecting(u)
  /\ \/ u \in Enabled /\ UNCHANGED timer /\ \E k \in Clients : Spawn(u, k, "reconnect")
     \/ Refused(u) /\ timer' = Schedule([timer EXCEPT ![u] = NoTimer], u, 0)
  /\ Signal(RelayedByDiscard(u))
  /\ fetched' = FALSE
  /\ shown' = {}
  /\ UNCHANGED <<closed, bootVars, attempts>>

-----------------------------------------------------------------------------
(* A child's tools/list_changed: re-list first, relay when that settles.   *)

ListChanged(u) ==
  /\ Turn /\ ~closed /\ cached[u] # NoClient
  /\ refreshing' = refreshing \cup {u}
  /\ UNCHANGED <<closed, bootVars, cached, open, established, connect, tools,
                 retryVars, notified, viewVars>>

(* The same from a child already discarded, its last output still in the   *)
(* pipe: nothing to list, relayed at once.                                 *)
StrayListChanged(u) ==
  /\ Turn /\ ~closed /\ cached[u] = NoClient
  /\ Signal(TRUE)
  /\ UNCHANGED <<closed, bootVars, connVars, retryVars, viewVars>>

RefreshOk(u) ==
  /\ Turn /\ u \in refreshing
  /\ refreshing' = refreshing \ {u}
  /\ tools' = tools \cup {u}
  /\ Signal(TRUE)
  /\ UNCHANGED <<closed, bootVars, cached, open, established, connect, retryVars,
                 viewVars>>

RefreshFail(u) ==
  /\ Turn /\ u \in refreshing
  /\ refreshing' = refreshing \ {u}
  /\ Signal(TRUE)
  /\ UNCHANGED <<closed, bootVars, cached, open, established, connect, tools,
                 retryVars, viewVars>>

-----------------------------------------------------------------------------
(* The top-level surface the client is answered with.                      *)
Advertised == {u \in TopLevel : Listed(u)}

(* A tools/list, on the serialized loop: never before boot is done nor     *)
(* while an initialize awaits reconnect().                                 *)
FetchTools ==
  /\ ~closed /\ boot = "done"
  /\ \A u \in Upstreams : connect[u].owner # "reconnect"
  /\ shown' = Advertised
  /\ fetched' = TRUE
  /\ notified' = FALSE
  /\ UNCHANGED <<closed, bootVars, connVars, retryVars>>

(* closeAll: latch, drop the timers, close the cached clients; the connects*)
(* in flight reject against the latch.                                     *)
CloseAll ==
  /\ Turn /\ ~closed
  /\ closed' = TRUE
  /\ timer' = [u \in Upstreams |-> NoTimer]
  /\ attempts' = [u \in Upstreams |-> {}]
  /\ open' = [u \in Upstreams |-> open[u] \ {cached[u]}]
  /\ established' = [u \in Upstreams |-> established[u] \ {cached[u]}]
  /\ cached' = [u \in Upstreams |-> NoClient]
  /\ connect' = [u \in Upstreams |-> NoConnect]
  /\ tools' = {}
  /\ refreshing' = {}
  /\ bootFailed' = bootFailed \cup {u \in Upstreams : connect[u].owner = "boot"}
  /\ UNCHANGED <<boot, notified, viewVars>>

ConnectSettles(u) == HandshakeOk(u) \/ ListOk(u) \/ ConnectFail(u)
Death(u) == DeathOfLive(u) \/ DeathWhileListing(u)
TimerFires(u) ==
  AttemptJoins(u) \/ AttemptFindsLive(u) \/ AttemptSpawns(u) \/ AttemptRefused(u)
Relist(u) == ListChanged(u) \/ StrayListChanged(u) \/ RefreshOk(u) \/ RefreshFail(u)

Next ==
  \/ ConnectAll \/ BatchEnd \/ FetchTools \/ CloseAll
  \/ \E u \in Upstreams :
       \/ ConnectSettles(u) \/ Death(u) \/ TimerFires(u) \/ Relist(u)
       \/ Kick(u) \/ Discover(u) \/ Reconnect(u)

Spec == Init /\ [][Next]_vars

(* What Node and the code's own timeouts guarantee: pending timers fire,   *)
(* requests are answered or time out, a batch whose connects settled ends; *)
(* and the client re-fetches when told to.                                 *)
Fairness ==
  /\ WF_vars(BatchEnd)
  /\ \A u \in Upstreams : /\ WF_vars(ConnectSettles(u))
                          /\ WF_vars(TimerFires(u))
                          /\ WF_vars(RefreshOk(u) \/ RefreshFail(u))
  /\ WF_vars((notified \/ ~fetched) /\ FetchTools)

FairSpec == Spec /\ Fairness

(* The environment of Recovers: an upstream that is tried again and again  *)
(* starts, shakes hands and lists at last.                                 *)
Curable ==
  \A u \in Enabled : SF_vars(AttemptSpawns(u)) /\ SF_vars(HandshakeOk(u)) /\ SF_vars(ListOk(u))

-----------------------------------------------------------------------------
(* Safety.                                                                 *)

Ready(u) == Alive(u) /\ connect[u].stage = "none"

(* No child process runs that the aggregator has lost track of: every open *)
(* client is the cached one, so two connects never race for an upstream    *)
(* and closeAll reaps everything.                                          *)
NoOrphan == \A u \in Upstreams : open[u] \subseteq {cached[u]}

(* A connect in flight still has the client it started with, open and in   *)
(* the stage the connect believes; with no connect in flight the cache     *)
(* holds an established client or none.  Nobody closes a half-built client *)
(* under the caller that awaits it.                                        *)
InFlightIntact ==
  \A u \in Upstreams :
    /\ established[u] \subseteq open[u]
    /\ connect[u].stage = "handshake" => cached[u] \in open[u] \ established[u]
    /\ connect[u].stage = "listing" => cached[u] \in open[u] \cap established[u]
    /\ connect[u].stage = "none" =>
         cached[u] = NoClient \/ cached[u] \in open[u] \cap established[u]

(* Once the startup batch is over, an enabled upstream that is not serving *)
(* has somebody who will bring it back: a pending timer, a reconnect       *)
(* attempt awaiting the connect, or a reconnect() that owns it.            *)
NoWedge ==
  boot = "done" /\ ~closed =>
    \A u \in Enabled :
      Ready(u) \/ timer[u] # NoTimer \/ attempts[u] # {} \/ connect[u].owner = "reconnect"

(* A torn-down aggregator has no child, no timer and no tools, whatever    *)
(* was in flight when closeAll ran.                                        *)
ClosedIsQuiet ==
  closed => /\ tools = {}
            /\ \A u \in Upstreams : open[u] = {} /\ timer[u] = NoTimer

(* ... and never comes back: no late continuation, timer or reply changes a *)
(* connection after closeAll has run.                                      *)
ClosedIsFinal == [][closed => /\ closed'
                              /\ UNCHANGED <<connVars, retryVars>>]_vars

(* The backoff of an attempt that fails is never reset under it: unless a  *)
(* timer was pending before, the next one carries the next attempt number. *)
EscalationStep ==
  \A u \in Enabled :
    attempts[u] # {} /\ attempts'[u] = {} /\ ~Ready(u)' /\ ~closed'
      /\ connect[u].owner = "ensure" /\ timer[u] = NoTimer
    => \E n \in attempts[u] : timer'[u] = NextAttempt(n)
BackoffEscalates == [][EscalationStep]_vars

(* The view of a client that has listed tools is right about an upstream,  *)
(* or the client has been told, or somebody is on the way who will tell:   *)
(* a retry that is due or awaited, or a re-list.  Every change in between  *)
(* that is not signalled itself is covered by one of these.                *)
ToldLater(u) == timer[u] # NoTimer \/ attempts[u] # {} \/ u \in refreshing
NoStaleView ==
  fetched /\ ~closed =>
    notified \/ \A u \in Upstreams : (u \in shown <=> u \in Advertised) \/ ToldLater(u)

-----------------------------------------------------------------------------
(* The invariant that is inductive.  NoWedge needs to know that the batch  *)
(* keeps account of whatever it has not brought up, and that an attempt    *)
(* counts only while a connect it awaits is in flight; teardown, that the  *)
(* latch leaves nothing behind which a later step could pick up.           *)

Unserved(u) ==
  ~Ready(u) /\ timer[u] = NoTimer /\ attempts[u] = {} /\ connect[u].owner # "reconnect"

BatchKeepsAccount ==
  boot = "batch" /\ ~closed =>
    \A u \in Enabled : Unserved(u) => u \in bootFailed \/ connect[u].owner = "boot"

ConnectShape ==
  \A u \in Upstreams :
    /\ connect[u].stage = "none" <=> connect[u].owner = "none"
    /\ connect[u].owner = "boot" => boot = "batch" /\ timer[u] = NoTimer
    /\ attempts[u] # {} => Connecting(u)

NothingLeft ==
  closed \/ boot = "cold" =>
    /\ tools = {} /\ refreshing = {}
    /\ \A u \in Upstreams : /\ cached[u] = NoClient
                            /\ connect[u] = NoConnect
                            /\ attempts[u] = {}
                            /\ timer[u] = NoTimer

IInv ==
  /\ TypeOK /\ NoOrphan /\ InFlightIntact /\ NoWedge
  /\ BatchKeepsAccount /\ ConnectShape /\ NothingLeft

(* A client has listed only once the batch is over and no reconnect() is   *)
(* in flight, and was shown nothing that could not be listed.              *)
ViewShape ==
  /\ fetched => boot = "done" /\ \A u \in Upstreams : connect[u].owner # "reconnect"
  /\ shown \subseteq TopLevel \cap Enabled
ViewInv == IInv /\ ViewShape /\ NoStaleView

-----------------------------------------------------------------------------
(* Liveness.                                                               *)

(* After startup every enabled upstream that can be brought back is, again *)
(* and again, whatever dies and whoever reconnects it.                     *)
Recovers ==
  Curable => \A u \in Enabled : [](boot = "done" => <>(closed \/ Ready(u)))

(* A client that listed tools is not left with a stale surface for ever:  *)
(* what it was shown of an upstream is what there is, again and again, or  *)
(* the upstream is down and a retry, which will tell, is pending.  A child *)
(* may send list_changed at any time, in the middle of its connect too.    *)
ViewConverges ==
  \A u \in TopLevel :
    []<>(closed \/ ~fetched \/ (u \in shown <=> u \in Advertised) \/ timer[u] # NoTimer)

=============================================================================
