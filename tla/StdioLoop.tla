------------------------------ MODULE StdioLoop ------------------------------
(***************************************************************************)
(* The stdio session of the gateway (createStdioLoop, handleMessage and    *)
(* forwardWrapped, src/mcp/server.js): one client on a pipe, whose         *)
(* messages are handled one after the other on a promise chain.  Only a    *)
(* cancellation overtakes what is queued; a modern client's                *)
(* subscriptions/listen lives until it is cancelled or stdin ends.         *)
(*                                                                         *)
(* Messages arrive whole: McpClient has the framing, which server.js       *)
(* repeats.  Ids are given in the order the client sends its requests.     *)
(***************************************************************************)
EXTENDS Integers, Sequences, FiniteSets, SequencesExt

CONSTANTS Targets,      \* upstreams the session may be wrapped around
          MaxIds,       \* bound: requests sent
          MaxQueue,     \* bound: links that wait on the chain
          MaxRetargets, \* bound: edits of the wrap
          QuietRetarget \* TRUE: no edit while a subscription holds a resource

ASSUME LoopBounds ==
  MaxIds \in Nat /\ MaxQueue \in Nat /\ MaxRetargets \in Nat /\ QuietRetarget \in BOOLEAN

Ids == 1..MaxIds
NoWrap == "none"
ASSUME NoWrapApart == NoWrap \notin Targets

VARIABLES
  kind,       \* the requests sent so far: single, listen, watch or batch
  queue, run, \* the chain: links that wait; the one that runs
  reg,        \* queuedRequests: started and cancelled, by id
  inflight,   \* inflightForwards: the upstream's id of a forward, by id
  issued,     \* requests each upstream was sent (McpClient._nextId)
  subs,       \* modernSubs: id and whether a resource was agreed
  refs,       \* _subscribedRefs of that resource
  negotiated, \* the revision initialize answered
  wrap,       \* the passthrough in tools.state.json
  scope,      \* wrapChatterUpstream: the one the aggregator has last seen
  ended, dying, exited,  \* stdin is over; for its size; the process is gone
  retargets,
  cancelled,  \* history: requests whose cancel was read before their reply
  replied, turns,  \* history: requests replied to; replies out of turn
  late,       \* history: requests written to after their cancel was read
  refused     \* history: members of an array refused as a whole, with no id

chainVars == <<queue, run, reg>>
wireVars == <<inflight, issued>>
subVars == <<subs, refs, scope>>
outVars == <<replied, turns, late, refused>>
endVars == <<ended, dying, exited>>
wrapVars == <<wrap, retargets>>
vars == <<kind, chainVars, wireVars, subVars, negotiated, wrapVars, endVars,
          cancelled, outVars>>

Singles == {"init", "ask", "fwd", "call"}
Versions == {"other", "2025-03-26"}  \* "other": any other, or none yet
Listens == {"listen", "watch"}     \* without and with a resource
Link == [kind : Singles \cup Listens \cup {"batch", "note"}, id : 0..MaxIds]
NoLink == [kind |-> "note", id |-> 0]
Idle == [link |-> NoLink, stage |-> "idle", pt |-> NoWrap, at |-> 0]
Stages == {"idle", "mirror", "gate", "dial", "rpc", "tool"}

(* The type invariant: among others, only a request under way is tracked   *)
(* for cancellation upstream.                                              *)
TypeOK ==
  /\ DOMAIN kind \subseteq Ids /\ queue \in Seq(Link) /\ Len(queue) <= MaxQueue
  /\ run \in [link : Link, stage : Stages, pt : Targets \cup {NoWrap}, at : 0..1]
  /\ DOMAIN reg \subseteq DOMAIN kind
  /\ \A i \in DOMAIN reg : reg[i] \in [started : BOOLEAN, cancelled : BOOLEAN]
  /\ DOMAIN inflight \subseteq {run.link.id + run.at} /\ issued \in [Targets -> 0..MaxIds]
  /\ \A i \in DOMAIN subs : subs[i] \in [id : Ids, uri : BOOLEAN]
  /\ refs \in 0..MaxIds /\ {ended, dying, exited} \subseteq BOOLEAN
  /\ negotiated \in Versions
  /\ {wrap, scope} \subseteq Targets \cup {NoWrap} /\ retargets \in 0..MaxRetargets
  /\ cancelled \cup replied \cup turns \cup late \cup refused \subseteq DOMAIN kind

Init ==
  /\ kind = <<>> /\ queue = <<>> /\ run = Idle /\ reg = <<>>
  /\ inflight = <<>> /\ issued = [t \in Targets |-> 0]
  /\ subs = <<>> /\ refs = 0 /\ negotiated = "other"
  /\ wrap \in Targets \cup {NoWrap} /\ scope = wrap /\ retargets = 0
  /\ ended = FALSE /\ dying = FALSE /\ exited = FALSE
  /\ cancelled = {} /\ replied = {} /\ turns = {} /\ late = {} /\ refused = {}

-----------------------------------------------------------------------------
(* Lines on stdout: to a request, or tagged with a subscription's id.      *)
Lines(ids) == late' = late \cup (ids \cap cancelled)
Reply(ids) ==
  /\ Lines(ids) /\ replied' = replied \cup ids
  /\ turns' = turns \cup {i \in ids : i \in replied \/ \E j \in replied : j > i}
  /\ UNCHANGED refused
NoReply == UNCHANGED outVars

(* setWrapChatterUpstream, which every message calls: a change of target   *)
(* drops the subscriptions of the old one.                                 *)
Armed == IF wrap = scope THEN refs ELSE 0
Arms == scope' = wrap /\ refs' = Armed

(* releaseResources, of so many subscriptions to the resource.             *)
Less(n, m) == IF n <= m THEN 0 ELSE n - m
Released(n, gone) == IF gone.uri THEN Less(n, 1) ELSE n
Holders == {k \in DOMAIN subs : subs[k].uri}

-----------------------------------------------------------------------------
(* enqueue: the client sends a request, a listen (perhaps again, having    *)
(* missed the ack), a batch of two forwards, or a notification.            *)
Queue(link) ==
  /\ ~ended /\ Len(queue) < MaxQueue /\ queue' = Append(queue, link)
  /\ UNCHANGED <<run, wireVars, subVars, negotiated, wrapVars, endVars, cancelled, outVars>>
Names(new, k) == kind' = [i \in DOMAIN kind \cup new |-> IF i \in new THEN k ELSE kind[i]]
Fresh == Cardinality(DOMAIN kind) + 1
SendRequest(k) ==
  /\ Fresh \in Ids /\ Queue([kind |-> k, id |-> Fresh]) /\ Names({Fresh}, "single")
  /\ reg' = [i \in DOMAIN reg \cup {Fresh} |->
               IF i = Fresh THEN [started |-> FALSE, cancelled |-> FALSE] ELSE reg[i]]
SendListen(k) ==
  /\ \/ Fresh \in Ids /\ Queue([kind |-> k, id |-> Fresh]) /\ Names({Fresh}, k)
     \/ /\ \E i \in DOMAIN kind \ cancelled : kind[i] = k /\ Queue([kind |-> k, id |-> i])
        /\ UNCHANGED kind
  /\ UNCHANGED reg
SendBatch ==
  /\ Fresh + 1 \in Ids /\ Queue([kind |-> "batch", id |-> Fresh])
  /\ Names({Fresh, Fresh + 1}, "batch") /\ UNCHANGED reg
SendNote == Queue(NoLink) /\ UNCHANGED <<kind, reg>>

(* A cancel is handled at once.  It ends a subscription, marks a queued    *)
(* request, and is relayed to the wrapped upstream if it names a forward   *)
(* under way, in the upstream's terms: Relayed is what that upstream gets. *)
CancelListen(i) ==
  LET k == CHOOSE k \in DOMAIN subs : subs[k].id = i
  IN /\ subs' = RemoveAt(subs, k) /\ refs' = Released(refs, subs[k])
     /\ UNCHANGED <<reg, scope>>
RelayedAsIs(i) ==                       \* were the client's id passed on
  IF wrap # NoWrap /\ i \in DOMAIN inflight THEN {[to |-> wrap, no |-> i]} ELSE {}
Relayed(i) ==
  IF wrap # NoWrap /\ i \in DOMAIN inflight
  THEN {[to |-> wrap, no |-> inflight[i].no]} ELSE {}
CancelRequest(i) ==
  /\ reg' = IF i \in DOMAIN reg THEN [reg EXCEPT ![i].cancelled = TRUE] ELSE reg
  /\ IF i \in DOMAIN reg /\ ~reg[i].started
     THEN UNCHANGED <<refs, scope>>
     ELSE Arms
  /\ UNCHANGED subs
Cancel(i) ==
  /\ ~ended /\ i \in DOMAIN kind
  /\ cancelled' = IF i \in replied /\ kind[i] \notin Listens THEN cancelled ELSE cancelled \cup {i}
  /\ IF \E k \in DOMAIN subs : subs[k].id = i THEN CancelListen(i) ELSE CancelRequest(i)
  /\ UNCHANGED <<kind, queue, run, inflight, issued, negotiated, wrapVars,
                 endVars, outVars>>

(* Bytes that are no message are answered at once, with no id; so is an    *)
(* over-long one that declares its length.  One that does not ends the     *)
(* session: the chain goes on until the error is flushed, or half a second.*)
Overflow ==
  /\ ~ended /\ ended' = TRUE /\ dying' = TRUE
  /\ UNCHANGED <<kind, chainVars, wireVars, subVars, negotiated, wrapVars, exited,
                 cancelled, outVars>>
Exit ==
  /\ dying /\ ~exited /\ exited' = TRUE
  /\ UNCHANGED <<kind, chainVars, wireVars, subVars, negotiated, wrapVars, ended,
                 dying, cancelled, outVars>>

(* stdin ends: the subscriptions are closed, the chain goes on.            *)
End ==
  /\ ~ended /\ ended' = TRUE
  /\ Lines({subs[k].id : k \in DOMAIN subs}) /\ UNCHANGED <<replied, turns, refused>>
  /\ refs' = Less(refs, Cardinality(Holders)) /\ subs' = <<>>
  /\ UNCHANGED <<kind, chainVars, wireVars, scope, negotiated, wrapVars, dying,
                 exited, cancelled>>

-----------------------------------------------------------------------------
(* A link ends; its request leaves the registry.                           *)
Leaves(i) == reg' = [j \in DOMAIN reg \ {i} |-> reg[j]]
(* Were the flag not looked at again after the await:                      *)
AnswerAnyway(i) == Leaves(i) /\ Reply({i})
(* Its response is sent unless it was cancelled meanwhile.                 *)
Answer(i) ==
  /\ Leaves(i)
  /\ IF i \in DOMAIN reg /\ reg[i].cancelled THEN NoReply ELSE Reply({i})

Takes(k) == queue # <<>> /\ run = Idle /\ ~exited /\ Head(queue).kind = k /\ queue' = Tail(queue)
Fixed == UNCHANGED <<kind, wrapVars, endVars, cancelled>>
PreCancelled(i) == i \in DOMAIN reg /\ reg[i].cancelled
Runs(stage) == run' = [link |-> Head(queue), stage |-> stage, pt |-> wrap, at |-> 0]
Marks(i) == reg' = [reg EXCEPT ![i].started = TRUE]

(* Cancelled before its turn: no reply.                                    *)
SkipLink ==
  /\ \E k \in Singles : Takes(k)
  /\ PreCancelled(Head(queue).id) /\ Leaves(Head(queue).id)
  /\ Fixed /\ NoReply /\ UNCHANGED <<run, wireVars, subVars, negotiated>>

(* What is answered without waiting: ping, tools/list, an unknown method,  *)
(* a forward with no wrap or no live upstream, and initialize, which is    *)
(* refused if the wrapped upstream was never met.                          *)
StartAndAnswer ==
  /\ \E k \in Singles \ {"call"} :
       /\ Takes(k)
       /\ negotiated' \in IF k = "init" /\ wrap = NoWrap THEN Versions ELSE {negotiated}
  /\ ~PreCancelled(Head(queue).id) /\ Answer(Head(queue).id) /\ Arms
  /\ Fixed /\ UNCHANGED <<run, wireVars, subs>>
StartNote == Takes("note") /\ Arms /\ Fixed /\ NoReply
             /\ UNCHANGED <<run, reg, wireVars, subs, negotiated>>

(* initialize under a wrap may have to reconnect the upstream first.       *)
StartMirror ==
  /\ Takes("init") /\ wrap # NoWrap
  /\ ~PreCancelled(Head(queue).id) /\ Marks(Head(queue).id)
  /\ Runs("mirror") /\ Arms /\ Fixed /\ NoReply
  /\ UNCHANGED <<wireVars, subs, negotiated>>
MirrorDone ==
  /\ run.stage = "mirror" /\ ~exited /\ run' = Idle
  /\ negotiated' \in Versions /\ Answer(run.link.id)
  /\ Fixed /\ UNCHANGED <<queue, wireVars, subVars>>

(* forwardWrapped: any method the gateway does not own goes upstream.      *)
StartForward ==
  /\ Takes("fwd") /\ wrap # NoWrap /\ ~PreCancelled(Head(queue).id)
  /\ Marks(Head(queue).id) /\ Runs("dial")
  /\ Arms /\ Fixed /\ NoReply /\ UNCHANGED <<wireVars, subs, negotiated>>

(* tools/call passes the gate first; what it allows runs upstream under a  *)
(* wrap, and else as a tool nobody tracks.                                 *)
StartCall ==
  /\ Takes("call") /\ ~PreCancelled(Head(queue).id)
  /\ Marks(Head(queue).id) /\ Runs("gate") /\ Arms
  /\ Fixed /\ NoReply /\ UNCHANGED <<wireVars, subs, negotiated>>
GateAllows ==
  /\ run.stage = "gate" /\ ~exited
  /\ IF run.pt # NoWrap
     THEN run' = [run EXCEPT !.stage = "dial"]
     ELSE run' = [run EXCEPT !.stage = "tool"]
  /\ Fixed /\ NoReply /\ UNCHANGED <<queue, reg, wireVars, subVars, negotiated>>
GateDenies ==
  /\ run.stage = "gate" /\ ~exited /\ run' = Idle /\ Answer(run.link.id)
  /\ Fixed /\ UNCHANGED <<queue, wireVars, subVars, negotiated>>
ToolDone ==
  /\ run.stage = "tool" /\ ~exited /\ run' = Idle /\ Answer(run.link.id)
  /\ Fixed /\ UNCHANGED <<queue, wireVars, subVars, negotiated>>

(* A forward waits for a connect under way.  Then it is sent, and the      *)
(* upstream's id of it tracked; or there is no live upstream.              *)
Now == run.link.id + run.at
Send ==
  /\ run.stage = "dial" /\ ~exited /\ run' = [run EXCEPT !.stage = "rpc"]
  /\ issued[run.pt] < MaxIds /\ issued' = [issued EXCEPT ![run.pt] = @ + 1]
  /\ inflight' = [i \in DOMAIN inflight \cup {Now} |->
                    IF i = Now THEN [to |-> run.pt, no |-> issued'[run.pt]] ELSE inflight[i]]
  /\ Fixed /\ NoReply /\ UNCHANGED <<queue, reg, subVars, negotiated>>

(* It settles: not sent, an answer, an error, the request's timeout.       *)
Upstream == {"dial", "rpc"}
Untracks(i) == inflight' = [j \in DOMAIN inflight \ {i} |-> inflight[j]]
               /\ UNCHANGED issued
ForwardDone ==
  /\ run.stage \in Upstream /\ run.link.kind # "batch" /\ ~exited
  /\ run' = Idle /\ Untracks(run.link.id) /\ Answer(run.link.id)
  /\ Fixed /\ UNCHANGED <<queue, subVars, negotiated>>

(* handleBatch: admitted in a 2025-03-26 session, one member at a time,    *)
(* one array of replies; without a wrap there is nobody to forward to.     *)
StartBatch ==
  /\ Takes("batch") /\ negotiated = "2025-03-26" /\ wrap # NoWrap
  /\ Runs("dial")
  /\ Arms /\ Fixed /\ NoReply /\ UNCHANGED <<reg, wireVars, subs, negotiated>>
AnswerBatch ==
  /\ Takes("batch") /\ negotiated = "2025-03-26" /\ wrap = NoWrap
  /\ Reply({Head(queue).id, Head(queue).id + 1}) /\ Arms
  /\ Fixed /\ UNCHANGED <<run, reg, wireVars, subs, negotiated>>
NextMember ==
  /\ run.stage \in Upstream /\ run.link.kind = "batch" /\ run.at = 0 /\ ~exited
  /\ wrap # NoWrap /\ run' = [run EXCEPT !.at = 1, !.pt = wrap, !.stage = "dial"]
  /\ Untracks(run.link.id)
  /\ Arms /\ Fixed /\ NoReply /\ UNCHANGED <<queue, reg, subs, negotiated>>
BatchDone ==
  /\ run.stage \in Upstream /\ run.link.kind = "batch" /\ (run.at = 1 \/ wrap = NoWrap)
  /\ ~exited /\ run' = Idle
  /\ Untracks(Now) /\ Reply({run.link.id, run.link.id + 1})
  /\ IF run.at = 0 THEN Arms ELSE UNCHANGED <<refs, scope>>
  /\ Fixed /\ UNCHANGED <<queue, reg, subs, negotiated>>

(* Any other session refuses the array: one error, with no id.             *)
RefuseQuietly ==                           \* were the array dropped
  /\ Takes("batch") /\ negotiated # "2025-03-26"
  /\ Fixed /\ NoReply /\ UNCHANGED <<run, reg, wireVars, subVars, negotiated>>
RefuseBatch ==
  /\ Takes("batch") /\ negotiated # "2025-03-26"
  /\ refused' = refused \cup {Head(queue).id, Head(queue).id + 1}
  /\ Fixed /\ UNCHANGED <<run, reg, wireVars, subVars, negotiated, replied, turns, late>>

(* subscriptions/listen: the resource is agreed if an upstream can honour  *)
(* it; the same id again replaces the registration.                        *)
Registered(new) ==
  LET same == {k \in DOMAIN subs : subs[k].id = new.id}
  IN IF same = {} THEN Append(subs, new)
     ELSE [k \in DOMAIN subs |-> IF k \in same THEN new ELSE subs[k]]
AfterReplace(n, id) == n                    \* were the replaced one not released
AfterRelease(n, id) ==
  IF \E k \in Holders : subs[k].id = id THEN Less(n, 1) ELSE n
Held(uri) == IF uri THEN Armed + 1 ELSE Armed
Listen ==
  /\ \E k \in Listens : Takes(k)
  /\ \E uri \in BOOLEAN :
       LET new == [id |-> Head(queue).id, uri |-> uri]
       IN /\ uri => Head(queue).kind = "watch"
          /\ refs' = AfterRelease(Held(uri), new.id)
          /\ subs' = Registered(new)
  /\ scope' = wrap /\ Lines({Head(queue).id}) /\ replied' = replied \cup {Head(queue).id}
  /\ Fixed /\ UNCHANGED <<run, reg, wireVars, negotiated, turns, refused>>

(* An invalid one is answered with an error; what it names stays open.     *)
RefuseListen ==
  /\ \E k \in Listens : Takes(k)
  /\ Lines({Head(queue).id}) /\ replied' = replied \cup {Head(queue).id}
  /\ Fixed /\ UNCHANGED <<run, reg, wireVars, subVars, negotiated, turns, refused>>

-----------------------------------------------------------------------------
(* notify: a change goes tagged to the subscriptions that agreed to it.    *)
(* (Without any it goes raw, to a client that never was modern.)           *)
Notify ==
  /\ ~exited
  /\ \E ofResource \in BOOLEAN :
       LET to == {k \in DOMAIN subs : ofResource => subs[k].uri}
       IN to # {} /\ Lines({subs[k].id : k \in to})
  /\ UNCHANGED <<kind, chainVars, wireVars, subVars, negotiated, wrapVars, endVars,
                 cancelled, replied, turns, refused>>

(* The operator wraps the session around another upstream, or unwraps it.  *)
Retarget ==
  /\ retargets < MaxRetargets /\ retargets' = retargets + 1
  /\ QuietRetarget => \A k \in DOMAIN subs : ~subs[k].uri
  /\ wrap' \in (Targets \cup {NoWrap}) \ {wrap}
  /\ UNCHANGED <<kind, chainVars, wireVars, subVars, negotiated, endVars,
                 cancelled, outVars>>

Starts == \/ SkipLink \/ StartAndAnswer \/ StartNote \/ StartMirror \/ StartForward
          \/ StartCall \/ StartBatch \/ AnswerBatch \/ RefuseBatch \/ Listen \/ RefuseListen
Steps == \/ MirrorDone \/ GateAllows \/ GateDenies \/ ToolDone \/ Send \/ ForwardDone
         \/ NextMember \/ BatchDone
Next ==
  \/ \E k \in Singles : SendRequest(k)
  \/ \E k \in Listens : SendListen(k)
  \/ SendBatch \/ SendNote \/ Overflow \/ Exit \/ End \/ Starts \/ Steps \/ Notify \/ Retarget
  \/ \E i \in Ids : Cancel(i)

Spec == Init /\ [][Next]_vars
(* The event loop runs what is ready; hooks, upstreams and reconnects end, *)
(* if only by their timeouts.                                              *)
FairSpec == Spec /\ WF_vars(Starts) /\ WF_vars(Steps)
-----------------------------------------------------------------------------
(* Every request that is not a listen is replied to once and in the order  *)
(* the client sent them; and one of its own message, cancelled before its  *)
(* reply, is never written to (the chain and the flag of enqueue).         *)
AnswersInTurn ==
  /\ turns = {}
  /\ \A i \in late : kind[i] # "single"

(* A forward can be cancelled from the moment it is sent until it settles, *)
(* and the cancel stops that request and no other of the upstream it went  *)
(* to, whose numbers are others: so long as the session is wrapped around  *)
(* it.  After an edit of the wrap forwardWrapped relays the number to the  *)
(* new upstream, where it names another request.                           *)
CancelNamesItsForward ==
  run.stage = "rpc" /\ wrap = run.pt =>
    Relayed(Now) = {[to |-> run.pt, no |-> issued[run.pt]]}

(* The gateway holds a resource upstream for exactly the subscriptions     *)
(* that agreed to it, whatever was cancelled, replaced or closed: none is  *)
(* leaked, none ends under another one, and a listen that was sent again   *)
(* has one subscription (subscribeResources, releaseResources).            *)
RefsMatchSubs ==
  /\ refs = Cardinality(Holders)
  /\ \A i, j \in DOMAIN subs : subs[i].id = subs[j].id => i = j

(* Every request is answered, unless it is cancelled or the session ends   *)
(* over a message that has no end (the chain of createStdioLoop).          *)
EveryRequestAnswered ==
  \A i \in Ids : i \in DOMAIN kind ~> (i \in replied \cup refused \cup cancelled \/ exited)

-----------------------------------------------------------------------------
(* The inductive invariant.                                                *)
KindOf(link) == IF link.kind \in Singles THEN "single" ELSE link.kind
LinkIds(link) ==
  CASE link.kind = "note" -> {}
    [] link.kind = "batch" -> {link.id, link.id + 1}
    [] OTHER -> {link.id}
(* The requests a link replies to in their turn.                           *)
Due(link) == IF link.kind \in Listens THEN {} ELSE LinkIds(link)
Before(S, T) == \A i \in S, j \in T : i < j

(* What a link says it is, and that it can be cancelled.                   *)
Fits(link) ==
  /\ \A i \in LinkIds(link) : i \in DOMAIN kind /\ kind[i] = KindOf(link)
  /\ link.kind \in Singles => link.id \in DOMAIN reg

(* Ids are given in order, and the chain keeps it: what is replied to, is  *)
(* under way and waits come one after the other.                           *)
ChainInv ==
  /\ \E n \in 0..MaxIds : DOMAIN kind = 1..n
  /\ Fits(run.link) /\ \A k \in DOMAIN queue : Fits(queue[k])
  /\ run.link.kind \notin Listens /\ (run.stage = "idle" => run = Idle)
  /\ Before(replied, LinkIds(run.link))
  /\ \A k \in DOMAIN queue :
       /\ Before(replied \cup LinkIds(run.link), Due(queue[k]))
       /\ \A j \in DOMAIN queue : j < k => Before(LinkIds(queue[j]), Due(queue[k]))

(* A cancel that came in time is in the registry; only subscriptions of    *)
(* listens are open.                                                       *)
WordInv ==
  /\ turns = {}
  /\ \A i \in late : kind[i] # "single"
  /\ \A i \in DOMAIN reg : kind[i] = "single"
  /\ \A i \in cancelled \cap DOMAIN reg : reg[i].cancelled
  /\ \A k \in DOMAIN subs : subs[k].id \in DOMAIN kind /\ kind[subs[k].id] \in Listens

(* A forward is tracked while it runs, under the id its upstream knows.    *)
WireInv ==
  /\ run.stage # "rpc" => DOMAIN inflight = {}
  /\ run.stage = "rpc" => /\ DOMAIN inflight = {Now}
                          /\ inflight[Now] = [to |-> run.pt, no |-> issued[run.pt]]
  /\ run.stage \in Upstream => run.pt \in Targets /\ run.link.kind \in Singles \cup {"batch"}
  /\ run.stage \in {"mirror", "gate", "tool"} => run.link.kind \in Singles
  /\ run.at = 1 => run.link.kind = "batch"

(* The session never holds more than its subscriptions ask for, and holds  *)
(* nothing of a wrap it has not yet met, unless an edit took it away.      *)
SubsInv ==
  /\ subs \in Seq([id : Ids, uri : BOOLEAN])
  /\ \A i, j \in DOMAIN subs : subs[i].id = subs[j].id => i = j
  /\ refs <= Cardinality(Holders)
  /\ QuietRetarget => refs = Cardinality(Holders) /\ (wrap # scope => refs = 0)

LoopInv == TypeOK /\ ChainInv /\ WordInv /\ WireInv /\ SubsInv

(* What EveryRequestAnswered rests on: no request falls off the chain.     *)
(* Each is replied to, refused, cancelled, under way or waiting; the link  *)
(* at the head or the one under way is always there to go on with.         *)
Waits(i) == i \in LinkIds(run.link) \/ \E k \in DOMAIN queue : i \in LinkIds(queue[k])
NobodySkipped ==
  \A i \in DOMAIN kind : i \in replied \cup refused \cup cancelled \/ Waits(i)

(* A reply is withheld only for a cancel that is on record.                *)
FlagInv == \A i \in DOMAIN reg : reg[i].cancelled => i \in replied \cup cancelled
=============================================================================
