------------------------------ MODULE McpClient ------------------------------
(***************************************************************************)
(* One McpClient (src/mcp/mcp-client.js): the JSON-RPC client that spawns  *)
(* an upstream, negotiates the era with it, frames what it reads and       *)
(* matches answers to requests.  The upstream answers when and what it     *)
(* likes, or dies in the middle of a message.                              *)
(*                                                                         *)
(* A message travels as chunks: a whole line, the pieces of a line and its *)
(* end, or a Content-Length header and that many chunks of body.  A read   *)
(* takes any number of them, of one message or of several, and the buffer  *)
(* is then drained a frame at a time with nothing else running.  Timers    *)
(* are events that may come at any time; ElicitBridge has the holds and    *)
(* beats that re-arm them.                                                 *)
(***************************************************************************)
EXTENDS Integers, Sequences, FiniteSets, SequencesExt

CONSTANTS Policies, \* of "none", "pin" (legacyPin) and "modernOnly"
          Cap,      \* MAX_MESSAGE_BYTES, in chunks
          MaxIds,   \* bound: requests sent
          MaxSent,  \* bound: messages of the two children
          MaxPipe   \* bound: chunks a child's stdout holds when it writes more

ASSUME ClientConfig ==
  /\ Policies \subseteq {"none", "pin", "modernOnly"} /\ Policies # {}
  /\ Cap \in Nat /\ Cap > 1 /\ MaxIds \in Nat /\ MaxSent \in Nat /\ MaxPipe \in Nat

Ids == 1..MaxIds
Kids == 1..2          \* a client spawns at most twice
NoKid == 0

VARIABLES
  policy,     \* the option: an era policy
  phase,      \* connect(): new, probe, init, up, failed
  child,      \* the child in use, or NoKid
  spawned,    \* children spawned so far
  alive,      \* children that run
  exits,      \* dead children whose exit event is still to come
  pipe,       \* per child, the chunks on its stdout
  heard,      \* per child, the requests it has read and not answered
  buf, skip,  \* the read buffer; chunks of a refused message to discard
  nextId,
  waiters,    \* the requests that wait: their method and child
  cont,       \* how the handshake request settled whose awaiting code is to
              \* resume, or "none"
  draining,   \* a read is being drained
  closed, connected, ever, told,  \* ever: was connected; told: onClose fired
  modern, definitive,
  sent,       \* history: messages of each child
  wrote, got, \* histories: how the first child, alive, wrote each message, and
              \* the messages of its that were dispatched
  crossed,    \* history: a child's answer settled a request of the other
  probed      \* history: how the probe settled, or "none"

connVars == <<phase, child, spawned, closed, connected, ever, told, modern, definitive>>
wireVars == <<alive, exits, wrote, got, pipe, heard, sent>>
readVars == <<buf, skip, draining>>
waitVars == <<waiters, cont, crossed, probed>>
vars == <<policy, connVars, wireVars, readVars, nextId, waitVars>>

(* kind: a notification; to the probe, a DiscoverResult that lists the     *)
(* modern version or any other answer; else a result or an error.          *)
Msg == [from : Kids, nth : 1..MaxSent, id : 0..MaxIds, kind : {"note", "good", "bad"}]
Chunk == [part : {"line", "piece", "end", "open", "rest", "head", "body"}, msg : Msg,
          len : 0..(Cap + 1)]
Waiter == [method : {"discover", "initialize", "ask"}, to : Kids]
Outcomes == {"good", "bad", "timeout", "gone"}
Ways == {"line", "framed", "refused"}  \* refused: declared longer than the cap

(* The type invariant. *)
TypeOK ==
  /\ policy \in Policies
  /\ phase \in {"new", "probe", "init", "up", "failed"}
  /\ spawned \in 0..2 /\ child \in {NoKid, spawned}
  /\ alive \subseteq Kids /\ exits \subseteq Kids \ alive
  /\ pipe \in [Kids -> Seq(Chunk)] /\ heard \in [Kids -> SUBSET Ids]
  /\ buf \in Seq(Chunk) /\ skip \in 0..(Cap + 1)
  /\ nextId \in 1..(MaxIds + 1)
  /\ DOMAIN waiters \subseteq Ids /\ Range(waiters) \subseteq Waiter
  /\ {cont, probed} \subseteq Outcomes \cup {"none"}
  /\ {closed, connected, ever, told, modern, definitive, crossed, draining} \subseteq BOOLEAN
  /\ sent \in [Kids -> 0..MaxSent] /\ wrote \in Seq(Ways) /\ got \in Seq(1..MaxSent)

Init ==
  /\ policy \in Policies
  /\ phase = "new" /\ child = NoKid /\ spawned = 0 /\ alive = {} /\ exits = {}
  /\ pipe = [k \in Kids |-> <<>>] /\ heard = [k \in Kids |-> {}]
  /\ buf = <<>> /\ skip = 0 /\ nextId = 1
  /\ waiters = <<>> /\ cont = "none" /\ draining = FALSE
  /\ closed = FALSE /\ connected = FALSE /\ ever = FALSE /\ told = FALSE
  /\ modern = FALSE /\ definitive = FALSE
  /\ sent = [k \in Kids |-> 0] /\ wrote = <<>> /\ got = <<>>
  /\ crossed = FALSE /\ probed = "none"

-----------------------------------------------------------------------------
(* Were ids counted anew for each child:                                   *)
RequestsAnew(k, method) ==
  LET i == IF k = 2 /\ method = "initialize" THEN 1 ELSE nextId
  IN /\ i <= MaxIds /\ nextId' = i + 1
     /\ waiters' = [j \in DOMAIN waiters \cup {i} |->
                      IF j = i THEN [method |-> method, to |-> k] ELSE waiters[j]]
     /\ heard' = IF k \in alive' THEN [heard EXCEPT ![k] = @ \cup {i}] ELSE heard

(* A request is written to the child in use; one that died without its     *)
(* exit event having come never reads it.                                  *)
Requests(k, method) ==
  /\ nextId <= MaxIds /\ nextId' = nextId + 1
  /\ waiters' = [i \in DOMAIN waiters \cup {nextId} |->
                   IF i = nextId THEN [method |-> method, to |-> k] ELSE waiters[i]]
  /\ heard' = IF k \in alive' THEN [heard EXCEPT ![k] = @ \cup {nextId}] ELSE heard

(* The waiters in ids settle; awaiting code of the handshake resumes.      *)
Settle(ids, how, by) ==
  LET done == {waiters[i] : i \in ids}
      shake == \E w \in done : w.method # "ask"
  IN /\ waiters' = [i \in DOMAIN waiters \ ids |-> waiters[i]]
     /\ cont' = IF shake THEN how ELSE cont
     /\ crossed' = (crossed \/ \E w \in done : by \notin {NoKid, w.to})
     /\ probed' = IF \E w \in done : w.method = "discover" THEN how ELSE probed

(* _spawnChild: a child and its pipes.                                     *)
Spawns(k) ==
  /\ k = spawned + 1 /\ k \in Kids
  /\ spawned' = k /\ child' = k /\ alive' = alive \cup {k}

(* _treeKill; the exit event follows.                                      *)
Kills(k) ==
  /\ alive' = alive \ {k} /\ exits' = exits \cup ({k} \cap alive)
  /\ IF k = 1 THEN wrote' = <<>> /\ got' = <<>> ELSE UNCHANGED <<wrote, got>>

(* connect(): the owner's memo of a legacy era and a pin skip the probe,   *)
(* but the policy modernOnly needs it.  A spawn that throws rejects the    *)
(* connect.                                                                *)
SkipProbe(memo) == policy = "pin" \/ (memo /\ policy # "modernOnly")
Connect(memo) ==
  /\ phase = "new" /\ ~closed
  /\ \/ /\ Spawns(1)
        /\ phase' = IF SkipProbe(memo) THEN "init" ELSE "probe"
        /\ Requests(1, IF SkipProbe(memo) THEN "initialize" ELSE "discover")
     \/ /\ phase' = "failed"
        /\ UNCHANGED <<child, spawned, alive, nextId, waiters, heard>>
  /\ UNCHANGED <<policy, closed, connected, ever, told, modern, definitive, exits,
                 wrote, got, pipe, sent, readVars, cont, crossed, probed>>

(* close(), of what it is not idempotent about: everything in flight is    *)
(* rejected and the child killed.                                          *)
Closes ==
  /\ closed' = TRUE /\ connected' = FALSE
  /\ waiters' = <<>> /\ Kills(child) /\ child' = NoKid

(* Were a window that elapsed taken for an answer:                         *)
ObservedOrSilent(how) == how # "gone"

(* connect() goes on after the probe.  Only an answer is an observation of *)
(* the era; only a DiscoverResult that lists the modern version makes the  *)
(* connection modern.  A child that died on the probe is replaced, before  *)
(* the policy is looked at; a spawn that throws rejects the connect.       *)
Observed(how) == how \in {"good", "bad"}
ProbeModern ==
  /\ cont = "good"
  /\ phase' = "up" /\ modern' = TRUE /\ connected' = TRUE /\ ever' = TRUE
  /\ UNCHANGED <<child, spawned, closed, alive, exits, wrote, got, heard, nextId, waiters>>
ProbeAborted ==
  /\ cont # "good" /\ (closed \/ child = NoKid) /\ phase' = "failed"
  /\ UNCHANGED <<child, spawned, closed, connected, ever, modern, alive, exits, wrote, got,
                 heard, nextId, waiters>>
ProbeRefused ==
  /\ cont # "good" /\ ~closed /\ policy = "modernOnly"
  /\ phase' = "failed"
  /\ \/ child # NoKid /\ Closes /\ UNCHANGED spawned
     \/ /\ child = NoKid /\ spawned' = 2 /\ exits' = exits \cup {2}
        /\ closed' = TRUE /\ connected' = FALSE
        /\ waiters' = <<>> /\ UNCHANGED <<child, alive, wrote, got>>
  /\ UNCHANGED <<ever, modern, heard, nextId>>
ProbeFallsBack ==
  /\ cont # "good" /\ ~closed /\ policy # "modernOnly" /\ phase' = "init"
  /\ IF child = NoKid THEN Spawns(2) ELSE UNCHANGED <<child, spawned, alive>>
  /\ Requests(child', "initialize")
  /\ UNCHANGED <<connected, ever, closed, modern, exits, wrote, got>>
ProbeDone ==
  /\ cont # "none" /\ ~draining /\ phase = "probe" /\ cont' = "none"
  /\ definitive' = Observed(cont)
  /\ ProbeModern \/ ProbeAborted \/ ProbeRefused \/ ProbeFallsBack
  /\ UNCHANGED <<policy, told, pipe, sent, readVars, crossed, probed>>

(* connect() goes on after initialize: up, or closed with an error.        *)
InitDone ==
  /\ cont # "none" /\ ~draining /\ phase = "init" /\ cont' = "none"
  /\ IF cont = "good"
     THEN /\ phase' = "up" /\ connected' = TRUE /\ ever' = TRUE
          /\ UNCHANGED <<closed, child, alive, exits, wrote, got, waiters>>
     ELSE phase' = "failed" /\ Closes /\ UNCHANGED ever
  /\ UNCHANGED <<policy, spawned, told, modern, definitive, pipe, heard, sent, readVars,
                 nextId, crossed, probed>>

-----------------------------------------------------------------------------
(* Events of the event loop wait until a read is drained and awaiting code *)
(* has run.                                                                *)
Event == cont = "none" /\ ~draining

(* The owner lists tools, a page at a time, or calls one, whether the      *)
(* handshake is over or not.                                               *)
Ask ==
  /\ Event /\ ~closed /\ child # NoKid
  /\ UNCHANGED <<policy, connVars, alive, exits, wrote, got, pipe, sent, readVars,
                 cont, crossed, probed>>
  /\ Requests(child, "ask")

(* The window of a request elapses, or its write to a dead child fails.    *)
Timeout(i) ==
  /\ Event /\ i \in DOMAIN waiters /\ Settle({i}, "timeout", NoKid)
  /\ UNCHANGED <<policy, connVars, wireVars, readVars, nextId>>
WriteFails(i) ==
  /\ Event /\ i \in DOMAIN waiters /\ waiters[i].to \notin alive
  /\ Settle({i}, "gone", NoKid)
  /\ UNCHANGED <<policy, connVars, wireVars, readVars, nextId>>

(* close(): idempotent; everything in flight is rejected.                  *)
Close ==
  /\ Event /\ ~closed /\ closed' = TRUE /\ connected' = FALSE
  /\ Settle(DOMAIN waiters, "gone", NoKid)
  /\ Kills(child) /\ child' = NoKid
  /\ UNCHANGED <<policy, phase, spawned, ever, told, modern, definitive, pipe, heard,
                 sent, readVars, nextId>>

(* Were the waiters of a dead child left to their timers:                  *)
OnExitQuiet(k) ==
  /\ Event /\ k \in exits /\ exits' = exits \ {k}
  /\ connected' = FALSE /\ child' = IF child = k THEN NoKid ELSE child
  /\ UNCHANGED waitVars
  /\ told' = (told \/ (ever /\ ~closed))
  /\ UNCHANGED <<policy, phase, spawned, closed, ever, modern, definitive, alive, wrote, got,
                 pipe, heard, sent, readVars, nextId>>

(* The exit event of a child, or the error event that takes its place: the *)
(* owner is told once, of the unexpected death of a connection it had.     *)
OnExit(k) ==
  /\ Event /\ k \in exits /\ exits' = exits \ {k}
  /\ connected' = FALSE /\ child' = IF child = k THEN NoKid ELSE child
  /\ Settle(DOMAIN waiters, "gone", NoKid)
  /\ told' = (told \/ (ever /\ ~closed))
  /\ UNCHANGED <<policy, phase, spawned, closed, ever, modern, definitive, alive, wrote, got,
                 pipe, heard, sent, readVars, nextId>>

-----------------------------------------------------------------------------
(* The upstream writes a message: what it says, and in which chunks.  A     *)
(* header may arrive in two parts.  Declared lengths may exceed the cap,   *)
(* and an endless message has no newline for longer than that: what these  *)
(* say is nobody's.                                                        *)
ChunkOf(part, m, n) == [part |-> part, msg |-> m, len |-> n]
Times(n, c) == [i \in 1..n |-> c]
Chunks(m, form, n) ==
  LET end == <<ChunkOf("end", m, 0)>>
      piece == ChunkOf("piece", m, 0)
      body == Times(n, ChunkOf("body", m, n))
  IN CASE form = "line" -> <<ChunkOf("line", m, 0)>>
       [] form = "pieces" -> <<piece>> \o end
       [] form = "endless" -> Times(Cap + 1, piece) \o end
       [] form = "framed" -> <<ChunkOf("head", m, n)>> \o body
       [] form = "split" -> <<ChunkOf("open", m, n), ChunkOf("rest", m, n)>> \o body
WayOf(form, n) ==
  IF form \in {"line", "pieces", "endless"} THEN "line"
  ELSE IF n > Cap THEN "refused" ELSE "framed"
Write(k, kind, i, form, n) ==
  LET m == [from |-> k, nth |-> sent[k] + 1, id |-> i, kind |-> kind]
  IN /\ Event /\ k \in alive /\ sent[1] + sent[2] < MaxSent /\ Len(pipe[k]) <= MaxPipe
     /\ sent' = [sent EXCEPT ![k] = @ + 1]
     /\ wrote' = IF k = 1 THEN Append(wrote, WayOf(form, n)) ELSE wrote
     /\ pipe' = [pipe EXCEPT ![k] = @ \o Chunks(m, form, n)]
     /\ heard' = [heard EXCEPT ![k] = @ \ {i}]
     /\ UNCHANGED <<policy, connVars, alive, exits, got, readVars, nextId, waitVars>>
Upstream(k) ==
  \E form \in {"line", "pieces", "endless", "framed", "split"}, n \in {1, Cap, Cap + 1} :
    /\ form # "framed" => n = 1
    /\ \/ Write(k, "note", 0, form, n)
       \/ /\ form # "endless" /\ n <= Cap
          /\ \E i \in heard[k], kind \in {"good", "bad"} :
               Write(k, kind, i, form, n)
(* It dies, with any end of what it wrote still unwritten.                 *)
Die(k) ==
  /\ Event /\ k \in alive /\ Kills(k)
  /\ \E n \in 0..Len(pipe[k]) : pipe' = [pipe EXCEPT ![k] = SubSeq(@, 1, n)]
  /\ UNCHANGED <<policy, connVars, heard, sent, readVars, nextId, waitVars>>

-----------------------------------------------------------------------------
(* _onData: a read, shorter than the cap, joins what the buffer holds.     *)
OnData(k) ==
  /\ Event /\ draining' = TRUE
  /\ \E n \in 1..Cap :
       /\ n <= Len(pipe[k])
       /\ buf' = buf \o SubSeq(pipe[k], 1, n)
       /\ pipe' = [pipe EXCEPT ![k] = SubSeq(@, n + 1, Len(@))]
  /\ UNCHANGED <<policy, connVars, alive, exits, wrote, got, heard, sent, skip, nextId, waitVars>>

First(i, parts) ==
  /\ i \in DOMAIN buf /\ buf[i].part \in parts
  /\ \A j \in 1..(i - 1) : buf[j].part \notin parts
(* A header ends at h; its length is the first that is declared before it, *)
(* wherever in the buffer: at d.                                           *)
Header(h, d) == First(h, {"head", "rest"}) /\ First(d, {"head", "open"}) /\ d <= h
HasHeader == \E h, d \in DOMAIN buf : Header(h, d)
Newline == {"line", "end", "open", "rest"}
Cut(n) == buf' = SubSeq(buf, n + 1, Len(buf))

(* JSON.parse takes what is exactly one message: not spliced, not torn.    *)
Parses(b) ==
  /\ b # <<>> /\ \A c \in Range(b) : c.msg = b[1].msg
  /\ \/ Len(b) = 1 /\ b[1].part = "line"
     \/ Len(b) > 1 /\ b[1].part = "piece" /\ Last(b).part = "end"
     \/ \A c \in Range(b) : c.part = "body" /\ c.len = Len(b)

(* _parseAndDispatch: an answer goes to the request that waits for its id. *)
Routes(m) ==
  /\ got' = IF m.from = 1 /\ 1 \in alive THEN Append(got, m.nth) ELSE got
  /\ IF m.kind # "note" /\ m.id \in DOMAIN waiters
     THEN Settle({m.id}, m.kind, m.from)
     ELSE UNCHANGED waitVars
Dispatches(b) == IF Parses(b) THEN Routes(b[1].msg) ELSE UNCHANGED <<got, waitVars>>

(* One round of _drain: of a refused message that is being skipped, what   *)
(* is here is discarded.                                                   *)
Discards ==
  LET eat == IF skip < Len(buf) THEN skip ELSE Len(buf)
  IN /\ skip > 0 /\ skip' = skip - eat /\ Cut(eat)
     /\ draining' = (skip' = 0)
     /\ UNCHANGED <<alive, exits, wrote, got, waitVars>>
(* Header framing is tried first: over the cap the message is refused,     *)
(* with all its body here it is taken, and either way what precedes the    *)
(* header in the buffer goes with it.                                      *)
Refuses ==
  /\ skip = 0
  /\ \E h, d \in DOMAIN buf :
       Header(h, d) /\ buf[d].len > Cap /\ Cut(h) /\ skip' = buf[d].len
  /\ UNCHANGED <<draining, alive, exits, wrote, got, waitVars>>
TakesBody ==
  /\ skip = 0
  /\ \E h, d \in DOMAIN buf :
       LET end == h + buf[d].len
       IN /\ Header(h, d) /\ buf[d].len <= Cap /\ end <= Len(buf)
          /\ Cut(end) /\ Dispatches(SubSeq(buf, h + 1, end))
  /\ UNCHANGED <<skip, draining, alive, exits, wrote>>
(* Were a header that has begun handed to line framing:                    *)
OpensNever == FALSE

(* Then, unless a header has begun at the front, the first line.           *)
Opens == buf # <<>> /\ buf[1].part = "open"
TakesLine ==
  /\ skip = 0 /\ ~HasHeader /\ ~Opens
  /\ \E l \in DOMAIN buf : First(l, Newline) /\ Cut(l) /\ Dispatches(SubSeq(buf, 1, l))
  /\ UNCHANGED <<skip, draining, alive, exits, wrote>>
(* With no whole frame left the rest waits, or is too long to: then it is  *)
(* dropped and the child killed.  A header counts less than a chunk, so a  *)
(* buffer full of chunks may outgrow the cap before one more is in.        *)
Waits ==
  \/ \E h, d \in DOMAIN buf : Header(h, d) /\ buf[d].len <= Cap /\ h + buf[d].len > Len(buf)
  \/ ~HasHeader /\ (Opens \/ \A c \in Range(buf) : c.part \notin Newline)
MayOutgrow == Len(buf) = Cap /\ HasHeader
Holds ==
  /\ skip = 0 /\ Waits /\ Len(buf) <= Cap
  /\ UNCHANGED <<buf, alive, exits, wrote, got>>
Overflows ==
  /\ skip = 0 /\ Waits /\ (Len(buf) > Cap \/ MayOutgrow)
  /\ buf' = <<>> /\ Kills(child)
Drain ==
  /\ draining
  /\ \/ Discards \/ Refuses \/ TakesBody \/ TakesLine
     \/ (Holds \/ Overflows) /\ draining' = FALSE /\ UNCHANGED <<skip, waitVars>>
  /\ UNCHANGED <<policy, connVars, pipe, heard, sent, nextId>>

Next ==
  \/ \E memo \in BOOLEAN : Connect(memo)
  \/ ProbeDone \/ InitDone \/ Ask \/ Close
  \/ \E i \in Ids : Timeout(i) \/ WriteFails(i)
  \/ \E k \in Kids : OnExit(k) \/ Upstream(k) \/ Die(k) \/ OnData(k)
  \/ Drain

Spec == Init /\ [][Next]_vars
-----------------------------------------------------------------------------
(* While the first child lives, its messages are dispatched once, in the   *)
(* order it wrote them, however their chunks are read and whatever was     *)
(* refused in between; and once all it wrote has been read, one was lost   *)
(* only for declaring more than the cap, or if it is a line that a         *)
(* Content-Length message comes right after, or another line lost so.      *)
(* Nothing longer than the cap is held back (_onData, _drain).             *)
Lost(n) == n \notin Range(got)
FramesSurvive ==
  /\ \A i, j \in DOMAIN got : i < j => got[i] < got[j]
  /\ (spawned = 1 /\ 1 \in alive /\ pipe[1] = <<>> /\ buf = <<>> /\ skip = 0) =>
       \A n \in DOMAIN wrote : Lost(n) =>
         \/ wrote[n] = "refused"
         \/ wrote[n] = "line" /\ n < Len(wrote) /\ (wrote[n + 1] # "line" \/ Lost(n + 1))
  /\ ~draining => Len(buf) <= Cap

(* A request is settled by an answer only of the child it was sent to: a   *)
(* late answer of a child that died on the probe, spliced or not with what *)
(* its replacement says, answers nothing (_request, _parseAndDispatch).    *)
ReplyIsOwn == ~crossed

(* No request outlives its child or the client, and of a connection that   *)
(* was up and is lost the owner has been told, unless it closed it itself  *)
(* (close, _rejectAllWaiters, _fireOnClose).                               *)
GoneIsSettled ==
  /\ \A i \in DOMAIN waiters : ~closed /\ waiters[i].to = child
  /\ connected => child # NoKid /\ ~closed
  /\ (ever /\ ~closed) => (told <=> child = NoKid)

(* The era is what was observed: modern only after a modern answer to the  *)
(* probe, definitive only after an answer; a modernOnly upstream is never  *)
(* up as legacy, and a pinned one is never probed (connect).               *)
EraIsObserved ==
  /\ definitive => probed \in {"good", "bad"}
  /\ policy = "modernOnly" /\ phase = "up" => modern
  /\ modern => probed = "good"
  /\ policy = "pin" => probed = "none"

-----------------------------------------------------------------------------
(* The inductive invariant.                                                *)

(* The handshake has one request pending or none, beside those of an owner *)
(* that asks early; its awaiting code is to resume with a child in use,    *)
(* unless the child is gone or the client closed.                          *)
Asks(i) == waiters[i].method = "ask"
HandshakeShape ==
  /\ phase \in {"probe", "init"} /\ cont = "none" =>
       \E i \in DOMAIN waiters :
         /\ waiters[i].method = IF phase = "probe" THEN "discover" ELSE "initialize"
         /\ \A j \in DOMAIN waiters \ {i} : Asks(j)
  /\ phase = "up" \/ cont # "none" => \A i \in DOMAIN waiters : Asks(i)
  /\ phase \in {"new", "failed"} => DOMAIN waiters = {}
  /\ phase \in {"new", "up", "failed"} => cont = "none"
  /\ cont \in {"good", "bad", "timeout"} => ~closed /\ child # NoKid

(* A child that runs, or whose exit is to come, is the one in use; the     *)
(* owner is only told of a connection that was up.                         *)
ChildShape ==
  /\ phase = "new" => spawned = 0
  /\ phase = "failed" => closed \/ child = NoKid
  /\ phase = "probe" => spawned = 1
  /\ alive \cup exits \subseteq 1..spawned
  /\ ~closed => alive \cup exits \subseteq {child}
  /\ ever <=> phase = "up"
  /\ told => ever

(* What was probed is what the code that awaits the probe resumes with.    *)
EraShape ==
  /\ phase = "new" => probed = "none"
  /\ phase = "probe" => probed = cont /\ policy # "pin"
  /\ phase = "init" => policy # "modernOnly"
  /\ phase \in {"new", "probe", "init"} => ~modern
  /\ phase \in {"new", "probe"} => ~definitive

(* A number is given to one request, so whatever names it, and the child   *)
(* that read it, is of the child it was sent to.                           *)
Owned(i, k) == i < nextId /\ (i \in DOMAIN waiters => waiters[i].to = k)
OwnShape ==
  /\ \A i \in DOMAIN waiters : i < nextId
  /\ \A k \in Kids : \A i \in heard[k] : Owned(i, k)
  /\ \A k \in Kids : \A c \in Range(pipe[k]) : Owned(c.msg.id, c.msg.from)
  /\ \A c \in Range(buf) : Owned(c.msg.id, c.msg.from)

Bounded == ~draining => Len(buf) <= Cap

ClientInv ==
  /\ TypeOK /\ HandshakeShape /\ ChildShape /\ EraShape /\ OwnShape
  /\ ReplyIsOwn /\ GoneIsSettled /\ EraIsObserved /\ Bounded

-----------------------------------------------------------------------------
(* The invariant behind FramesSurvive, of the stream s that the buffer and *)
(* the stdout of the first child are together: n of it are to be skipped,  *)
(* w is how the child wrote its messages and g which were dispatched.      *)
Stream == buf \o pipe[1]
Headers == {"head", "rest"}

(* At i a message begins that comes after the n-th, unless the stream ends. *)
Begins(s, i, n) ==
  i \in DOMAIN s => s[i].part \in {"line", "piece", "open", "head"} /\ s[i].msg.nth > n
(* From i to e go the pieces of a line, or the body that header c declares. *)
LineTo(s, i, e) ==
  /\ i < e /\ s[e].part = "end" /\ s[e].msg = s[i].msg
  /\ \A j \in i..(e - 1) : s[j].part = "piece" /\ s[j].msg = s[i].msg
  /\ Begins(s, e + 1, s[i].msg.nth)
BodyTo(s, i, e, c) ==
  /\ i <= e /\ e <= Len(s)
  /\ \A j \in i..e : s[j] = [c EXCEPT !.part = "body"]
  /\ Begins(s, e + 1, c.msg.nth)
Framed(s) ==
  \A i \in DOMAIN s :
    /\ s[i].part = "line" => Begins(s, i + 1, s[i].msg.nth)
    /\ s[i].part = "piece" => \E e \in DOMAIN s : LineTo(s, i, e)
    /\ s[i].part = "open" => i + 1 \in DOMAIN s /\ s[i + 1] = [s[i] EXCEPT !.part = "rest"]
    /\ s[i].part = "rest" => i - 1 \in DOMAIN s /\ s[i - 1] = [s[i] EXCEPT !.part = "open"]
    /\ s[i].part \in Headers => BodyTo(s, i + 1, i + s[i].len, s[i])

(* It begins at a frame, or within the body that is being skipped.         *)
Started(s, n, w) ==
  /\ n = 0 => Begins(s, 1, 0)
  /\ n > 0 => \E m \in Msg :
       /\ m.nth \in DOMAIN w /\ w[m.nth] = "refused" /\ n <= Len(s)
       /\ \A j \in 1..n : s[j].part = "body" /\ s[j].msg = m
       /\ Begins(s, n + 1, m.nth)

(* Its messages are the latest of the child, in order and in the way they  *)
(* were written; a framed one has its header here.                         *)
Here(j, s) == \E i \in DOMAIN s : s[i].msg.nth = j
InOrder(s, n, w) ==
  /\ \A i, j \in DOMAIN s : i < j => s[i].msg.nth <= s[j].msg.nth
  /\ \A i \in DOMAIN s : s[i].msg.from = 1 /\ s[i].msg.nth \in DOMAIN w
  /\ \A j \in DOMAIN w : Here(j, s) /\ j < Len(w) => Here(j + 1, s)
  /\ \A i \in DOMAIN s :
       /\ s[i].part \in {"line", "piece", "end"} <=> w[s[i].msg.nth] = "line"
       /\ s[i].part \in Headers => (s[i].len > Cap <=> w[s[i].msg.nth] = "refused")
       /\ s[i].part = "body" /\ i > n =>
            \E j \in DOMAIN s : s[j].part \in Headers /\ s[j].msg = s[i].msg

(* A message that is neither dispatched nor on the way was lost as         *)
(* FramesSurvive says.                                                     *)
Gone(j, s, g) == j \notin Range(g) /\ ~Here(j, s)
Accounted(s, w, g) ==
  /\ \A i, j \in DOMAIN g : i < j => g[i] < g[j]
  /\ \A i \in DOMAIN g : g[i] \in DOMAIN w /\ \A j \in DOMAIN s : g[i] < s[j].msg.nth
  /\ \A j \in DOMAIN w : Gone(j, s, g) =>
       \/ w[j] = "refused"
       \/ w[j] = "line" /\ j < Len(w) /\ (w[j + 1] # "line" \/ Gone(j + 1, s, g))

StreamShape(s, n, w, g) ==
  Framed(s) /\ Started(s, n, w) /\ InOrder(s, n, w) /\ Accounted(s, w, g)

FrameInv ==
  /\ \A k \in Kids : k > spawned => pipe[k] = <<>>
  /\ spawned = 0 => buf = <<>> /\ skip = 0 /\ wrote = <<>> /\ got = <<>> /\ sent[1] = 0
  /\ closed => alive = {}
  /\ \A i, j \in DOMAIN got : i < j => got[i] < got[j]
  /\ spawned = 1 /\ 1 \in alive =>
       Len(wrote) = sent[1] /\ StreamShape(Stream, skip, wrote, got)
=============================================================================
