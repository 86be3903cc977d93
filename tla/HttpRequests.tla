---------------------------- MODULE HttpRequests ----------------------------
(***************************************************************************)
(* The requests of the HTTP host (onRequest, handleMcpPost, openSse and    *)
(* openListenStream, src/mcp/http-transport.js) in the middle of its life  *)
(* cycle, HostLifecycle: a handler awaits the token's verdict, the body    *)
(* and the answer, and in between the client may hang up, the settings of  *)
(* the gate may be edited, and the host may be stopped or reloaded.        *)
(*                                                                         *)
(* A connection carries one request.  What a message says and how an       *)
(* answer is worded is left out; ToolGate has what a call goes through.    *)
(***************************************************************************)
EXTENDS HostLifecycle

CONSTANTS Conns,    \* connections; Listeners are those that may listen
          Issuers,  \* authorization servers auth.config.json may name
          Kinds     \* requests that arrive: call, ask, sse, listen

Off == "off"        \* the gate is disabled
Local == "local"    \* a loopback client, with no token
ASSUME HttpSets == /\ Listeners \subseteq Conns /\ IsFiniteSet(Conns)
                   /\ Kinds \subseteq {"call", "ask", "sse", "listen"}
                   /\ {Off, Local} \cap Issuers = {}

VARIABLES
  auth,       \* auth.config.json: Off, or whose tokens are accepted
  validator,  \* _validator: whose tokens the last one made accepts
  conn,       \* per connection, its request and how far its handler is
  cancels,    \* disconnectCancels
  announcing, \* reloads that have swapped, and have yet to broadcast
  fresh       \* streams that were told, or opened, since the last swap

connVars == <<conn, cancels, fresh>>
authVars == <<auth, validator>>
httpVars == <<connVars, authVars, announcing>>

Auths == Issuers \cup {Off}
Clients == Issuers \cup {Local}   \* a remote one has a token of that issuer
Stages == {"unused", "auth", "body", "handling", "stream", "done"}
Request == [kind : Kinds \cup {"none"}, stage : Stages, from : Clients, under : Auths,
            gate : Auths, open : BOOLEAN, left : BOOLEAN, said : 0..2]
Unused == [kind |-> "none", stage |-> "unused", from |-> Local, under |-> Off,
           gate |-> Off, open |-> FALSE, left |-> FALSE, said |-> 0]

(* The type invariant: only a call that is handled is marked as left, and  *)
(* only an open listen stream holds the resource.                          *)
HttpTypeOK ==
  /\ auth \in Auths /\ validator \in Auths
  /\ conn \in [Conns -> Request]
  /\ cancels \in 0..Cardinality(Conns) /\ announcing \in Nat
  /\ \A c \in Conns : conn[c].left => conn[c].kind = "call" /\ ~conn[c].open
  /\ \A c \in listeners : conn[c].kind = "listen" /\ conn[c].open
  /\ fresh \in SUBSET Conns

HttpInit ==
  /\ Init
  /\ auth \in Auths /\ validator = Off
  /\ conn = [c \in Conns |-> Unused]
  /\ cancels = 0 /\ announcing = 0 /\ fresh = {}

-----------------------------------------------------------------------------
(* Streams are kept in sseClients and modernListeners.  One whose client   *)
(* hung up before it was opened (during the gate) stays there.             *)
Streams == {c \in Conns : conn[c].stage = "stream" /\ conn[c].open}
Registered == {c \in Conns : conn[c].stage = "stream" /\ conn[c].kind = "listen"}

(* The request of c moves on to a stage and is let through the gate.       *)
Passed(r, to) == [r EXCEPT !.stage = to, !.under = Off, !.gate = Off]
Answered(r) == [Passed(r, "done") EXCEPT !.from = Local, !.said = @ + 1]
Becomes(c, r) == conn' = [conn EXCEPT ![c] = r]

Routed(c, r) ==
  IF r.kind = "sse"
  THEN Becomes(c, Passed(r, "stream")) /\ fresh' = fresh \cup {c}
  ELSE Becomes(c, Passed(r, "body")) /\ UNCHANGED fresh

(* sendJson, sendAuthChallenge                                             *)
Reply(c) == Becomes(c, Answered(conn[c])) /\ UNCHANGED <<cancels, fresh>>

-----------------------------------------------------------------------------
(* onRequest reads the settings of the gate, once.                         *)
Arrival(c, k, f) ==
  /\ sockets # {} /\ conn[c] = Unused
  /\ UNCHANGED <<vars, auth, cancels, announcing>>
New(k, f) == [Unused EXCEPT !.kind = k, !.from = f, !.open = TRUE]

(* Gate off: whoever comes by loopback is let through, anyone else is not. *)
Arrive(c, k) ==
  Arrival(c, k, Local) /\ auth = Off /\ Routed(c, New(k, Local)) /\ UNCHANGED validator
Forbid(c, k, f) ==
  /\ Arrival(c, k, f) /\ auth = Off /\ f # Local
  /\ Becomes(c, Answered(New(k, f))) /\ UNCHANGED <<validator, fresh>>

(* Gate on: the validator is kept until the settings differ (validatorFor) *)
(* and its verdict, which may have to fetch keys, awaited.                 *)
ValidatorKept(a) == IF validator = Off THEN a ELSE validator \* were it never rebuilt
ValidatorFor(a) == IF validator = a THEN validator ELSE a
ArriveGated(c, k, f) ==
  /\ Arrival(c, k, f) /\ auth # Off
  /\ validator' = ValidatorFor(auth)
  /\ Becomes(c, [New(k, f) EXCEPT !.stage = "auth", !.under = auth, !.gate = ValidatorFor(auth)])
  /\ UNCHANGED fresh

(* passesAuth resumes.  Any failure rejects, so a good token may be.       *)
Accepts(v, f) == f = v
Admit(c) ==
  /\ conn[c].stage = "auth" /\ Accepts(conn[c].gate, conn[c].from)
  /\ Routed(c, conn[c])
  /\ UNCHANGED <<vars, authVars, cancels, announcing>>
Deny(c) ==
  /\ conn[c].stage = "auth" /\ Reply(c)
  /\ UNCHANGED <<vars, authVars, announcing>>

EditAuth ==
  /\ \E a \in Auths \ {auth} : auth' = a
  /\ UNCHANGED <<vars, validator, connVars, announcing>>

-----------------------------------------------------------------------------
(* handleMcpPost: readBody resumes.  The body of a client that is gone is  *)
(* never read to its end.                                                  *)
BodyIn(c) == conn[c].stage = "body" /\ conn[c].open /\ UNCHANGED <<authVars, announcing>>

(* Too large, no JSON, a header that contradicts the body, a batch that is *)
(* too long or modern: answered here.                                      *)
Reject(c) == BodyIn(c) /\ Reply(c) /\ UNCHANGED vars

(* openListenStream: refused at capacity, before anything is subscribed;   *)
RefuseListen(c) ==
  /\ BodyIn(c) /\ conn[c].kind = "listen" /\ Cardinality(Registered) >= ListenersMax
  /\ Reply(c) /\ UNCHANGED vars
(* ... else the resource is agreed to if an upstream can honour it.        *)
OpenListen(c) ==
  /\ BodyIn(c) /\ conn[c].kind = "listen" /\ Cardinality(Registered) < ListenersMax
  /\ Becomes(c, Passed(conn[c], "stream")) /\ fresh' = fresh \cup {c}
  /\ UNCHANGED cancels
  /\ UNCHANGED vars \/ (c \in Listeners /\ Listen(c))

(* The build of this moment gets the message (handleMessage, handleBatch). *)
Hand(c) ==
  /\ BodyIn(c) /\ conn[c].kind \in {"call", "ask"}
  /\ Becomes(c, [Passed(conn[c], "handling") EXCEPT !.from = Local])
  /\ UNCHANGED <<vars, cancels, fresh>>

(* Mistake: modernDisconnected is not looked at.                           *)
HandledAnyway(c) ==
  /\ conn[c].stage = "handling" /\ Reply(c)
  /\ UNCHANGED <<vars, authVars, announcing>>

(* ... and answers.  A call whose client hung up gets no message.          *)
Handled(c) ==
  /\ conn[c].stage = "handling"
  /\ IF conn[c].left THEN Becomes(c, Passed(conn[c], "done")) ELSE Becomes(c, Answered(conn[c]))
  /\ UNCHANGED <<vars, authVars, cancels, announcing, fresh>>

-----------------------------------------------------------------------------
(* The socket closes: the client hangs up, or the host destroys it.  Only  *)
(* the premature close of a modern tools/call is a cancellation; a body    *)
(* that breaks off is answered all the same.                               *)
Counts(r) == r.kind = "call" /\ r.stage = "handling"
Closed(r) ==
  IF r.stage = "body" THEN [Answered(r) EXCEPT !.open = FALSE]
  ELSE IF r.stage = "stream" THEN [Passed(r, "done") EXCEPT !.open = FALSE, !.from = Local]
  ELSE [r EXCEPT !.open = FALSE, !.left = Counts(r)]

Leave(c) ==
  /\ conn[c].open
  /\ Becomes(c, Closed(conn[c])) /\ fresh' = fresh \ {c}
  /\ cancels' = IF Counts(conn[c]) THEN cancels + 1 ELSE cancels
  /\ IF c \in listeners THEN Unlisten(c) ELSE UNCHANGED vars
  /\ UNCHANGED <<authVars, announcing>>

(* stop ends the streams first ...                                         *)
StopHttp ==
  /\ Stop
  /\ conn' = [c \in Conns |-> IF conn[c].stage = "stream" THEN Closed(conn[c]) ELSE conn[c]]
  /\ fresh' = {} /\ UNCHANGED <<cancels, authVars, announcing>>

(* ... and destroys every other socket with the server.                    *)
StopHttpDone ==
  /\ StopDone
  /\ conn' = [c \in Conns |-> IF conn[c].open THEN Closed(conn[c]) ELSE conn[c]]
  /\ cancels' = cancels + Cardinality({c \in Conns : conn[c].open /\ Counts(conn[c])})
  /\ fresh' = {} /\ UNCHANGED <<authVars, announcing>>

-----------------------------------------------------------------------------
(* A reload swaps, awaits the end of the old aggregator, and broadcasts    *)
(* tools/list_changed; what a client lists then is the build it asks.      *)

(* Mistake: the broadcast goes out before the swap.                        *)
AnnouncedFirst == fresh' = {} /\ UNCHANGED announcing
Swapped ==
  /\ announcing' = announcing + 1
  /\ fresh' = IF Current' = Current THEN fresh ELSE {}

ReloadHttpDone ==
  /\ \/ \E a \in Aggs : ReloadDone(a)
     \/ \E op \in swapping : SwapDone(op)
  /\ Swapped /\ UNCHANGED <<conn, cancels, authVars>>

(* pushToSse and pushToListeners                                           *)
Broadcast ==
  /\ announcing > 0 /\ announcing' = announcing - 1
  /\ fresh' = Streams
  /\ UNCHANGED <<vars, conn, cancels, authVars>>

(* What the requests do not see of the host's life cycle.                  *)
Behind ==
  /\ \/ Start \/ StopIdle \/ Reload \/ Edit
     \/ \E a \in Aggs : StartBinds(a) \/ StartFails(a) \/ Watched(a)
  /\ UNCHANGED httpVars

HttpNext ==
  \/ Behind \/ StopHttp \/ StopHttpDone \/ ReloadHttpDone \/ Broadcast \/ EditAuth
  \/ \E c \in Conns :
       \/ \E k \in Kinds : Arrive(c, k) \/ \E f \in Clients : Forbid(c, k, f) \/ ArriveGated(c, k, f)
       \/ Admit(c) \/ Deny(c)
       \/ Reject(c) \/ RefuseListen(c) \/ OpenListen(c) \/ Hand(c) \/ Handled(c) \/ Leave(c)

allVars == <<vars, httpVars>>
HttpSpec == HttpInit /\ [][HttpNext]_allVars

(* The host's fairness: connects settle, timers fire, sockets close; and   *)
(* closeAll, which a broadcast waits for, ends.                            *)
HttpFairness ==
  /\ WF_allVars(StopHttpDone) /\ WF_allVars(Broadcast)
  /\ \A a \in Aggs : /\ WF_allVars(Behind /\ (StartBinds(a) \/ StartFails(a)))
                     /\ WF_allVars(ReloadHttpDone /\ ReloadDone(a))
                     /\ WF_allVars(Behind /\ Notice(a))
                     /\ WF_allVars(Behind /\ (Fires(a) \/ FiresInVain(a)))
  /\ WF_allVars(ReloadHttpDone /\ \E op \in swapping : SwapDone(op))

HttpFairSpec == HttpSpec /\ HttpFairness

-----------------------------------------------------------------------------
(* Properties.                                                             *)

(* A modern tools/call that was handed over is either answered, once, or   *)
(* counted as cancelled and never written to again, whoever closed its     *)
(* socket and however late its answer is (handleMcpPost, "the counter      *)
(* honest").                                                               *)
CallsAccounted ==
  LET cut == {c \in Conns : /\ conn[c].kind = "call" /\ ~conn[c].open /\ conn[c].said = 0
                            /\ conn[c].stage \in {"handling", "done"}}
  IN cancels = Cardinality(cut) /\ \A c \in Conns : conn[c].said <= 1

(* A request is let through by the settings it arrived under, whatever     *)
(* validator was kept from others and whatever is edited while its verdict *)
(* is awaited (onRequest, validatorFor, passesAuth).                       *)
AdmittedByItsSettings ==
  [][\A c \in Conns :
       conn'[c].stage \in {"body", "stream"} /\ conn[c].stage \in {"unused", "auth"} =>
         IF conn[c].stage = "auth" THEN conn[c].from = conn[c].under
                                   ELSE auth = Off /\ conn'[c].from = Local]_allVars

(* An open stream hears of every swap, so that its client lists the tools  *)
(* of the aggregator that serves it (reload, reloadExpose).                *)
StreamsHear == \A c \in Conns : c \in Streams \ fresh ~> c \notin Streams \ fresh

(* What it rests on at every moment: an open stream that has not heard of  *)
(* a swap is owed a broadcast by the reload that swapped.                  *)
NoStreamForgotten == announcing > 0 \/ Streams \subseteq fresh

-----------------------------------------------------------------------------
(* The inductive invariant: nothing is said before a request is done, a    *)
(* verdict is awaited from the validator of the settings it arrived under, *)
(* and the calls that were cut off are those marked as left.               *)
RequestShape(r) ==
  /\ r.stage = "unused" => r = Unused
  /\ r.stage \in {"auth", "body", "handling", "stream"} => r.said = 0
  /\ r.said <= 1 /\ (r.stage = "done" /\ r.open => r.said = 1)
  /\ r.left <=> r.kind = "call" /\ ~r.open /\ r.said = 0 /\ r.stage \in {"handling", "done"}
  /\ r.stage = "auth" => r.gate = r.under
  /\ r.stage = "stream" => r.kind # "call"

HttpInv ==
  /\ HttpTypeOK /\ listeners \subseteq Listeners
  /\ \A c \in Conns : RequestShape(conn[c])
  /\ cancels = Cardinality({c \in Conns : conn[c].left})

=============================================================================
