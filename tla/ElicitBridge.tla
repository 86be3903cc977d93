---------------------------- MODULE ElicitBridge ----------------------------
(***************************************************************************)
(* The elicitation bridge of a wrap (src/mcp/server.js): an upstream that  *)
(* works on a request may ask its client a question.  The bridge finds the *)
(* tool call the question belongs to, suspends that call, hands question   *)
(* and token to the caller, and passes the answer of the caller's retry    *)
(* back.  A question carries no mark of the request it came from: it is    *)
(* bound only if exactly one request can have asked it.                    *)
(*                                                                         *)
(* Time is counted in ticks, for the order of the deadlines alone: those   *)
(* of the upstream requests (src/mcp/mcp-client.js) and of the tokens.     *)
(***************************************************************************)
EXTENDS Integers, FiniteSets

CONSTANTS Calls,      \* tool calls on a wrap
          Raws,       \* other methods forwarded to it
          Questions,  \* elicitation/create requests, and the tokens for them
          Upstreams,  \* what may be wrapped
          Win,        \* toolTimeoutMs, in ticks (requestTimeoutMs for some of Raws)
          Ttl,        \* ELICIT_TTL_MS
          Grace       \* the 30 s a held request outlives its question

Requests == Calls \cup Raws
None == "none"
NoTimer == -1
Phase == {"idle", "racing", "resumed", "post", "draining", "suspended",
          "dropped", "raw", "done"}

ASSUME RequestAssumption == Calls \cap Raws = {} /\ None \notin Requests
ASSUME ClockAssumption == Win \in Nat \ {0} /\ Ttl \in Nat \ {0} /\ Grace \in Nat \ {0}

VARIABLES
  wrap,      \* the upstream the tool state wraps
  phase,     \* what the gateway does with a request:
             \*   racing, resumed   its waiter is registered (raceElicit)
             \*   post              PostToolUse runs on its question
             \*   suspended         a token is out for it
             \*   draining          its question was declined, the result is awaited
             \*   dropped           its token is gone, nobody waits
  on,        \* the upstream it was sent to
  work,      \* what that upstream does with it: "none", "working", "finished"
  promise,   \* "pending" or "settled": what the gateway awaits of it
  window,    \* w.win of its waiter in McpClient, 0 without one
  left,      \* ticks to its timeout
  asker,     \* the request a question came from
  holder,    \* the call it was delivered to
  reply,     \* what the upstream was answered
  replies,   \* how often
  pending,   \* pendingElicits: questions a token is out for
  ttl        \* ticks to the end of the token

callVars == <<phase, on, work, promise>>
clockVars == <<window, left>>
askVars == <<asker, holder>>
replyVars == <<reply, replies>>
tokenVars == <<pending, ttl>>
vars == <<wrap, callVars, clockVars, askVars, replyVars, tokenVars>>

Replies == {"none", "decline", "cancel", "client", "void"}

(* The type invariant: a request's window is its own or that of a hold,
   never a sum of both (extendRequestTimeout), no token outlasts its TTL.  *)
TypeOK ==
  /\ wrap \in Upstreams
  /\ phase \in [Requests -> Phase]
  /\ on \in [Requests -> Upstreams]
  /\ work \in [Requests -> {"none", "working", "finished"}]
  /\ promise \in [Requests -> {"pending", "settled"}]
  /\ window \in [Requests -> {0, Win, Ttl + Grace}]
  /\ left \in [Requests -> Nat \cup {NoTimer}]
  /\ asker \in [Questions -> Requests \cup {None}]
  /\ holder \in [Questions -> Calls \cup {None}]
  /\ reply \in [Questions -> Replies]
  /\ replies \in [Questions -> Nat]
  /\ pending \subseteq Questions
  /\ ttl \in [Questions -> {NoTimer} \cup 0..Ttl]

Init ==
  /\ wrap \in Upstreams
  /\ phase = [r \in Requests |-> "idle"]
  /\ on = [r \in Requests |-> wrap]
  /\ work = [r \in Requests |-> "none"]
  /\ promise = [r \in Requests |-> "settled"]
  /\ window = [r \in Requests |-> 0]
  /\ left = [r \in Requests |-> NoTimer]
  /\ asker = [q \in Questions |-> None]
  /\ holder = [q \in Questions |-> None]
  /\ reply = [q \in Questions |-> "none"]
  /\ replies = [q \in Questions |-> 0]
  /\ pending = {}
  /\ ttl = [q \in Questions |-> NoTimer]

-----------------------------------------------------------------------------
(* What the handlers share.                                                *)

(* respondToServer: nothing is written to a child that is gone.            *)
Answer(q, a) ==
  IF reply[q] = "void" THEN UNCHANGED replyVars
  ELSE /\ reply' = [reply EXCEPT ![q] = a]
       /\ replies' = [replies EXCEPT ![q] = @ + 1]

(* Mistake: the next beat re-arms the old window.                          *)
ExtendTimerOnly(c) ==
  IF promise[c] = "settled" THEN UNCHANGED clockVars
  ELSE left' = [left EXCEPT ![c] = Ttl + Grace] /\ UNCHANGED window

(* extendRequestTimeout, which finds no waiter once the request settled    *)
Extend(c) ==
  IF promise[c] = "settled" THEN UNCHANGED clockVars
  ELSE /\ window' = [window EXCEPT ![c] = Ttl + Grace]
       /\ left' = [left EXCEPT ![c] = Ttl + Grace]

Waiters(u) == {c \in Calls : on[c] = u /\ phase[c] \in {"racing", "resumed"}}

(* A question of u has one call it can belong to.                          *)
SuspendedHere(u) == \E q \in pending : on[holder[q]] = u
RawInFlight(u) == \E r \in Raws : on[r] = u /\ phase[r] = "raw"

(* Mistake: a raw forward is not counted.                                  *)
BindableBesideRaw(u) ==
  u = wrap /\ Cardinality(Waiters(u)) = 1 /\ ~SuspendedHere(u)

Bindable(u) ==
  /\ u = wrap /\ Cardinality(Waiters(u)) = 1
  /\ ~SuspendedHere(u) /\ ~RawInFlight(u)

(* The token is minted, the hold extended, the TTL armed.                  *)
Suspend(c, q) ==
  /\ phase' = [phase EXCEPT ![c] = "suspended"]
  /\ pending' = pending \cup {q}
  /\ ttl' = [ttl EXCEPT ![q] = Ttl]
  /\ Extend(c)
  /\ UNCHANGED replyVars

(* The caller cannot receive q: its call goes on without an answer.        *)
AutoDecline(c, q) ==
  /\ phase' = [phase EXCEPT ![c] = IF promise[c] = "settled" THEN "done" ELSE "draining"]
  /\ Answer(q, "decline")
  /\ UNCHANGED <<clockVars, tokenVars>>

(* Mistake: a call that drains is not told.                                *)
WokenUnlessDraining(p) == IF p \in {"racing", "resumed", "raw"} THEN "done" ELSE p

(* What the request's settling means for whoever awaits it.                *)
Woken(p) == IF p \in {"racing", "resumed", "draining", "raw"} THEN "done" ELSE p

-----------------------------------------------------------------------------
(* Requests.                                                               *)

Issue(r, p) ==
  /\ phase[r] = "idle"
  /\ phase' = [phase EXCEPT ![r] = p]
  /\ on' = [on EXCEPT ![r] = wrap]
  /\ work' = [work EXCEPT ![r] = "working"]
  /\ promise' = [promise EXCEPT ![r] = "pending"]
  /\ window' = [window EXCEPT ![r] = Win] /\ left' = [left EXCEPT ![r] = Win]
  /\ UNCHANGED <<wrap, askVars, replyVars, tokenVars>>

Call(c) == Issue(c, "racing")      \* allowed by the gate, raced against a question
Forward(r) == Issue(r, "raw")

(* The upstream is done with r; a result nobody awaits is dropped.         *)
Finish(r) ==
  /\ work[r] = "working"
  /\ work' = [work EXCEPT ![r] = "finished"]
  /\ promise' = [promise EXCEPT ![r] = "settled"]
  /\ window' = [window EXCEPT ![r] = 0] /\ left' = [left EXCEPT ![r] = NoTimer]
  /\ phase' = IF promise[r] = "pending" THEN [phase EXCEPT ![r] = Woken(@)] ELSE phase
  /\ UNCHANGED <<wrap, on, askVars, replyVars, tokenVars>>

(* Its window elapses: the gateway gives up, the upstream does not know.   *)
Timeout(r) ==
  /\ left[r] = 0
  /\ promise' = [promise EXCEPT ![r] = "settled"]
  /\ window' = [window EXCEPT ![r] = 0] /\ left' = [left EXCEPT ![r] = NoTimer]
  /\ phase' = [phase EXCEPT ![r] = Woken(@)]
  /\ UNCHANGED <<wrap, on, work, askVars, replyVars, tokenVars>>

(* A progress notification re-arms the window.                             *)
Beat(r) ==
  /\ work[r] = "working" /\ promise[r] = "pending" /\ left[r] # window[r]
  /\ left' = [left EXCEPT ![r] = window[r]]
  /\ UNCHANGED <<wrap, callVars, window, askVars, replyVars, tokenVars>>

(* The child of u exits; the next call finds a new one.                    *)
Die(u) ==
  LET hit == {r \in Requests : on[r] = u /\ work[r] = "working"} IN
  /\ hit # {}
  /\ work' = [r \in Requests |-> IF r \in hit THEN "finished" ELSE work[r]]
  /\ promise' = [r \in Requests |-> IF r \in hit THEN "settled" ELSE promise[r]]
  /\ window' = [r \in Requests |-> IF r \in hit THEN 0 ELSE window[r]]
  /\ left' = [r \in Requests |-> IF r \in hit THEN NoTimer ELSE left[r]]
  /\ phase' = [r \in Requests |->
                IF r \in hit /\ promise[r] = "pending" THEN Woken(phase[r]) ELSE phase[r]]
  /\ reply' = [q \in Questions |->
                IF asker[q] # None /\ on[asker[q]] = u /\ reply[q] = "none" THEN "void"
                ELSE reply[q]]
  /\ UNCHANGED <<wrap, on, askVars, replies, tokenVars>>

(* passthrough in the tool state is set to another upstream                *)
Retarget(u) ==
  /\ wrap # u
  /\ wrap' = u
  /\ UNCHANGED <<callVars, clockVars, askVars, replyVars, tokenVars>>

-----------------------------------------------------------------------------
(* Questions.                                                              *)

(* r's upstream asks q while it works on r, whatever the gateway does with *)
(* r by then.                                                              *)
Asks(q, r) ==
  /\ asker[q] = None /\ work[r] = "working"
  /\ asker' = [asker EXCEPT ![q] = r]
  /\ UNCHANGED <<wrap, on, work, promise>>

(* No call to bind it to.                                                  *)
AskInVain(q, r) ==
  /\ Asks(q, r) /\ ~Bindable(on[r])
  /\ Answer(q, "decline")
  /\ UNCHANGED <<phase, holder, clockVars, tokenVars>>

(* The question wins the race of a first call: PostToolUse fires on it.    *)
AskCall(q, r) ==
  /\ Asks(q, r) /\ Bindable(on[r])
  /\ \E c \in Waiters(on[r]) : /\ phase[c] = "racing"
                               /\ holder' = [holder EXCEPT ![q] = c]
                               /\ phase' = [phase EXCEPT ![c] = "post"]
  /\ UNCHANGED <<clockVars, replyVars, tokenVars>>

(* ... of a resumed one: it is suspended again, if the retry can.          *)
AskResumed(q, r) ==
  /\ Asks(q, r) /\ Bindable(on[r])
  /\ \E c \in Waiters(on[r]) : /\ phase[c] = "resumed"
                               /\ holder' = [holder EXCEPT ![q] = c]
                               /\ Suspend(c, q) \/ AutoDecline(c, q)

(* The PostToolUse hooks are through.                                      *)
PostDone(c) ==
  /\ phase[c] = "post"
  /\ \E q \in Questions : holder[q] = c /\ (Suspend(c, q) \/ AutoDecline(c, q))
  /\ UNCHANGED <<wrap, on, work, promise, askVars>>

(* Mistake: the TTL of a token that was used stays armed.                  *)
SpendWithTimer(q) == pending' = pending \ {q} /\ UNCHANGED ttl

(* The token of q is used up.                                              *)
Spend(q) == pending' = pending \ {q} /\ ttl' = [ttl EXCEPT ![q] = NoTimer]

(* The caller's retry: the answer goes to the upstream, the race is on     *)
(* again.                                                                  *)
Resume(q) ==
  LET c == holder[q] IN
  /\ q \in pending /\ on[c] = wrap
  /\ Spend(q)
  /\ Extend(c)
  /\ \E a \in {"client", "decline"} : Answer(q, a)
  /\ phase' = [phase EXCEPT ![c] = IF promise[c] = "pending" THEN "resumed" ELSE "done"]
  /\ UNCHANGED <<wrap, on, work, promise, askVars>>

(* ... after the wrap went elsewhere                                       *)
ResumeElsewhere(q) ==
  /\ q \in pending /\ on[holder[q]] # wrap
  /\ Spend(q)
  /\ Answer(q, "cancel")
  /\ phase' = [phase EXCEPT ![holder[q]] = "dropped"]
  /\ UNCHANGED <<wrap, on, work, promise, clockVars, askVars>>

(* Mistake: the token goes, the upstream is not told.                      *)
ExpireSilently(q) ==
  /\ ttl[q] = 0
  /\ Spend(q)
  /\ phase' = [phase EXCEPT ![holder[q]] = "dropped"]
  /\ UNCHANGED <<wrap, on, work, promise, clockVars, askVars, replyVars>>

(* Nobody came back in time.                                               *)
Expire(q) ==
  /\ ttl[q] = 0
  /\ Spend(q)
  /\ Answer(q, "cancel")
  /\ phase' = [phase EXCEPT ![holder[q]] = "dropped"]
  /\ UNCHANGED <<wrap, on, work, promise, clockVars, askVars>>

(* Time passes; what is due comes first.                                   *)
Tick ==
  /\ \A r \in Requests : left[r] # 0
  /\ \A q \in Questions : ttl[q] # 0
  /\ \/ \E r \in Requests : left[r] > 0
     \/ \E q \in Questions : ttl[q] > 0
  /\ left' = [r \in Requests |-> IF left[r] > 0 THEN left[r] - 1 ELSE left[r]]
  /\ ttl' = [q \in Questions |-> IF ttl[q] > 0 THEN ttl[q] - 1 ELSE ttl[q]]
  /\ UNCHANGED <<wrap, callVars, window, askVars, replyVars, pending>>

Next ==
  \/ Tick
  \/ \E c \in Calls : Call(c) \/ PostDone(c)
  \/ \E r \in Raws : Forward(r)
  \/ \E r \in Requests : Finish(r) \/ Timeout(r) \/ Beat(r)
  \/ \E u \in Upstreams : Die(u) \/ Retarget(u)
  \/ \E q \in Questions, r \in Requests : AskInVain(q, r) \/ AskCall(q, r) \/ AskResumed(q, r)
  \/ \E q \in Questions : Resume(q) \/ ResumeElsewhere(q) \/ Expire(q)

Spec == Init /\ [][Next]_vars

(* Timers fire and hooks settle (ToolGate).                                *)
Fairness ==
  /\ WF_vars(Tick)
  /\ \A r \in Requests : WF_vars(Timeout(r))
  /\ \A c \in Calls : WF_vars(PostDone(c))
  /\ \A q \in Questions : WF_vars(Expire(q))

FairSpec == Spec /\ Fairness

-----------------------------------------------------------------------------
(* Properties.                                                             *)

(* A question is bound in "GROUND TRUTH" (server.js:1867): it reaches the  *)
(* caller whose call asked it, or else the request that asked it was one   *)
(* the gateway no longer counted, and its question went to the only one it *)
(* did: of a call whose hooks run on an earlier question, was declined,    *)
(* lost its token or timed out while its upstream works on.                *)
Counted == {"racing", "resumed", "suspended", "raw"}
BoundToAsker ==
  [][\A q \in Questions : holder'[q] # holder[q] =>
       holder'[q] = asker'[q] \/ phase[asker'[q]] \notin Counted]_vars

(* No question is answered twice, by whatever pair of a retry, the TTL, a  *)
(* retarget and a refusal.                                                 *)
AnsweredOnce == \A q \in Questions : replies[q] <= 1

(* ... and none is forgotten while its upstream waits for the answer.      *)
EveryQuestionAnswered ==
  \A q \in Questions :
    asker[q] # None ~> reply[q] # "none" \/ \E r \in Requests : asker[q] = r /\ work[r] # "working"

(* The dead-upstream clock does not kill a hold: while a token is out for  *)
(* it, a call's request does not time out, whatever beats arrive.          *)
HoldOutlivesToken ==
  [][\A c \in Calls : phase[c] = "suspended" => ~Timeout(c)]_vars

(* No client request hangs: once the upstream's beats stop, it ends in a   *)
(* result, an error or a question.                                         *)
EveryRequestAnswered ==
  <>[][\A r \in Requests : ~Beat(r)]_vars =>
    \A r \in Requests : phase[r] \notin {"idle", "done", "dropped", "suspended"} ~>
                        phase[r] \in {"done", "dropped", "suspended"}

(* What both rest on at every moment: a question that is open is with a    *)
(* call whose hooks run on it, or a token with a TTL is out for it; whoever*)
(* awaits a request has a timer on it; and the hooks run on a question.    *)
SomebodyOnIt ==
  /\ \A q \in Questions :
       asker[q] # None /\ reply[q] = "none" =>
         \/ q \in pending /\ ttl[q] # NoTimer
         \/ holder[q] # None /\ phase[holder[q]] = "post"
  /\ \A r \in Requests : phase[r] \in {"racing", "resumed", "draining", "raw"} => left[r] # NoTimer
  /\ \A c \in Calls : phase[c] = "post" => \E q \in Questions : holder[q] = c

-----------------------------------------------------------------------------
(* The invariant that is inductive.                                        *)

PhaseShape ==
  /\ \A r \in Raws : phase[r] \in {"idle", "raw", "done"}
  /\ \A c \in Calls : phase[c] # "raw"

ClockShape == \A r \in Requests : promise[r] = "settled" => left[r] = NoTimer

(* What has not been asked is nowhere; what was answered, was so once.     *)
QuestionShape ==
  \A q \in Questions :
    /\ asker[q] = None => holder[q] = None /\ reply[q] = "none" /\ q \notin pending
    /\ replies[q] = IF reply[q] \in {"none", "void"} THEN 0 ELSE 1

(* A token is out for each suspended call, its question is open, and the   *)
(* request's timer is behind the token's.                                  *)
TokenShape ==
  \A q \in Questions :
    /\ q \notin pending => ttl[q] = NoTimer
    /\ q \in pending =>
         /\ ttl[q] # NoTimer /\ reply[q] \in {"none", "void"}
         /\ holder[q] # None /\ phase[holder[q]] = "suspended"
         /\ promise[holder[q]] = "pending" =>
              left[holder[q]] > ttl[q] /\ window[holder[q]] = Ttl + Grace

HolderShape ==
  \A c \in Calls :
    /\ phase[c] \in {"idle", "racing"} => \A q \in Questions : holder[q] # c
    /\ phase[c] = "post" =>
         \A q \in Questions : holder[q] = c => reply[q] \in {"none", "void"} /\ q \notin pending
    /\ phase[c] = "suspended" => \E q \in pending : holder[q] = c

OneToken == \A p, q \in pending : holder[p] = holder[q] => p = q

(* A question that is open is with its call, whose hooks run on no other.  *)
OpenShape ==
  /\ \A q \in Questions : asker[q] # None /\ reply[q] = "none" =>
       q \in pending \/ (holder[q] # None /\ phase[holder[q]] = "post")
  /\ \A c \in Calls : phase[c] = "post" =>
       /\ \E q \in Questions : holder[q] = c
       /\ \A p, q \in Questions : holder[p] = c /\ holder[q] = c => p = q

(* What is awaited has not settled, and what has not settled is timed.     *)
AwaitShape ==
  \A r \in Requests :
    /\ promise[r] = "pending" => left[r] # NoTimer
    /\ phase[r] \in {"racing", "resumed", "draining", "raw"} => promise[r] = "pending"

IInv == /\ TypeOK /\ PhaseShape /\ ClockShape /\ QuestionShape
        /\ TokenShape /\ HolderShape /\ OneToken

=============================================================================
