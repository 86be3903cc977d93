------------------------- MODULE ElicitBridge_proofs -------------------------
(***************************************************************************)
(* What holds of ElicitBridge for any calls, questions, upstreams and      *)
(* deadlines, from the assumptions that module names.                      *)
(***************************************************************************)
EXTENDS ElicitBridge, FiniteSetTheorems, TLAPS

USE RequestAssumption, ClockAssumption

-----------------------------------------------------------------------------
(* What the shared parts of the actions do.                                *)

LEMMA WokenFacts ==
  \A p \in Phase :
    /\ Woken(p) \in Phase
    /\ p \in {"racing", "resumed", "draining", "raw"} => Woken(p) = "done"
    /\ p \notin {"racing", "resumed", "draining", "raw"} => Woken(p) = p
  BY DEF Woken, Phase

LEMMA AnswerFacts ==
  ASSUME TypeOK, QuestionShape, NEW q \in Questions, reply[q] \in {"none", "void"},
         NEW a \in {"decline", "cancel", "client"}, Answer(q, a)
  PROVE  /\ reply' \in [Questions -> Replies] /\ replies' \in [Questions -> Nat]
         /\ \A x \in Questions \ {q} : reply'[x] = reply[x] /\ replies'[x] = replies[x]
         /\ reply'[q] # "none"
         /\ replies'[q] = IF reply'[q] \in {"none", "void"} THEN 0 ELSE 1
  <1>1. CASE reply[q] = "void"
    BY <1>1 DEF Answer, replyVars, TypeOK, QuestionShape
  <1>2. CASE reply[q] # "void"
    <2>1. reply[q] = "none" /\ replies[q] = 0 BY <1>2 DEF QuestionShape
    <2>2. reply' = [reply EXCEPT ![q] = a] /\ replies' = [replies EXCEPT ![q] = replies[q] + 1]
      BY <1>2 DEF Answer
    <2> QED BY <2>1, <2>2 DEF TypeOK, Replies
  <1> QED BY <1>1, <1>2

LEMMA ExtendFacts ==
  ASSUME TypeOK, NEW c \in Calls, Extend(c)
  PROVE  /\ window' \in [Requests -> {0, Win, Ttl + Grace}]
         /\ left' \in [Requests -> Nat \cup {NoTimer}]
         /\ \A r \in Requests \ {c} : window'[r] = window[r] /\ left'[r] = left[r]
         /\ promise[c] = "pending" => window'[c] = Ttl + Grace /\ left'[c] = Ttl + Grace
         /\ promise[c] = "settled" => window'[c] = window[c] /\ left'[c] = left[c]
  BY DEF TypeOK, Extend, clockVars, Requests

-----------------------------------------------------------------------------
(* The invariant.                                                          *)

LEMMA InitInv == Init => IInv
  BY DEF Init, IInv, TypeOK, PhaseShape, ClockShape, QuestionShape, TokenShape,
         HolderShape, OneToken, Requests, Phase, Replies, NoTimer

LEMMA IssueInv ==
  ASSUME IInv, NEW r \in Requests, NEW p \in {"racing", "raw"}, Issue(r, p),
         p = "racing" => r \in Calls, p = "raw" => r \in Raws
  PROVE  IInv'
  <1> USE DEF IInv, Issue, TypeOK, askVars, replyVars, tokenVars
  <1>1. TypeOK' BY DEF Phase
  <1>2. PhaseShape' BY DEF PhaseShape, Requests
  <1>3. ClockShape' BY DEF ClockShape
  <1>4. QuestionShape' BY DEF QuestionShape
  <1>5. TokenShape'
    <2>1. \A q \in pending : holder[q] # r BY DEF TokenShape
    <2> QED BY <2>1 DEF TokenShape, Requests
  <1>6. HolderShape' BY DEF HolderShape, PhaseShape, Requests
  <1>7. OneToken' BY DEF OneToken
  <1> QED BY <1>1, <1>2, <1>3, <1>4, <1>5, <1>6, <1>7

(* Finish, Timeout and Die settle what the gateway awaits.                 *)
LEMMA SettleInv ==
  ASSUME IInv, NEW hit \in SUBSET Requests,
         promise' = [r \in Requests |-> IF r \in hit THEN "settled" ELSE promise[r]],
         window' = [r \in Requests |-> IF r \in hit THEN 0 ELSE window[r]],
         left' = [r \in Requests |-> IF r \in hit THEN NoTimer ELSE left[r]],
         \A r \in Requests : phase'[r] = phase[r] \/ (r \in hit /\ phase'[r] = Woken(phase[r])),
         phase' \in [Requests -> Phase],
         work' \in [Requests -> {"none", "working", "finished"}],
         UNCHANGED <<wrap, on, askVars, replies, tokenVars>>,
         reply' \in [Questions -> Replies],
         \A q \in Questions : \/ reply'[q] = reply[q]
                              \/ asker[q] # None /\ reply[q] = "none" /\ reply'[q] = "void"
  PROVE  IInv'
  <1> USE DEF IInv, askVars, tokenVars
  <1>0. \A r \in Requests : \/ phase'[r] = phase[r]
                            \/ /\ phase[r] \in {"racing", "resumed", "draining", "raw"}
                               /\ phase'[r] = "done"
    BY WokenFacts DEF TypeOK
  <1>1. TypeOK' BY DEF TypeOK
  <1>2. PhaseShape' BY <1>0 DEF PhaseShape, Requests
  <1>3. ClockShape' BY DEF ClockShape, TypeOK
  <1>4. QuestionShape' BY DEF QuestionShape, TypeOK
  <1>5. TokenShape'
    <2> SUFFICES ASSUME NEW q \in Questions, q \in pending
                 PROVE  /\ reply'[q] \in {"none", "void"}
                        /\ phase'[holder[q]] = "suspended"
                        /\ promise'[holder[q]] = "pending" =>
                             left'[holder[q]] > ttl[q] /\ window'[holder[q]] = Ttl + Grace
      BY DEF TokenShape
    <2>1. holder[q] \in Requests BY DEF TokenShape, TypeOK, Requests
    <2> QED BY <2>1, <1>0 DEF TokenShape
  <1>6. HolderShape'
    <2> SUFFICES ASSUME NEW c \in Calls
                 PROVE  /\ phase'[c] \in {"idle", "racing"} => \A q \in Questions : holder[q] # c
                        /\ phase'[c] = "post" =>
                             \A q \in Questions : holder[q] = c =>
                                reply'[q] \in {"none", "void"} /\ q \notin pending
                        /\ phase'[c] = "suspended" => \E q \in pending : holder[q] = c
      BY DEF HolderShape
    <2> QED BY <1>0 DEF HolderShape, Requests
  <1>7. OneToken' BY DEF OneToken
  <1> QED BY <1>1, <1>2, <1>3, <1>4, <1>5, <1>6, <1>7

LEMMA FinishInv ==
  ASSUME IInv, NEW r \in Requests, Finish(r) \/ Timeout(r)
  PROVE  IInv'
  <1>1. phase[r] \in Phase /\ Woken(phase[r]) \in Phase BY WokenFacts DEF IInv, TypeOK
  <1>2. /\ promise' = [x \in Requests |-> IF x \in {r} THEN "settled" ELSE promise[x]]
        /\ window' = [x \in Requests |-> IF x \in {r} THEN 0 ELSE window[x]]
        /\ left' = [x \in Requests |-> IF x \in {r} THEN NoTimer ELSE left[x]]
    BY DEF Finish, Timeout, IInv, TypeOK
  <1>3. /\ phase' \in [Requests -> Phase]
        /\ \A x \in Requests : phase'[x] = phase[x] \/ (x \in {r} /\ phase'[x] = Woken(phase[x]))
    BY <1>1 DEF Finish, Timeout, IInv, TypeOK
  <1>4. /\ work' \in [Requests -> {"none", "working", "finished"}]
        /\ UNCHANGED <<wrap, on, askVars, replies, tokenVars>>
        /\ reply' = reply /\ reply \in [Questions -> Replies]
    BY DEF Finish, Timeout, IInv, TypeOK, replyVars
  <1> QED BY <1>2, <1>3, <1>4, SettleInv

LEMMA DieInv == ASSUME IInv, NEW u \in Upstreams, Die(u) PROVE IInv'
  <1> DEFINE hit == {r \in Requests : on[r] = u /\ work[r] = "working"}
  <1>1. /\ promise' = [r \in Requests |-> IF r \in hit THEN "settled" ELSE promise[r]]
        /\ window' = [r \in Requests |-> IF r \in hit THEN 0 ELSE window[r]]
        /\ left' = [r \in Requests |-> IF r \in hit THEN NoTimer ELSE left[r]]
        /\ UNCHANGED <<wrap, on, askVars, replies, tokenVars>>
    BY DEF Die
  <1>2. /\ phase' \in [Requests -> Phase]
        /\ \A r \in Requests : phase'[r] = phase[r] \/ (r \in hit /\ phase'[r] = Woken(phase[r]))
    BY WokenFacts DEF Die, IInv, TypeOK
  <1>3. work' \in [Requests -> {"none", "working", "finished"}] BY DEF Die, IInv, TypeOK
  <1>4. /\ reply' \in [Questions -> Replies]
        /\ \A q \in Questions : \/ reply'[q] = reply[q]
                                \/ asker[q] # None /\ reply[q] = "none" /\ reply'[q] = "void"
    BY DEF Die, IInv, TypeOK, Replies
  <1>5. hit \in SUBSET Requests OBVIOUS
  <1> HIDE DEF hit
  <1> QED BY <1>1, <1>2, <1>3, <1>4, <1>5, SettleInv

(* A question that is not out yet suspends the call that holds it: after   *)
(* its PostToolUse hooks, or at once in a resumed call.                    *)
LEMMA SuspendInv ==
  ASSUME IInv, NEW c \in Calls, NEW q \in Questions,
         phase[c] \in {"post", "resumed"},
         q \notin pending, reply[q] \in {"none", "void"},
         asker' \in [Questions -> Requests \cup {None}],
         holder' \in [Questions -> Calls \cup {None}],
         asker'[q] # None, holder'[q] = c,
         \A x \in Questions \ {q} : asker'[x] = asker[x] /\ holder'[x] = holder[x],
         Suspend(c, q), UNCHANGED <<wrap, on, work, promise>>
  PROVE  IInv'
  <1> USE DEF IInv, Suspend, replyVars
  <1>1. /\ window' \in [Requests -> {0, Win, Ttl + Grace}]
        /\ left' \in [Requests -> Nat \cup {NoTimer}]
        /\ \A r \in Requests \ {c} : window'[r] = window[r] /\ left'[r] = left[r]
        /\ promise[c] = "pending" => window'[c] = Ttl + Grace /\ left'[c] = Ttl + Grace
        /\ promise[c] = "settled" => window'[c] = window[c] /\ left'[c] = left[c]
    BY ExtendFacts
  <1>2. \A p \in pending : holder[p] # c /\ p # q BY DEF TokenShape, TypeOK
  <1>3. TypeOK' BY <1>1 DEF TypeOK, Phase, Requests
  <1>4. PhaseShape' BY DEF PhaseShape, TypeOK, Requests
  <1>5. ClockShape' BY <1>1 DEF ClockShape
  <1>6. QuestionShape' BY DEF QuestionShape
  <1>7. TokenShape'
    <2> SUFFICES ASSUME NEW x \in Questions
                 PROVE  /\ x \notin pending' => ttl'[x] = NoTimer
                        /\ x \in pending' =>
                             /\ ttl'[x] # NoTimer /\ reply[x] \in {"none", "void"}
                             /\ holder'[x] # None /\ phase'[holder'[x]] = "suspended"
                             /\ promise[holder'[x]] = "pending" =>
                                  left'[holder'[x]] > ttl'[x] /\ window'[holder'[x]] = Ttl + Grace
      BY DEF TokenShape
    <2>1. CASE x = q BY <1>1, <2>1 DEF TypeOK, Requests, NoTimer
    <2>2. CASE x # q /\ x \in pending
      <3>1. holder'[x] = holder[x] /\ holder[x] \in Requests /\ holder[x] # c
        BY <1>2, <2>2 DEF TypeOK, TokenShape, Requests
      <3> QED BY <1>1, <2>2, <3>1 DEF TypeOK, TokenShape
    <2>3. CASE x # q /\ x \notin pending BY <2>3 DEF TypeOK, TokenShape
    <2> QED BY <2>1, <2>2, <2>3
  <1>8. HolderShape' BY <1>2 DEF HolderShape, TypeOK, Requests
  <1>9. OneToken' BY <1>2 DEF OneToken, TypeOK
  <1> QED BY <1>3, <1>4, <1>5, <1>6, <1>7, <1>8, <1>9

(* ... or is declined, and the call goes on.                               *)
LEMMA AutoDeclineInv ==
  ASSUME IInv, NEW c \in Calls, NEW q \in Questions,
         phase[c] \in {"post", "resumed"},
         q \notin pending, reply[q] \in {"none", "void"},
         asker' \in [Questions -> Requests \cup {None}],
         holder' \in [Questions -> Calls \cup {None}],
         asker'[q] # None, holder'[q] = c,
         \A x \in Questions \ {q} : asker'[x] = asker[x] /\ holder'[x] = holder[x],
         AutoDecline(c, q), UNCHANGED <<wrap, on, work, promise>>
  PROVE  IInv'
  <1> USE DEF IInv, AutoDecline, clockVars, tokenVars
  <1>1. /\ reply' \in [Questions -> Replies] /\ replies' \in [Questions -> Nat]
        /\ \A x \in Questions \ {q} : reply'[x] = reply[x] /\ replies'[x] = replies[x]
        /\ reply'[q] # "none"
        /\ replies'[q] = IF reply'[q] \in {"none", "void"} THEN 0 ELSE 1
    BY AnswerFacts
  <1>2. \A p \in pending : holder[p] # c /\ p # q BY DEF TokenShape, TypeOK
  <1>p. /\ phase' \in [Requests -> Phase] /\ phase'[c] \in {"done", "draining"}
        /\ \A r \in Requests \ {c} : phase'[r] = phase[r]
    BY DEF TypeOK, Phase, Requests
  <1>3. TypeOK' BY <1>1, <1>p DEF TypeOK
  <1>4. PhaseShape' BY <1>p DEF PhaseShape, Requests
  <1>5. ClockShape' BY DEF ClockShape
  <1>6. QuestionShape' BY <1>1 DEF QuestionShape
  <1>7. TokenShape'
    <2>1. \A x \in pending : holder'[x] = holder[x] /\ holder[x] \in Requests /\ reply'[x] = reply[x]
      BY <1>1, <1>2 DEF TypeOK, TokenShape, Requests
    <2> QED BY <1>2, <1>p, <2>1 DEF TokenShape
  <1>8. HolderShape' BY <1>1, <1>2, <1>p DEF HolderShape, TypeOK, Requests
  <1>9. OneToken' BY <1>2 DEF OneToken, TypeOK
  <1> QED BY <1>3, <1>4, <1>5, <1>6, <1>7, <1>8, <1>9

LEMMA PostDoneInv == ASSUME IInv, NEW c \in Calls, PostDone(c) PROVE IInv'
  <1>1. PICK q \in Questions : holder[q] = c /\ (Suspend(c, q) \/ AutoDecline(c, q))
    BY DEF PostDone
  <1>2. /\ phase[c] \in {"post", "resumed"} /\ UNCHANGED <<wrap, on, work, promise, askVars>>
        /\ q \notin pending /\ reply[q] \in {"none", "void"}
    BY <1>1 DEF PostDone, IInv, HolderShape
  <1>3. /\ asker' \in [Questions -> Requests \cup {None}]
        /\ holder' \in [Questions -> Calls \cup {None}]
        /\ asker'[q] # None /\ holder'[q] = c
        /\ \A x \in Questions \ {q} : asker'[x] = asker[x] /\ holder'[x] = holder[x]
    BY <1>1, <1>2 DEF IInv, TypeOK, QuestionShape, askVars, Requests
  <1>4. CASE Suspend(c, q) BY <1>2, <1>3, <1>4, SuspendInv
  <1>5. CASE AutoDecline(c, q) BY <1>2, <1>3, <1>5, AutoDeclineInv
  <1> QED BY <1>1, <1>4, <1>5

LEMMA AskResumedInv ==
  ASSUME IInv, NEW q \in Questions, NEW r \in Requests, AskResumed(q, r)
  PROVE  IInv'
  <1>1. PICK c \in Waiters(on[r]) : /\ phase[c] = "resumed"
                                    /\ holder' = [holder EXCEPT ![q] = c]
                                    /\ Suspend(c, q) \/ AutoDecline(c, q)
    BY DEF AskResumed
  <1>2. /\ c \in Calls /\ phase[c] \in {"post", "resumed"}
        /\ UNCHANGED <<wrap, on, work, promise>>
        /\ q \notin pending /\ reply[q] \in {"none", "void"}
    BY <1>1 DEF AskResumed, Asks, Waiters, IInv, QuestionShape
  <1>3. /\ asker' \in [Questions -> Requests \cup {None}]
        /\ holder' \in [Questions -> Calls \cup {None}]
        /\ asker'[q] # None /\ holder'[q] = c
        /\ \A x \in Questions \ {q} : asker'[x] = asker[x] /\ holder'[x] = holder[x]
    BY <1>1, <1>2 DEF AskResumed, Asks, IInv, TypeOK, Requests
  <1>4. CASE Suspend(c, q) BY <1>2, <1>3, <1>4, SuspendInv
  <1>5. CASE AutoDecline(c, q) BY <1>2, <1>3, <1>5, AutoDeclineInv
  <1> QED BY <1>1, <1>4, <1>5

LEMMA AskInVainInv ==
  ASSUME IInv, NEW q \in Questions, NEW r \in Requests, AskInVain(q, r)
  PROVE  IInv'
  <1> USE DEF IInv, AskInVain, Asks, clockVars, tokenVars
  <1>1. reply[q] = "none" /\ q \notin pending /\ holder[q] = None BY DEF QuestionShape
  <1>2. /\ reply' \in [Questions -> Replies] /\ replies' \in [Questions -> Nat]
        /\ \A x \in Questions \ {q} : reply'[x] = reply[x] /\ replies'[x] = replies[x]
        /\ reply'[q] # "none"
        /\ replies'[q] = IF reply'[q] \in {"none", "void"} THEN 0 ELSE 1
    BY <1>1, AnswerFacts
  <1>3. TypeOK' BY <1>2 DEF TypeOK
  <1>4. PhaseShape' BY DEF PhaseShape
  <1>5. ClockShape' BY DEF ClockShape
  <1>6. QuestionShape' BY <1>2 DEF QuestionShape, TypeOK, Requests
  <1>7. TokenShape' BY <1>1, <1>2 DEF TokenShape
  <1>8. HolderShape' BY <1>1, <1>2 DEF HolderShape, Requests
  <1>9. OneToken' BY DEF OneToken
  <1> QED BY <1>3, <1>4, <1>5, <1>6, <1>7, <1>8, <1>9

LEMMA AskCallInv ==
  ASSUME IInv, NEW q \in Questions, NEW r \in Requests, AskCall(q, r)
  PROVE  IInv'
  <1> USE DEF IInv, AskCall, Asks, clockVars, tokenVars, replyVars
  <1>1. reply[q] = "none" /\ q \notin pending /\ holder[q] = None BY DEF QuestionShape
  <1>2. PICK c \in Calls : /\ phase[c] = "racing"
                           /\ holder' = [holder EXCEPT ![q] = c]
                           /\ phase' = [phase EXCEPT ![c] = "post"]
    BY DEF Waiters
  <1>3. \A x \in Questions : holder[x] # c BY <1>2 DEF HolderShape
  <1>4. TypeOK' BY <1>2 DEF TypeOK, Phase, Requests
  <1>5. PhaseShape' BY <1>2 DEF PhaseShape, TypeOK, Requests
  <1>6. ClockShape' BY DEF ClockShape
  <1>7. QuestionShape' BY <1>2 DEF QuestionShape, TypeOK, Requests
  <1>8. TokenShape'
    <2>1. \A x \in pending : x # q /\ holder'[x] = holder[x] /\ holder[x] \in Requests
      BY <1>1, <1>2 DEF TypeOK, TokenShape, Requests
    <2> QED BY <1>2, <1>3, <2>1 DEF TokenShape, TypeOK
  <1>9. HolderShape' BY <1>1, <1>2, <1>3 DEF HolderShape, TypeOK, Requests
  <1>10. OneToken' BY <1>1, <1>2 DEF OneToken, TypeOK
  <1> QED BY <1>4, <1>5, <1>6, <1>7, <1>8, <1>9, <1>10

(* A token is used up: by the retry, after a retarget, at its end.  The    *)
(* other tokens are those of other calls.                                  *)
LEMMA SpendInv ==
  ASSUME IInv, NEW q \in pending, Spend(q),
         NEW p \in {"resumed", "done", "dropped"},
         phase' = [phase EXCEPT ![holder[q]] = p],
         NEW a \in {"decline", "cancel", "client"}, Answer(q, a),
         Extend(holder[q]) \/ UNCHANGED clockVars,
         UNCHANGED <<wrap, on, work, promise, askVars>>
  PROVE  IInv'
  <1> DEFINE c == holder[q]
  <1> USE DEF IInv, Spend, askVars
  <1>1. /\ q \in Questions /\ c \in Calls /\ c \in Requests
        /\ phase[c] = "suspended" /\ reply[q] \in {"none", "void"}
    BY DEF TypeOK, TokenShape, Requests
  <1>2. /\ reply' \in [Questions -> Replies] /\ replies' \in [Questions -> Nat]
        /\ \A x \in Questions \ {q} : reply'[x] = reply[x] /\ replies'[x] = replies[x]
        /\ reply'[q] # "none"
        /\ replies'[q] = IF reply'[q] \in {"none", "void"} THEN 0 ELSE 1
    BY <1>1, AnswerFacts
  <1>3. /\ window' \in [Requests -> {0, Win, Ttl + Grace}]
        /\ left' \in [Requests -> Nat \cup {NoTimer}]
        /\ \A r \in Requests \ {c} : window'[r] = window[r] /\ left'[r] = left[r]
        /\ promise[c] = "settled" => window'[c] = window[c] /\ left'[c] = left[c]
    <2>1. CASE Extend(c) BY <1>1, <2>1, ExtendFacts
    <2>2. CASE UNCHANGED clockVars BY <2>2 DEF clockVars, TypeOK
    <2> QED BY <2>1, <2>2
  <1>4. \A x \in pending' : /\ x \in pending /\ x # q /\ x \in Questions
                            /\ holder[x] # c /\ holder[x] \in Requests
    BY DEF OneToken, TypeOK, TokenShape, Requests
  <1>5. /\ phase' \in [Requests -> Phase] /\ phase'[c] = p
        /\ \A r \in Requests \ {c} : phase'[r] = phase[r]
    BY <1>1 DEF TypeOK, Phase
  <1>6. /\ pending' \subseteq Questions /\ ttl' \in [Questions -> {NoTimer} \cup 0..Ttl]
        /\ ttl'[q] = NoTimer /\ \A x \in Questions \ {q} : ttl'[x] = ttl[x]
    BY <1>1 DEF TypeOK
  <1> HIDE DEF c, Spend
  <1>7. TypeOK' BY <1>2, <1>3, <1>5, <1>6 DEF TypeOK
  <1>8. PhaseShape' BY <1>1, <1>5 DEF PhaseShape, Requests, c, RequestAssumption
  <1>9. ClockShape' BY <1>1, <1>3 DEF ClockShape
  <1>10. QuestionShape' BY <1>1, <1>2, <1>4 DEF QuestionShape, TokenShape, c
  <1>11. TokenShape'
    <2> SUFFICES ASSUME NEW x \in Questions
                 PROVE  /\ x \notin pending' => ttl'[x] = NoTimer
                        /\ x \in pending' =>
                             /\ ttl'[x] # NoTimer /\ reply'[x] \in {"none", "void"}
                             /\ holder[x] # None /\ phase'[holder[x]] = "suspended"
                             /\ promise[holder[x]] = "pending" =>
                                  left'[holder[x]] > ttl'[x] /\ window'[holder[x]] = Ttl + Grace
      BY DEF TokenShape
    <2>1. CASE x \in pending' BY <1>2, <1>3, <1>4, <1>5, <1>6, <2>1 DEF TokenShape
    <2>2. CASE x \notin pending' BY <1>6, <2>2 DEF TokenShape, Spend
    <2> QED BY <2>1, <2>2
  <1>12. HolderShape'
    <2> SUFFICES ASSUME NEW d \in Calls
                 PROVE  /\ phase'[d] \in {"idle", "racing"} => \A x \in Questions : holder[x] # d
                        /\ phase'[d] = "post" =>
                             \A x \in Questions : holder[x] = d =>
                                reply'[x] \in {"none", "void"} /\ x \notin pending'
                        /\ phase'[d] = "suspended" => \E x \in pending' : holder[x] = d
      BY DEF HolderShape
    <2>1. CASE d = c BY <1>5, <2>1
    <2>2. CASE d # c
      <3>1. phase'[d] = phase[d] /\ holder[q] # d BY <1>5, <2>2 DEF Requests, c
      <3> QED BY <1>1, <1>2, <1>4, <3>1 DEF HolderShape, Spend
    <2> QED BY <2>1, <2>2
  <1>13. OneToken' BY <1>4 DEF OneToken
  <1> QED BY <1>7, <1>8, <1>9, <1>10, <1>11, <1>12, <1>13

LEMMA TokenUsedInv ==
  ASSUME IInv, NEW q \in Questions, Resume(q) \/ ResumeElsewhere(q) \/ Expire(q)
  PROVE  IInv'
  <1>1. CASE Resume(q)
    <2>1. PICK a \in {"client", "decline"} : Answer(q, a) BY <1>1 DEF Resume
    <2>2. \E p \in {"resumed", "done"} : phase' = [phase EXCEPT ![holder[q]] = p]
      BY <1>1 DEF Resume
    <2> QED BY <1>1, <2>1, <2>2, SpendInv DEF Resume
  <1>2. CASE ResumeElsewhere(q) BY <1>2, SpendInv DEF ResumeElsewhere
  <1>3. CASE Expire(q)
    <2>1. q \in pending BY <1>3 DEF Expire, IInv, TokenShape, NoTimer
    <2> QED BY <1>3, <2>1, SpendInv DEF Expire
  <1> QED BY <1>1, <1>2, <1>3

(* The timers of a held request and of its token advance together.         *)
LEMMA TickInv == ASSUME IInv, Tick PROVE IInv'
  <1> USE DEF IInv, Tick, callVars, askVars, replyVars
  <1>1. /\ left' \in [Requests -> Nat \cup {NoTimer}]
        /\ ttl' \in [Questions -> {NoTimer} \cup 0..Ttl]
    BY DEF TypeOK, NoTimer
  <1>2. TypeOK' BY <1>1 DEF TypeOK
  <1>3. PhaseShape' BY DEF PhaseShape
  <1>4. ClockShape' BY DEF ClockShape, NoTimer
  <1>5. QuestionShape' BY DEF QuestionShape
  <1>6. TokenShape'
    <2> SUFFICES ASSUME NEW q \in Questions
                 PROVE  /\ q \notin pending => ttl'[q] = NoTimer
                        /\ q \in pending =>
                             /\ ttl'[q] # NoTimer
                             /\ promise[holder[q]] = "pending" => left'[holder[q]] > ttl'[q]
      BY DEF TokenShape
    <2>1. ttl[q] \in {NoTimer} \cup 0..Ttl /\ ttl[q] # 0 BY DEF TypeOK
    <2>2. CASE q \notin pending BY <2>2 DEF TokenShape, NoTimer
    <2>3. CASE q \in pending
      <3>1. holder[q] \in Requests /\ left[holder[q]] \in Nat \cup {NoTimer}
        BY <2>3 DEF TypeOK, TokenShape, Requests
      <3>2. ttl[q] # NoTimer /\ (promise[holder[q]] = "pending" => left[holder[q]] > ttl[q])
        BY <2>3 DEF TokenShape
      <3> QED BY <2>1, <2>3, <3>1, <3>2 DEF NoTimer
    <2> QED BY <2>2, <2>3
  <1>7. HolderShape' BY DEF HolderShape
  <1>8. OneToken' BY DEF OneToken
  <1> QED BY <1>2, <1>3, <1>4, <1>5, <1>6, <1>7, <1>8

(* A beat re-arms the window of the hold, which is longer than any token.  *)
LEMMA BeatInv == ASSUME IInv, NEW r \in Requests, Beat(r) PROVE IInv'
  <1> USE DEF IInv, Beat, callVars, askVars, replyVars, tokenVars
  <1>1. /\ left' \in [Requests -> Nat \cup {NoTimer}] /\ left'[r] = window[r]
        /\ \A x \in Requests \ {r} : left'[x] = left[x]
    BY DEF TypeOK
  <1>2. TypeOK' BY <1>1 DEF TypeOK
  <1>3. PhaseShape' BY DEF PhaseShape
  <1>4. ClockShape' BY <1>1 DEF ClockShape
  <1>5. QuestionShape' BY DEF QuestionShape
  <1>6. TokenShape'
    <2> SUFFICES ASSUME NEW q \in Questions, q \in pending, promise[holder[q]] = "pending"
                 PROVE  left'[holder[q]] > ttl[q]
      BY DEF TokenShape
    <2>1. /\ holder[q] \in Requests /\ left[holder[q]] > ttl[q]
          /\ window[holder[q]] = Ttl + Grace /\ ttl[q] \in 0..Ttl
      BY DEF TypeOK, TokenShape, Requests
    <2> QED BY <1>1, <2>1
  <1>7. HolderShape' BY DEF HolderShape
  <1>8. OneToken' BY DEF OneToken
  <1> QED BY <1>2, <1>3, <1>4, <1>5, <1>6, <1>7, <1>8

LEMMA RetargetInv == ASSUME IInv, NEW u \in Upstreams, Retarget(u) PROVE IInv'
  BY DEF Retarget, callVars, clockVars, askVars, replyVars, tokenVars, IInv, TypeOK,
         PhaseShape, ClockShape, QuestionShape, TokenShape, HolderShape, OneToken

LEMMA NextInv == IInv /\ [Next]_vars => IInv'
  <1> SUFFICES ASSUME IInv, [Next]_vars PROVE IInv' OBVIOUS
  <1>1. CASE Tick BY <1>1, TickInv
  <1>2. ASSUME NEW c \in Calls, Call(c) PROVE IInv'
    BY <1>2, IssueInv DEF Call, Requests
  <1>3. ASSUME NEW c \in Calls, PostDone(c) PROVE IInv' BY <1>3, PostDoneInv
  <1>4. ASSUME NEW r \in Raws, Forward(r) PROVE IInv'
    BY <1>4, IssueInv DEF Forward, Requests
  <1>5. ASSUME NEW r \in Requests, Finish(r) \/ Timeout(r) PROVE IInv' BY <1>5, FinishInv
  <1>6. ASSUME NEW r \in Requests, Beat(r) PROVE IInv' BY <1>6, BeatInv
  <1>7. ASSUME NEW u \in Upstreams, Die(u) PROVE IInv' BY <1>7, DieInv
  <1>8. ASSUME NEW u \in Upstreams, Retarget(u) PROVE IInv' BY <1>8, RetargetInv
  <1>9. ASSUME NEW q \in Questions, NEW r \in Requests, AskInVain(q, r) PROVE IInv'
    BY <1>9, AskInVainInv
  <1>10. ASSUME NEW q \in Questions, NEW r \in Requests, AskCall(q, r) PROVE IInv'
    BY <1>10, AskCallInv
  <1>11. ASSUME NEW q \in Questions, NEW r \in Requests, AskResumed(q, r) PROVE IInv'
    BY <1>11, AskResumedInv
  <1>12. ASSUME NEW q \in Questions, Resume(q) \/ ResumeElsewhere(q) \/ Expire(q) PROVE IInv'
    BY <1>12, TokenUsedInv
  <1>13. CASE UNCHANGED vars
    BY <1>13 DEF vars, callVars, clockVars, askVars, replyVars, tokenVars, IInv, TypeOK,
                 PhaseShape, ClockShape, QuestionShape, TokenShape, HolderShape, OneToken
  <1> QED BY <1>1, <1>2, <1>3, <1>4, <1>5, <1>6, <1>7, <1>8, <1>9, <1>10, <1>11,
             <1>12, <1>13 DEF Next

(* Whatever is asked, answered, timed out or killed in whatever order, the *)
(* books of the bridge agree: tokens, suspended calls and open questions   *)
(* correspond, and a held request's clock is behind its token's.           *)
THEOREM Invariant == Spec => []IInv
  BY InitInv, NextInv, PTL DEF Spec

(* The state keeps its types.                                              *)
THEOREM TypeCorrect == Spec => []TypeOK
  <1>1. IInv => TypeOK BY DEF IInv
  <1> QED BY <1>1, Invariant, PTL

(* respondToServer is called at most once for a question: the retry, the   *)
(* TTL, the retarget and the refusals exclude each other.                  *)
THEOREM AnsweredOnceHolds == Spec => []AnsweredOnce
  <1>1. IInv => AnsweredOnce BY DEF IInv, QuestionShape, AnsweredOnce
  <1> QED BY <1>1, Invariant, PTL

(* The timeout of a request never takes a call a token is out for,         *)
(* whatever the TTL, the tool's timeout and the upstream's beats.          *)
THEOREM HoldOutlivesTokenHolds == Spec => HoldOutlivesToken
  <1>1. IInv => \A c \in Calls : phase[c] = "suspended" => ~Timeout(c)
    <2> SUFFICES ASSUME IInv, NEW c \in Calls, phase[c] = "suspended", Timeout(c) PROVE FALSE
      OBVIOUS
    <2>1. PICK q \in pending : holder[q] = c BY DEF IInv, HolderShape
    <2>2. q \in Questions /\ ttl[q] \in 0..Ttl BY <2>1 DEF IInv, TypeOK, TokenShape
    <2>3. CASE promise[c] = "pending" BY <2>1, <2>2, <2>3 DEF IInv, TokenShape, Timeout
    <2>4. CASE promise[c] = "settled"
      BY <2>4 DEF IInv, ClockShape, Timeout, NoTimer, Requests
    <2> QED BY <2>3, <2>4 DEF IInv, TypeOK, Requests
  <1>2. IInv => [\A c \in Calls : phase[c] = "suspended" => ~Timeout(c)]_vars BY <1>1
  <1> QED BY <1>2, Invariant, PTL DEF HoldOutlivesToken

(* What one waiter is enough for: it is the one that asks, if who asks is  *)
(* counted.                                                                *)
LEMMA SoleWaiterAsks ==
  ASSUME IInv, IsFiniteSet(Calls), NEW r \in Requests, phase[r] \in Counted, Bindable(on[r]),
         NEW c \in Waiters(on[r])
  PROVE  c = r
  <1>1. phase[r] \in {"racing", "resumed", "suspended", "raw"} BY DEF Counted
  <1>2. phase[r] # "raw"
    BY DEF Bindable, RawInFlight, IInv, PhaseShape, Requests
  <1>3. r \in Calls BY <1>1, <1>2 DEF IInv, PhaseShape, Requests
  <1>4. phase[r] # "suspended"
    BY <1>3 DEF Bindable, SuspendedHere, IInv, HolderShape
  <1>5. r \in Waiters(on[r]) BY <1>1, <1>2, <1>3, <1>4 DEF Waiters
  <1>6. \E x : Waiters(on[r]) = {x}
    <2>1. IsFiniteSet(Waiters(on[r])) BY FS_Subset DEF Waiters
    <2> QED BY <2>1, FS_Singleton DEF Bindable
  <1> QED BY <1>5, <1>6

(* A question reaches the caller whose call asked it unless, when it was   *)
(* asked, the gateway no longer counted the request it came from: for any  *)
(* number of calls, forwards and upstreams, and whatever they ask and when *)
(* (raceElicit, handleUpstreamServerRequest).                              *)
THEOREM BoundToAskerHolds ==
  ASSUME IsFiniteSet(Calls)
  PROVE  Spec => BoundToAsker
  <1> DEFINE Bound == \A q \in Questions : holder'[q] # holder[q] =>
                        holder'[q] = asker'[q] \/ phase[asker'[q]] \notin Counted
  <1>1. ASSUME IInv, [Next]_vars PROVE Bound
    <2>1. ASSUME NEW q \in Questions, NEW r \in Requests, AskCall(q, r) \/ AskResumed(q, r)
          PROVE  Bound
      <3>1. PICK c \in Waiters(on[r]) : holder' = [holder EXCEPT ![q] = c]
        BY <2>1 DEF AskCall, AskResumed
      <3>2. Asks(q, r) /\ Bindable(on[r]) BY <2>1 DEF AskCall, AskResumed
      <3>3. asker' = [asker EXCEPT ![q] = r] BY <3>2 DEF Asks
      <3>4. phase[r] \in Counted => c = r BY <1>1, <3>1, <3>2, SoleWaiterAsks
      <3> QED BY <1>1, <3>1, <3>3, <3>4 DEF IInv, TypeOK
    <2>2. ASSUME NEW q \in Questions, NEW r \in Requests, AskInVain(q, r) PROVE Bound
      BY <2>2 DEF AskInVain
    <2>3. CASE UNCHANGED askVars BY <2>3 DEF askVars
    <2> QED BY <1>1, <2>1, <2>2, <2>3
        DEF Next, vars, Tick, Call, Forward, Issue, PostDone, Finish, Timeout, Beat, Die,
            Retarget, Resume, ResumeElsewhere, Expire
  <1>2. IInv /\ [Next]_vars => [Bound]_vars BY <1>1
  <1> QED BY <1>2, Invariant, PTL DEF Spec, BoundToAsker

-----------------------------------------------------------------------------
(* Nothing is left to itself.                                              *)

(* Steps in which no question changes hands.                               *)
LEMMA OpenKept ==
  ASSUME TypeOK, OpenShape, UNCHANGED <<askVars, pending>>,
         \A c \in Calls : phase'[c] = "post" <=> phase[c] = "post",
         \A q \in Questions : reply'[q] = "none" => reply[q] = "none"
  PROVE  OpenShape'
  <1>1. \A q \in Questions : holder[q] # None => holder[q] \in Calls BY DEF TypeOK
  <1> QED BY <1>1 DEF OpenShape, askVars

(* Steps that take the question q of a call c into its token, or answer it. *)
LEMMA OpenMoved ==
  ASSUME IInv, OpenShape, NEW q \in Questions, NEW c \in Calls,
         holder'[q] = c, phase'[c] # "post",
         q \in pending' \/ reply'[q] # "none",
         \A x \in Questions \ {q} :
           /\ asker'[x] = asker[x] /\ holder'[x] = holder[x] /\ reply'[x] = reply[x]
           /\ x \in pending => x \in pending'
           /\ holder[x] = c => phase[c] # "post",
         holder[q] \in {c, None},
         \A d \in Calls \ {c} : phase'[d] = phase[d]
  PROVE  OpenShape'
  <1>1. \A x \in Questions : holder[x] # None => holder[x] \in Calls BY DEF IInv, TypeOK
  <1>2. None \notin Calls BY DEF Requests
  <1>3. ASSUME NEW x \in Questions, asker'[x] # None, reply'[x] = "none", x \notin pending'
        PROVE  holder'[x] # None /\ phase'[holder'[x]] = "post"
    <2>1. x # q BY <1>3
    <2>2. holder[x] # None /\ phase[holder[x]] = "post" BY <1>3, <2>1 DEF OpenShape
    <2> QED BY <1>1, <2>1, <2>2
  <1>4. ASSUME NEW d \in Calls, phase'[d] = "post"
        PROVE  /\ \E x \in Questions : holder'[x] = d
               /\ \A x, y \in Questions : holder'[x] = d /\ holder'[y] = d => x = y
    <2>1. d # c /\ phase[d] = "post" BY <1>4
    <2>2. holder'[q] # d /\ holder[q] # d BY <1>2, <2>1
    <2> QED BY <2>1, <2>2 DEF OpenShape
  <1> QED BY <1>3, <1>4 DEF OpenShape

LEMMA AskInVainOpen ==
  ASSUME IInv, OpenShape, NEW q \in Questions, NEW r \in Requests, AskInVain(q, r)
  PROVE  OpenShape'
  <1>1. reply[q] = "none" BY DEF AskInVain, Asks, IInv, QuestionShape
  <1>2. reply'[q] # "none" /\ \A x \in Questions \ {q} : reply'[x] = reply[x]
    BY <1>1, AnswerFacts DEF AskInVain, IInv
  <1>3. \A x \in Questions \ {q} : asker'[x] = asker[x] BY DEF AskInVain, Asks, IInv, TypeOK
  <1>4. UNCHANGED <<phase, holder, pending>> BY DEF AskInVain, tokenVars
  <1> QED BY <1>2, <1>3, <1>4 DEF OpenShape

LEMMA AskCallOpen ==
  ASSUME IInv, OpenShape, NEW q \in Questions, NEW r \in Requests, AskCall(q, r)
  PROVE  OpenShape'
  <1>1. PICK c \in Waiters(on[r]) : /\ phase[c] = "racing"
                                    /\ holder' = [holder EXCEPT ![q] = c]
                                    /\ phase' = [phase EXCEPT ![c] = "post"]
    BY DEF AskCall
  <1>2. c \in Calls /\ c \in Requests /\ c # None BY DEF Waiters, Requests
  <1>3. /\ holder'[q] = c /\ phase'[c] = "post"
        /\ \A x \in Questions \ {q} : holder'[x] = holder[x] /\ asker'[x] = asker[x]
        /\ \A d \in Calls \ {c} : phase'[d] = phase[d]
        /\ UNCHANGED <<reply, pending>>
    BY <1>1, <1>2 DEF AskCall, Asks, IInv, TypeOK, Requests, replyVars, tokenVars
  <1>4. /\ \A x \in Questions : holder[x] # c
        /\ \A x \in Questions : holder[x] # None => holder[x] \in Calls
        /\ holder[q] = None
    BY <1>1, <1>2 DEF IInv, HolderShape, QuestionShape, TypeOK, AskCall, Asks
  <1>5. ASSUME NEW x \in Questions, asker'[x] # None, reply'[x] = "none", x \notin pending'
        PROVE  holder'[x] # None /\ phase'[holder'[x]] = "post"
    <2>1. CASE x = q BY <1>2, <1>3, <2>1
    <2>2. CASE x # q
      <3>1. holder[x] # None /\ phase[holder[x]] = "post" BY <1>3, <1>5, <2>2 DEF OpenShape
      <3> QED BY <1>3, <1>4, <2>2, <3>1
    <2> QED BY <2>1, <2>2
  <1>6. ASSUME NEW d \in Calls, phase'[d] = "post"
        PROVE  /\ \E x \in Questions : holder'[x] = d
               /\ \A x, y \in Questions : holder'[x] = d /\ holder'[y] = d => x = y
    <2>1. CASE d = c BY <1>3, <1>4, <2>1
    <2>2. CASE d # c
      <3>1. phase[d] = "post" /\ holder[q] # d /\ holder'[q] # d
        BY <1>2, <1>3, <1>4, <1>6, <2>2 DEF Requests
      <3> QED BY <1>3, <3>1 DEF OpenShape
    <2> QED BY <2>1, <2>2
  <1> QED BY <1>5, <1>6 DEF OpenShape

(* Minting a token, or declining for the caller, does what OpenMoved asks. *)
LEMMA MintOrDecline ==
  ASSUME IInv, NEW q \in Questions, NEW c \in Calls, reply[q] \in {"none", "void"},
         Suspend(c, q) \/ AutoDecline(c, q)
  PROVE  /\ phase'[c] # "post" /\ \A d \in Calls \ {c} : phase'[d] = phase[d]
         /\ q \in pending' \/ reply'[q] # "none"
         /\ \A x \in Questions \ {q} : reply'[x] = reply[x] /\ (x \in pending => x \in pending')
  <1>1. phase \in [Requests -> Phase] /\ c \in Requests /\ Calls \subseteq Requests
    BY DEF IInv, TypeOK, Requests
  <1>2. CASE Suspend(c, q) BY <1>1, <1>2 DEF Suspend, replyVars
  <1>3. CASE AutoDecline(c, q)
    <2>1. reply'[q] # "none" /\ \A x \in Questions \ {q} : reply'[x] = reply[x]
      BY <1>3, AnswerFacts DEF AutoDecline, IInv
    <2> QED BY <1>1, <1>3, <2>1 DEF AutoDecline, tokenVars
  <1> QED BY <1>2, <1>3

LEMMA AskResumedOpen ==
  ASSUME IInv, OpenShape, NEW q \in Questions, NEW r \in Requests, AskResumed(q, r)
  PROVE  OpenShape'
  <1>1. PICK c \in Waiters(on[r]) : /\ phase[c] = "resumed"
                                    /\ holder' = [holder EXCEPT ![q] = c]
                                    /\ Suspend(c, q) \/ AutoDecline(c, q)
    BY DEF AskResumed
  <1>2. c \in Calls BY DEF Waiters
  <1>3. reply[q] = "none" /\ holder[q] = None BY DEF AskResumed, Asks, IInv, QuestionShape
  <1>4. /\ holder'[q] = c
        /\ \A x \in Questions \ {q} : holder'[x] = holder[x] /\ asker'[x] = asker[x]
    BY <1>1, <1>2 DEF AskResumed, Asks, IInv, TypeOK
  <1>5. /\ phase'[c] # "post" /\ \A d \in Calls \ {c} : phase'[d] = phase[d]
        /\ q \in pending' \/ reply'[q] # "none"
        /\ \A x \in Questions \ {q} : reply'[x] = reply[x] /\ (x \in pending => x \in pending')
    BY <1>1, <1>2, <1>3, MintOrDecline
  <1> QED BY <1>1, <1>2, <1>3, <1>4, <1>5, OpenMoved

LEMMA PostDoneOpen ==
  ASSUME IInv, OpenShape, NEW c \in Calls, PostDone(c)
  PROVE  OpenShape'
  <1>1. PICK q \in Questions : holder[q] = c /\ (Suspend(c, q) \/ AutoDecline(c, q))
    BY DEF PostDone
  <1>2. phase[c] = "post" /\ reply[q] \in {"none", "void"} BY <1>1 DEF PostDone, IInv, HolderShape
  <1>3. UNCHANGED <<asker, holder>> BY DEF PostDone, askVars
  <1>4. \A x \in Questions \ {q} : holder[x] # c BY <1>1, <1>2 DEF OpenShape
  <1>5. /\ phase'[c] # "post" /\ \A d \in Calls \ {c} : phase'[d] = phase[d]
        /\ q \in pending' \/ reply'[q] # "none"
        /\ \A x \in Questions \ {q} : reply'[x] = reply[x] /\ (x \in pending => x \in pending')
    BY <1>1, <1>2, MintOrDecline
  <1> QED BY <1>1, <1>3, <1>4, <1>5, OpenMoved

LEMMA TokenUsedOpen ==
  ASSUME IInv, OpenShape, NEW q \in Questions, Resume(q) \/ ResumeElsewhere(q) \/ Expire(q)
  PROVE  OpenShape'
  <1>1. q \in pending BY DEF Resume, ResumeElsewhere, Expire, IInv, TokenShape, NoTimer
  <1> DEFINE c == holder[q]
  <1>2. c \in Calls /\ phase[c] = "suspended" /\ reply[q] \in {"none", "void"}
    BY <1>1 DEF IInv, TokenShape, TypeOK
  <1>3. phase \in [Requests -> Phase] /\ c \in Requests /\ Calls \subseteq Requests
    BY <1>2 DEF IInv, TypeOK, Requests
  <1>4. PICK a \in {"client", "decline", "cancel"} : Answer(q, a)
    BY DEF Resume, ResumeElsewhere, Expire
  <1>5. reply'[q] # "none" /\ \A x \in Questions \ {q} : reply'[x] = reply[x]
    BY <1>2, <1>4, AnswerFacts DEF IInv
  <1>6. phase'[c] # "post" /\ \A d \in Calls \ {c} : phase'[d] = phase[d]
    BY <1>3 DEF Resume, ResumeElsewhere, Expire
  <1>7. UNCHANGED <<asker, holder>> /\ pending' = pending \ {q}
    BY DEF Resume, ResumeElsewhere, Expire, Spend, askVars
  <1> QED BY <1>2, <1>5, <1>6, <1>7, OpenMoved

LEMMA OpenNext ==
  ASSUME IInv, OpenShape, [Next]_vars
  PROVE  OpenShape'
  <1>0. /\ phase \in [Requests -> Phase] /\ promise \in [Requests -> {"pending", "settled"}]
        /\ Calls \subseteq Requests /\ Raws \subseteq Requests
        /\ reply \in [Questions -> Replies]
    BY DEF IInv, TypeOK, Requests
  <1>1. CASE Tick \/ (\E r \in Requests : Beat(r)) \/ (\E u \in Upstreams : Retarget(u)) \/ UNCHANGED vars
    BY <1>1, OpenKept DEF Tick, Beat, Retarget, vars, callVars, askVars, replyVars, tokenVars, IInv
  <1>2. ASSUME NEW r \in Requests, NEW p \in {"racing", "raw"}, Issue(r, p) PROVE OpenShape'
    BY <1>0, <1>2, OpenKept DEF Issue, askVars, replyVars, tokenVars, IInv
  <1>3. ASSUME NEW r \in Requests, Finish(r) \/ Timeout(r) PROVE OpenShape'
    <2>1. phase'[r] \in {phase[r], Woken(phase[r])} /\ \A d \in Requests \ {r} : phase'[d] = phase[d]
      BY <1>0, <1>3 DEF Finish, Timeout
    <2>2. phase'[r] = "post" <=> phase[r] = "post" BY <1>0, <2>1, WokenFacts
    <2> QED BY <1>0, <1>3, <2>1, <2>2, OpenKept
            DEF Finish, Timeout, askVars, replyVars, tokenVars, IInv
  <1>4. ASSUME NEW u \in Upstreams, Die(u) PROVE OpenShape'
    <2>1. \A d \in Requests : phase'[d] \in {phase[d], Woken(phase[d])}
      BY <1>0, <1>4 DEF Die
    <2>2. \A d \in Calls : phase'[d] = "post" <=> phase[d] = "post" BY <1>0, <2>1, WokenFacts
    <2>3. \A q \in Questions : reply'[q] = "none" => reply[q] = "none" BY <1>4 DEF Die
    <2>4. UNCHANGED <<askVars, pending>> BY <1>4 DEF Die, tokenVars
    <2> QED BY <2>2, <2>3, <2>4, OpenKept DEF IInv
  <1> QED BY <1>0, <1>1, <1>2, <1>3, <1>4, AskInVainOpen, AskCallOpen, AskResumedOpen,
             PostDoneOpen, TokenUsedOpen DEF Next, Call, Forward

(* What a single request's step leaves of the timers of the others.        *)
LEMMA AwaitOne ==
  ASSUME TypeOK, AwaitShape, NEW r \in Requests,
         \A x \in Requests \ {r} : phase'[x] = phase[x] /\ promise'[x] = promise[x] /\ left'[x] = left[x],
         promise'[r] = "pending" => left'[r] # NoTimer,
         phase'[r] \in {"racing", "resumed", "draining", "raw"} => promise'[r] = "pending"
  PROVE  AwaitShape'
  BY DEF AwaitShape

LEMMA MintAwait ==
  ASSUME IInv, AwaitShape, NEW q \in Questions, NEW c \in Calls,
         Suspend(c, q) \/ AutoDecline(c, q), promise' = promise
  PROVE  AwaitShape'
  <1>1. c \in Requests /\ phase \in [Requests -> Phase] /\ promise[c] \in {"pending", "settled"}
    BY DEF IInv, TypeOK, Requests
  <1>2. CASE Suspend(c, q)
    <2>1. /\ \A x \in Requests \ {c} : left'[x] = left[x]
          /\ promise[c] = "pending" => left'[c] = Ttl + Grace
      BY <1>2, ExtendFacts DEF Suspend, IInv
    <2>2. Ttl + Grace # NoTimer BY DEF NoTimer
    <2> QED BY <1>1, <1>2, <2>1, <2>2, AwaitOne DEF Suspend, IInv
  <1>3. CASE AutoDecline(c, q)
    BY <1>1, <1>3, AwaitOne DEF AutoDecline, clockVars, AwaitShape, IInv
  <1> QED BY <1>2, <1>3

LEMMA AwaitNext ==
  ASSUME IInv, AwaitShape, [Next]_vars
  PROVE  AwaitShape'
  <1>0. /\ phase \in [Requests -> Phase] /\ promise \in [Requests -> {"pending", "settled"}]
        /\ left \in [Requests -> Nat \cup {NoTimer}] /\ window \in [Requests -> {0, Win, Ttl + Grace}]
        /\ Calls \subseteq Requests /\ Raws \subseteq Requests /\ TypeOK
    BY DEF IInv, TypeOK, Requests
  <1>1. 0 # NoTimer /\ Win # NoTimer /\ Ttl + Grace # NoTimer BY DEF NoTimer
  <1>2. CASE Tick
    <2>1. \A r \in Requests : left[r] # NoTimer => left'[r] # NoTimer
      BY <1>0, <1>2 DEF Tick, NoTimer
    <2> QED BY <1>2, <2>1 DEF Tick, callVars, AwaitShape
  <1>3. ASSUME NEW r \in Requests, NEW p \in {"racing", "raw"}, Issue(r, p) PROVE AwaitShape'
    BY <1>0, <1>1, <1>3, AwaitOne DEF Issue
  <1>4. ASSUME NEW r \in Requests, Finish(r) \/ Timeout(r) PROVE AwaitShape'
    <2>1. /\ promise'[r] = "settled"
          /\ \A x \in Requests \ {r} : /\ phase'[x] = phase[x] /\ promise'[x] = promise[x]
                                       /\ left'[x] = left[x]
          /\ phase'[r] = Woken(phase[r]) \/ (promise[r] # "pending" /\ phase'[r] = phase[r])
      BY <1>0, <1>4 DEF Finish, Timeout
    <2>2. phase'[r] \notin {"racing", "resumed", "draining", "raw"}
      BY <1>0, <2>1, WokenFacts DEF AwaitShape
    <2> QED BY <1>0, <2>1, <2>2, AwaitOne
  <1>5. ASSUME NEW u \in Upstreams, Die(u) PROVE AwaitShape'
    <2> SUFFICES ASSUME NEW r \in Requests
                 PROVE  /\ promise'[r] = "pending" => left'[r] # NoTimer
                        /\ phase'[r] \in {"racing", "resumed", "draining", "raw"} => promise'[r] = "pending"
      BY DEF AwaitShape
    <2>1. CASE on[r] = u /\ work[r] = "working"
      <3>1. promise'[r] = "settled" BY <1>5, <2>1 DEF Die
      <3>2. phase'[r] = IF promise[r] = "pending" THEN Woken(phase[r]) ELSE phase[r]
        BY <1>5, <2>1 DEF Die
      <3> QED BY <1>0, <3>1, <3>2, WokenFacts DEF AwaitShape
    <2>2. CASE ~(on[r] = u /\ work[r] = "working")
      <3>1. promise'[r] = promise[r] /\ left'[r] = left[r] /\ phase'[r] = phase[r]
        BY <1>5, <2>2 DEF Die
      <3> QED BY <3>1 DEF AwaitShape
    <2> QED BY <2>1, <2>2
  <1>6. ASSUME NEW r \in Requests, Beat(r) PROVE AwaitShape'
    BY <1>0, <1>1, <1>6, AwaitOne DEF Beat, callVars, AwaitShape
  <1>7. CASE (\E u \in Upstreams : Retarget(u)) \/ UNCHANGED vars
    BY <1>7 DEF Retarget, vars, callVars, clockVars, AwaitShape
  <1>8. ASSUME NEW q \in Questions, NEW r \in Requests, AskInVain(q, r) PROVE AwaitShape'
    BY <1>8 DEF AskInVain, Asks, clockVars, AwaitShape
  <1>9. ASSUME NEW q \in Questions, NEW r \in Requests, AskCall(q, r) PROVE AwaitShape'
    <2>1. PICK c \in Calls : phase' = [phase EXCEPT ![c] = "post"]
      BY <1>9 DEF AskCall, Waiters
    <2> QED BY <1>0, <1>9, <2>1 DEF AskCall, Asks, clockVars, AwaitShape
  <1>10. ASSUME NEW q \in Questions, NEW r \in Requests, AskResumed(q, r) PROVE AwaitShape'
    BY <1>10, MintAwait DEF AskResumed, Asks, Waiters
  <1>11. ASSUME NEW c \in Calls, PostDone(c) PROVE AwaitShape'
    BY <1>11, MintAwait DEF PostDone
  <1>12. ASSUME NEW q \in Questions, Resume(q) PROVE AwaitShape'
    <2> DEFINE c == holder[q]
    <2>1. c \in Calls BY <1>12 DEF Resume, IInv, TokenShape, TypeOK
    <2>2. /\ \A x \in Requests \ {c} : left'[x] = left[x]
          /\ promise[c] = "pending" => left'[c] = Ttl + Grace
      BY <1>0, <1>12, <2>1, ExtendFacts DEF Resume
    <2> QED BY <1>0, <1>1, <1>12, <2>1, <2>2, AwaitOne DEF Resume
  <1>13. ASSUME NEW q \in Questions, ResumeElsewhere(q) \/ Expire(q) PROVE AwaitShape'
    <2>1. q \in pending BY <1>13 DEF ResumeElsewhere, Expire, IInv, TokenShape, NoTimer
    <2>2. holder[q] \in Requests BY <1>0, <2>1 DEF IInv, TokenShape, TypeOK
    <2>3. phase' = [phase EXCEPT ![holder[q]] = "dropped"] /\ UNCHANGED <<promise, left>>
      BY <1>13 DEF ResumeElsewhere, Expire, clockVars
    <2> QED BY <1>0, <2>2, <2>3 DEF AwaitShape
  <1> QED BY <1>0, <1>2, <1>3, <1>4, <1>5, <1>6, <1>7, <1>8, <1>9, <1>10, <1>11, <1>12, <1>13
          DEF Next, Call, Forward

(* An open question is with the call whose PostToolUse hooks run on it, or *)
(* a token with a TTL is out for it; a request somebody awaits has a timer.*)
(* Whatever dies, expires, is retargeted or answered late, there is always *)
(* somebody who will end it (raceElicit, suspendElicit, the TTL of         *)
(* pendingElicits, extendRequestTimeout).                                  *)
THEOREM SomebodyOnItHolds == Spec => []SomebodyOnIt
  <1> DEFINE Inv == IInv /\ OpenShape /\ AwaitShape
  <1>1. ASSUME Init PROVE Inv
    <2>1. OpenShape BY <1>1 DEF Init, OpenShape, Requests
    <2>2. AwaitShape BY <1>1 DEF Init, AwaitShape
    <2> QED BY <1>1, <2>1, <2>2, InitInv
  <1>2. Inv /\ [Next]_vars => Inv' BY NextInv, OpenNext, AwaitNext
  <1>3. Inv => SomebodyOnIt
    BY DEF IInv, OpenShape, AwaitShape, TokenShape, SomebodyOnIt
  <1> HIDE DEF Inv
  <1> QED BY <1>1, <1>2, <1>3, PTL DEF Spec

=============================================================================
