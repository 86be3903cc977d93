------------------------------- MODULE ToolGate -------------------------------
(***************************************************************************)
(* The gate every tool call goes through: gatedRun (src/mcp/gated-run.js)  *)
(* fires PreToolUse on the hook engine (src/core/hook-engine.js), runs the *)
(* tool only if nothing blocked, and fires PostToolUse.  One fire runs its *)
(* hooks' processes (src/core/hook-runner.js) through a pool of workers,   *)
(* while other calls are gated and reloadHooks (src/mcp/server.js) swaps   *)
(* the engine.  Gate says what all of this amounts to.                     *)
(***************************************************************************)
EXTENDS Integers, FiniteSets

CONSTANTS Calls,       \* tool calls in flight or to come
          Hooks,       \* positions in the hooks manifest
          Event,       \* the event each position is for
          Manifests,   \* the contents the manifest and its overlay may have
          Proxied,     \* calls gated through engineProxy, not deps.engine
          Cap          \* DEFAULT_CONCURRENCY, 8 in the code

Kind == {"off", "fires", "unreadable"}   \* off: disabled, or the matcher says no

ASSUME HooksAssumption == Hooks \subseteq Nat /\ IsFiniteSet(Hooks)
ASSUME EventAssumption == Event \in [Hooks -> {"Pre", "Post"}]
ASSUME ManifestAssumption == Manifests \subseteq [Hooks -> Kind] /\ Manifests # {}
ASSUME ProxiedAssumption == Proxied \subseteq Calls
ASSUME CapAssumption == Cap \in Nat \ {0}

Internal == -1     \* the reason of a denial no hook asked for
NoReason == -2

VARIABLES
  manifest,   \* what the engine in build.engine reads
  engine,     \* what the engine a call was handed reads
  phase,      \* of gatedRun, per call
  waiting,    \* tasks of the fire in progress no worker has taken
  running,    \* hooks of that fire whose process has not settled
  result,     \* of each PreToolUse hook
  reason,     \* the hook that owns the denial
  outcome,    \* what execute() came to
  execs,      \* how often execute() was called
  answer      \* what gatedRun resolved to

fireVars == <<waiting, running>>
callVars == <<result, reason, outcome, execs, answer>>
vars == <<manifest, engine, phase, fireVars, callVars>>

Result == {"none", "pass", "block"}

(* The type invariant: votes, workers and answers keep their types, and a
   tool runs at most once (gatedRun).                                      *)
TypeOK ==
  /\ manifest \in Manifests
  /\ engine \in [Calls -> Manifests]
  /\ phase \in [Calls -> {"idle", "pre", "run", "post", "done"}]
  /\ waiting \in [Calls -> SUBSET Hooks]
  /\ running \in [Calls -> SUBSET Hooks]
  /\ result \in [Calls -> [Hooks -> Result]]
  /\ reason \in [Calls -> Hooks \cup {Internal, NoReason}]
  /\ outcome \in [Calls -> {"none", "ok", "error"}]
  /\ execs \in [Calls -> 0..1]
  /\ answer \in [Calls -> {"none", "blocked", "ok", "error"}]

Init ==
  /\ manifest \in Manifests
  /\ engine = [c \in Calls |-> manifest]
  /\ phase = [c \in Calls |-> "idle"]
  /\ waiting = [c \in Calls |-> {}]
  /\ running = [c \in Calls |-> {}]
  /\ result = [c \in Calls |-> [h \in Hooks |-> "none"]]
  /\ reason = [c \in Calls |-> NoReason]
  /\ outcome = [c \in Calls |-> "none"]
  /\ execs = [c \in Calls |-> 0]
  /\ answer = [c \in Calls |-> "none"]

-----------------------------------------------------------------------------
(* HookEngine.fire and its worker pool.                                    *)

Tasks(m, e) == {h \in Hooks : Event[h] = e /\ m[h] = "fires"}
Unreadable(m, e) == {h \in Hooks : Event[h] = e /\ m[h] = "unreadable"}

Before(S, h) == Cardinality({x \in S : x < h})

(* Mistake: off by one, the limit is passed.                               *)
FirstAndNext(n, S) == {h \in S : Before(S, h) <= n}

(* The first n tasks of S in manifest order.                               *)
First(n, S) == {h \in S : Before(S, h) < n}

(* Every worker takes a task at once; those that wait for no process (the  *)
(* unreadable matchers) occupy none.                                       *)
Fire(c, m, e) ==
  /\ running' = [running EXCEPT ![c] = First(Cap, Tasks(m, e))]
  /\ waiting' = [waiting EXCEPT ![c] = Tasks(m, e) \ First(Cap, Tasks(m, e))]

(* Mistake: a worker is gone after its first task.                         *)
SettleAndStop(c, h) ==
  /\ h \in running[c]
  /\ running' = [running EXCEPT ![c] = @ \ {h}]
  /\ UNCHANGED waiting

(* The process of h settles: its worker takes the next task.               *)
Settle(c, h) ==
  /\ h \in running[c]
  /\ running' = [running EXCEPT ![c] = (@ \ {h}) \cup First(1, waiting[c])]
  /\ waiting' = [waiting EXCEPT ![c] = @ \ First(1, waiting[c])]

AllSettled(c) == running[c] = {} /\ waiting[c] = {}

(* How one hook can end, by what hook-runner makes of it.  A reply that    *)
(* cannot be read denies; a hook that fails or does not answer in time     *)
(* does not.                                                               *)
Denials == {"exit2", "deny", "block", "corrupt", "unknown_word", "capped"}
NonDenials == {"allow", "ask", "plain", "other_exit", "timeout", "no_spawn"}

Verdict(how) == IF how \in Denials THEN "block" ELSE "pass"

HookEnds(c, h) ==
  /\ Settle(c, h)
  /\ \E how \in Denials \cup NonDenials :
       result' = IF phase[c] = "pre"
                   THEN [result EXCEPT ![c] = [result[c] EXCEPT ![h] = Verdict(how)]]
                   ELSE result
  /\ UNCHANGED <<manifest, engine, phase, reason, outcome, execs, answer>>

-----------------------------------------------------------------------------
(* gatedRun.                                                               *)

(* PreToolUse fires against the manifest of this moment.                   *)
Ask(c) ==
  /\ phase[c] = "idle"
  /\ phase' = [phase EXCEPT ![c] = "pre"]
  /\ engine' = [engine EXCEPT ![c] = manifest]
  /\ Fire(c, manifest, "Pre")
  /\ result' = [result EXCEPT ![c] =
                  [h \in Hooks |-> IF h \in Unreadable(manifest, "Pre") THEN "block" ELSE "none"]]
  /\ UNCHANGED <<manifest, reason, outcome, execs, answer>>

(* The engine throws, or is none: the gate fails closed.                   *)
AskInVain(c) ==
  /\ phase[c] = "idle"
  /\ phase' = [phase EXCEPT ![c] = "done"]
  /\ answer' = [answer EXCEPT ![c] = "blocked"]
  /\ reason' = [reason EXCEPT ![c] = Internal]
  /\ UNCHANGED <<manifest, engine, fireVars, result, outcome, execs>>

(* Mistake: only the first hook is looked at.                              *)
BlocksIfFirst(c) == {h \in First(1, Hooks) : result[c][h] = "block"}

Blockers(c) == {h \in Hooks : result[c][h] = "block"}

(* Mistake: any blocker will do for the reason, say the first to answer.   *)
DenyByAny(c) ==
  /\ phase[c] = "pre" /\ AllSettled(c) /\ Blockers(c) # {}
  /\ phase' = [phase EXCEPT ![c] = "done"]
  /\ answer' = [answer EXCEPT ![c] = "blocked"]
  /\ \E h \in Blockers(c) : reason' = [reason EXCEPT ![c] = h]
  /\ UNCHANGED <<manifest, engine, fireVars, result, outcome, execs>>

(* The last hook has settled: the first blocker in manifest order owns the *)
(* reason, and execute() is not called.                                    *)
Deny(c) ==
  /\ phase[c] = "pre" /\ AllSettled(c) /\ Blockers(c) # {}
  /\ phase' = [phase EXCEPT ![c] = "done"]
  /\ answer' = [answer EXCEPT ![c] = "blocked"]
  /\ \E h \in First(1, Blockers(c)) : reason' = [reason EXCEPT ![c] = h]
  /\ UNCHANGED <<manifest, engine, fireVars, result, outcome, execs>>

(* Mistake: the verdict does not wait for the slower hooks.                *)
AllowEarly(c) ==
  /\ phase[c] = "pre" /\ Blockers(c) = {}
  /\ phase' = [phase EXCEPT ![c] = "run"]
  /\ execs' = [execs EXCEPT ![c] = @ + 1]
  /\ UNCHANGED <<manifest, engine, fireVars, result, reason, outcome, answer>>

(* ... or nothing blocked, and it is                                       *)
Allow(c) ==
  /\ phase[c] = "pre" /\ AllSettled(c) /\ Blockers(c) = {}
  /\ phase' = [phase EXCEPT ![c] = "run"]
  /\ execs' = [execs EXCEPT ![c] = @ + 1]
  /\ UNCHANGED <<manifest, engine, fireVars, result, reason, outcome, answer>>

(* execute() settles: PostToolUse fires, its outcome advisory, against the *)
(* manifest of that moment or the one PreToolUse was fired against.        *)
ExecEnds(c) ==
  /\ phase[c] = "run"
  /\ \E r \in {"ok", "error"} : outcome' = [outcome EXCEPT ![c] = r]
  /\ phase' = [phase EXCEPT ![c] = "post"]
  /\ \/ Fire(c, IF c \in Proxied THEN manifest ELSE engine[c], "Post")
     \/ UNCHANGED fireVars         \* the engine throws: benign
  /\ UNCHANGED <<manifest, engine, result, reason, execs, answer>>

Answer(c) ==
  /\ phase[c] = "post" /\ AllSettled(c)
  /\ phase' = [phase EXCEPT ![c] = "done"]
  /\ answer' = [answer EXCEPT ![c] = outcome[c]]
  /\ UNCHANGED <<manifest, engine, fireVars, result, reason, outcome, execs>>

(* reloadHooks: an engine over the new manifest; fires in flight keep      *)
(* theirs.  A manifest that does not load changes nothing.                 *)
ReloadHooks ==
  /\ manifest' \in Manifests \ {manifest}
  /\ UNCHANGED <<engine, phase, fireVars, callVars>>

CallSteps(c) ==
  \/ Ask(c) \/ AskInVain(c) \/ Deny(c) \/ Allow(c) \/ ExecEnds(c) \/ Answer(c)
  \/ \E h \in Hooks : HookEnds(c, h)

Next == ReloadHooks \/ \E c \in Calls : CallSteps(c)

Spec == Init /\ [][Next]_vars

(* Every hook process settles (its timer resolves it whatever the child    *)
(* does), and so does execute(); continuations run.                        *)
Fairness ==
  \A c \in Calls :
    /\ WF_vars(Deny(c) \/ Allow(c)) /\ WF_vars(ExecEnds(c)) /\ WF_vars(Answer(c))
    /\ \A h \in Hooks : WF_vars(HookEnds(c, h))

FairSpec == Spec /\ Fairness

-----------------------------------------------------------------------------
(* The Gate this implements.                                               *)

StateOf(c) ==
  IF phase[c] = "idle" THEN "idle"
  ELSE IF phase[c] = "pre" THEN "open"
  ELSE IF phase[c] \in {"run", "post"} THEN "running"
  ELSE answer[c]

VoteOf(c, h) ==
  IF phase[c] = "pre" /\ h \in waiting[c] \cup running[c] THEN "asked" ELSE result[c][h]

G == INSTANCE Gate WITH
  state <- [c \in Calls |-> StateOf(c)],
  votes <- [c \in Calls |-> [h \in Hooks |-> VoteOf(c, h)]]

ImplementsGate == G!Spec

-----------------------------------------------------------------------------
(* Properties.                                                             *)

(* Whatever the order in which the hooks ended, a denial is owned by the   *)
(* first objection of the manifest.                                        *)
ReasonIsFirstBlocker ==
  \A c \in Calls : answer[c] = "blocked" /\ reason[c] # Internal =>
    /\ reason[c] \in Blockers(c)
    /\ \A h \in Blockers(c) : reason[c] <= h

(* A tool runs at most once per call, never for a call that was denied,    *)
(* and never against a hook's objection.                                   *)
RunsOnlyAllowed == G!RunsOnlyAllowed

(* Every call that is asked is answered, though a hook may never exit.     *)
EveryCallAnswered == \A c \in Calls : phase[c] = "pre" ~> phase[c] = "done"

-----------------------------------------------------------------------------
(* The invariant that is inductive: what each phase says of the rest.      *)

PhaseInv(c) ==
  /\ phase[c] \in {"idle", "pre"} => answer[c] = "none" /\ execs[c] = 0
  /\ phase[c] \in {"run", "post"} =>
       answer[c] = "none" /\ execs[c] = 1 /\ Blockers(c) = {}
  /\ phase[c] \in {"idle", "run", "done"} => AllSettled(c)
  /\ phase[c] = "idle" => result[c] = [h \in Hooks |-> "none"]
  /\ phase[c] = "pre" => \A h \in waiting[c] \cup running[c] : result[c][h] = "none"
  /\ phase[c] = "post" => outcome[c] # "none"
  /\ phase[c] = "done" =>
       \/ answer[c] = "blocked" /\ execs[c] = 0
       \/ answer[c] \in {"ok", "error"} /\ execs[c] = 1 /\ Blockers(c) = {}
  /\ waiting[c] \cap running[c] = {}

IInv == TypeOK /\ ReasonIsFirstBlocker /\ \A c \in Calls : PhaseInv(c)

(* A fire runs at most Cap processes, and Cap of them while a task waits:  *)
(* the rest of the queue never waits for nobody.                           *)
PoolInv(c) ==
  /\ Cardinality(running[c]) <= Cap
  /\ waiting[c] # {} => Cardinality(running[c]) = Cap
WorkersBusy == \A c \in Calls : PoolInv(c)

=============================================================================
