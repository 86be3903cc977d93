--------------------------------- MODULE Gate ---------------------------------
(***************************************************************************)
(* What the gate promises of a tool call, whatever runs the hooks: the     *)
(* hooks consulted are fixed when the call arrives, each votes once, and   *)
(* the tool runs, once, only when all of them have voted and none          *)
(* objected.  ToolGate implements it.                                      *)
(***************************************************************************)
EXTENDS Naturals

CONSTANTS Calls, Hooks

VARIABLES state,   \* of the call: "idle", "open", "running", or its answer
          votes,   \* what each hook consulted said
          execs    \* how often the tool ran

vars == <<state, votes, execs>>

Answers == {"ok", "error"}

Init ==
  /\ state = [c \in Calls |-> "idle"]
  /\ votes = [c \in Calls |-> [h \in Hooks |-> "none"]]
  /\ execs = [c \in Calls |-> 0]

(* The call arrives: some hooks are asked, some object unread.             *)
Ask(c) ==
  /\ state[c] = "idle"
  /\ state' = [state EXCEPT ![c] = "open"]
  /\ \E v \in [Hooks -> {"none", "asked", "block"}] : votes' = [votes EXCEPT ![c] = v]
  /\ UNCHANGED execs

(* ... and cannot be gated at all                                          *)
Refuse(c) ==
  /\ state[c] = "idle"
  /\ state' = [state EXCEPT ![c] = "blocked"]
  /\ UNCHANGED <<votes, execs>>

Vote(c) ==
  /\ state[c] = "open"
  /\ \E h \in Hooks, v \in {"pass", "block"} :
       /\ votes[c][h] = "asked"
       /\ votes' = [votes EXCEPT ![c] = [votes[c] EXCEPT ![h] = v]]
  /\ UNCHANGED <<state, execs>>

Deny(c) ==
  /\ state[c] = "open"
  /\ \A h \in Hooks : votes[c][h] # "asked"
  /\ \E h \in Hooks : votes[c][h] = "block"
  /\ state' = [state EXCEPT ![c] = "blocked"]
  /\ UNCHANGED <<votes, execs>>

Run(c) ==
  /\ state[c] = "open"
  /\ \A h \in Hooks : votes[c][h] \in {"none", "pass"}
  /\ state' = [state EXCEPT ![c] = "running"]
  /\ execs' = [execs EXCEPT ![c] = execs[c] + 1]
  /\ UNCHANGED votes

Return(c) ==
  /\ state[c] = "running"
  /\ \E r \in Answers : state' = [state EXCEPT ![c] = r]
  /\ UNCHANGED <<votes, execs>>

Next == \E c \in Calls : Ask(c) \/ Refuse(c) \/ Vote(c) \/ Deny(c) \/ Run(c) \/ Return(c)

Spec == Init /\ [][Next]_vars

-----------------------------------------------------------------------------
(* A tool runs at most once per call, never for a call that was denied,    *)
(* and never against a hook's objection.                                   *)
RunsOnlyAllowed ==
  \A c \in Calls :
    /\ execs[c] = IF state[c] \in Answers \cup {"running"} THEN 1 ELSE 0
    /\ execs[c] = 1 => \A h \in Hooks : votes[c][h] \in {"none", "pass"}

=============================================================================
