--------------------------- MODULE ToolCalls_proofs ---------------------------
(***************************************************************************)
(* Proofs about a tool call, from its name to its answer.  ToolSurface,    *)
(* where it goes: the invariant, what is advertised is what runs, and no   *)
(* way goes round a tool's policy.  ToolGate, whether it runs: the         *)
(* invariant, the run-only-if-allowed property, the owner of a denial, the *)
(* pool of workers, and that it implements Gate.                           *)
(***************************************************************************)
EXTENDS ToolGate, ToolSurface, FiniteSetTheorems, SequenceTheorems,
        WellFoundedInduction, TLAPS

USE DEF Result

(* A set of naturals has a least element.                                  *)
LEMMA LeastOf ==
  ASSUME NEW P \in SUBSET Nat, P # {}
  PROVE  \E m \in P : \A k \in P : m <= k
<1> DEFINE R == OpToRel(<, Nat)
<1>1. IsWellFoundedOn(R, Nat)
  BY NatLessThanWellFounded
<1>2. \A j, k \in Nat : j < k => <<j, k>> \in R
  BY DEF OpToRel
<1> HIDE DEF R
<1>3. PICK m \in P : \A k \in P : <<k, m>> \notin R
  BY <1>1, WFMin
<1>4. \A k \in P : ~(k < m)
  BY <1>2, <1>3
<1> QED BY <1>4

-----------------------------------------------------------------------------
(* What First(n, S) takes from S, and that First(1, S) is the least of S.  *)
LEMMA FirstSubset == ASSUME NEW n, NEW S PROVE First(n, S) \subseteq S
BY DEF First

LEMMA FirstIsLeast ==
  ASSUME NEW S \in SUBSET Hooks, NEW h \in First(1, S)
  PROVE  h \in S /\ \A x \in S : h <= x
<1>1. h \in S /\ Cardinality({x \in S : x < h}) < 1
  BY DEF First, Before
<1> DEFINE below == {x \in S : x < h}
<1>2. IsFiniteSet(below)
  BY HooksAssumption, FS_Subset
<1>3. Cardinality(below) = 0
  BY <1>1, <1>2, FS_CardinalityType
<1>4. below = {}
  BY <1>2, <1>3, FS_EmptySet
<1>5. ASSUME NEW x \in S PROVE h <= x
  <2>1. ~(x < h)
    BY <1>4
  <2>. QED BY <2>1, <1>1, HooksAssumption
<1>. QED BY <1>1, <1>5

-----------------------------------------------------------------------------
(* The invariant is inductive.                                             *)

LEMMA InitInv == Init => IInv
BY DEF Init, IInv, TypeOK, ReasonIsFirstBlocker, PhaseInv, Blockers, AllSettled

(* A step of one call leaves what the invariant says of the others alone.  *)
LEMMA OtherCalls ==
  ASSUME IInv, NEW c \in Calls, NEW d \in Calls, d # c,
         phase'[d] = phase[d], waiting'[d] = waiting[d], running'[d] = running[d],
         result'[d] = result[d], outcome'[d] = outcome[d], execs'[d] = execs[d],
         answer'[d] = answer[d]
  PROVE  PhaseInv(d)'
BY DEF IInv, PhaseInv, Blockers, AllSettled

LEMMA StepInv == IInv /\ [Next]_vars => IInv'
<1> SUFFICES ASSUME IInv, [Next]_vars PROVE IInv'
  OBVIOUS
<1> USE DEF IInv
<1>1. CASE UNCHANGED vars
  BY <1>1 DEF vars, fireVars, callVars, TypeOK, ReasonIsFirstBlocker, PhaseInv, Blockers,
              AllSettled
<1>2. CASE ReloadHooks
  BY <1>2 DEF ReloadHooks, fireVars, callVars, TypeOK, ReasonIsFirstBlocker, PhaseInv, Blockers,
              AllSettled
<1>3. ASSUME NEW c \in Calls, Ask(c) PROVE IInv'
  <2> USE <1>3
  <2>0. First(Cap, Tasks(manifest, "Pre")) \subseteq Hooks /\ Tasks(manifest, "Pre") \subseteq Hooks
    BY FirstSubset DEF Tasks
  <2>1. TypeOK'
    BY <2>0 DEF TypeOK, Ask, Fire
  <2>2. ReasonIsFirstBlocker'
    BY DEF Ask, ReasonIsFirstBlocker, Blockers, PhaseInv, TypeOK
  <2>3. PhaseInv(c)'
    <3>1. \A h \in Tasks(manifest, "Pre") : h \notin Unreadable(manifest, "Pre")
      BY DEF Tasks, Unreadable
    <3>2. waiting'[c] \cup running'[c] = Tasks(manifest, "Pre") /\ waiting'[c] \cap running'[c] = {}
      BY FirstSubset DEF Ask, Fire, TypeOK
    <3>. QED
      BY <2>0, <3>1, <3>2 DEF Ask, PhaseInv, TypeOK, AllSettled
  <2>4. ASSUME NEW d \in Calls, d # c PROVE PhaseInv(d)'
    BY <2>4, OtherCalls DEF Ask, Fire, TypeOK
  <2>. QED BY <2>1, <2>2, <2>3, <2>4
<1>4. ASSUME NEW c \in Calls, AskInVain(c) PROVE IInv'
  <2> USE <1>4 DEF AskInVain, fireVars
  <2>1. TypeOK'
    BY DEF TypeOK
  <2>2. ReasonIsFirstBlocker'
    BY DEF ReasonIsFirstBlocker, Blockers, TypeOK
  <2>3. PhaseInv(c)'
    BY DEF PhaseInv, TypeOK, AllSettled
  <2>4. ASSUME NEW d \in Calls, d # c PROVE PhaseInv(d)'
    BY <2>4, OtherCalls DEF TypeOK
  <2>. QED BY <2>1, <2>2, <2>3, <2>4
<1>5. ASSUME NEW c \in Calls, Deny(c) PROVE IInv'
  <2> USE <1>5 DEF Deny, fireVars
  <2>0. PICK h \in First(1, Blockers(c)) : reason' = [reason EXCEPT ![c] = h]
    OBVIOUS
  <2>00. h \in Blockers(c) /\ h \in Hooks /\ \A x \in Blockers(c) : h <= x
    BY FirstIsLeast DEF Blockers
  <2>1. TypeOK'
    BY <2>0, <2>00 DEF TypeOK
  <2>2. ReasonIsFirstBlocker'
    BY <2>0, <2>00 DEF ReasonIsFirstBlocker, Blockers, TypeOK
  <2>3. PhaseInv(c)'
    BY DEF PhaseInv, TypeOK, AllSettled
  <2>4. ASSUME NEW d \in Calls, d # c PROVE PhaseInv(d)'
    BY <2>4, OtherCalls DEF TypeOK
  <2>. QED BY <2>1, <2>2, <2>3, <2>4
<1>6. ASSUME NEW c \in Calls, Allow(c) PROVE IInv'
  <2> USE <1>6 DEF Allow, fireVars
  <2>1. TypeOK'
    BY DEF TypeOK, PhaseInv
  <2>2. ReasonIsFirstBlocker'
    BY DEF ReasonIsFirstBlocker, Blockers
  <2>3. PhaseInv(c)'
    BY DEF PhaseInv, TypeOK, AllSettled, Blockers
  <2>4. ASSUME NEW d \in Calls, d # c PROVE PhaseInv(d)'
    BY <2>4, OtherCalls DEF TypeOK
  <2>. QED BY <2>1, <2>2, <2>3, <2>4
<1>7. ASSUME NEW c \in Calls, ExecEnds(c) PROVE IInv'
  <2> USE <1>7
  <2> DEFINE m == IF c \in Proxied THEN manifest ELSE engine[c]
  <2>0. First(Cap, Tasks(m, "Post")) \subseteq Tasks(m, "Post") /\ Tasks(m, "Post") \subseteq Hooks
    BY FirstSubset DEF Tasks
  <2>1. TypeOK'
    <3>1. running' \in [Calls -> SUBSET Hooks] /\ waiting' \in [Calls -> SUBSET Hooks]
      <4>1. CASE Fire(c, m, "Post")
        BY <2>0, <4>1 DEF TypeOK, Fire
      <4>2. CASE UNCHANGED fireVars
        BY <4>2 DEF TypeOK, fireVars
      <4>. QED BY <4>1, <4>2 DEF ExecEnds
    <3>2. outcome' \in [Calls -> {"none", "ok", "error"}]
      BY DEF TypeOK, ExecEnds
    <3>3. phase' \in [Calls -> {"idle", "pre", "run", "post", "done"}]
      BY DEF TypeOK, ExecEnds
    <3>. QED BY <3>1, <3>2, <3>3 DEF TypeOK, ExecEnds
  <2>2. ReasonIsFirstBlocker'
    BY DEF ExecEnds, ReasonIsFirstBlocker, Blockers
  <2>3. PhaseInv(c)'
    <3>1. waiting'[c] \cap running'[c] = {}
      BY DEF ExecEnds, Fire, fireVars, TypeOK, PhaseInv
    <3>. QED
      BY <3>1 DEF ExecEnds, PhaseInv, TypeOK, Blockers
  <2>4. ASSUME NEW d \in Calls, d # c PROVE PhaseInv(d)'
    BY <2>4, OtherCalls DEF ExecEnds, Fire, fireVars, TypeOK
  <2>. QED BY <2>1, <2>2, <2>3, <2>4
<1>8. ASSUME NEW c \in Calls, Answer(c) PROVE IInv'
  <2> USE <1>8 DEF Answer, fireVars
  <2>1. TypeOK'
    BY DEF TypeOK
  <2>2. ReasonIsFirstBlocker'
    BY DEF ReasonIsFirstBlocker, Blockers, TypeOK
  <2>3. PhaseInv(c)'
    BY DEF PhaseInv, TypeOK, AllSettled, Blockers
  <2>4. ASSUME NEW d \in Calls, d # c PROVE PhaseInv(d)'
    BY <2>4, OtherCalls DEF TypeOK
  <2>. QED BY <2>1, <2>2, <2>3, <2>4
<1>9. ASSUME NEW c \in Calls, NEW h \in Hooks, HookEnds(c, h) PROVE IInv'
  <2> USE <1>9
  <2> DEFINE next == First(1, waiting[c])
  <2>0. next \subseteq waiting[c]
    BY FirstSubset
  <2>1. PICK how \in Denials \cup NonDenials :
          result' = IF phase[c] = "pre"
                      THEN [result EXCEPT ![c] = [result[c] EXCEPT ![h] = Verdict(how)]]
                      ELSE result
    BY DEF HookEnds
  <2>2. Verdict(how) \in {"pass", "block"}
    BY DEF Verdict
  <2>3. phase[c] \in {"pre", "post"} /\ h \in running[c] /\ answer[c] = "none"
    BY DEF HookEnds, Settle, PhaseInv, AllSettled, TypeOK
  <2>4. /\ running' = [running EXCEPT ![c] = (running[c] \ {h}) \cup next]
        /\ waiting' = [waiting EXCEPT ![c] = waiting[c] \ next]
    BY DEF HookEnds, Settle
  <2>5. UNCHANGED <<manifest, engine, phase, reason, outcome, execs, answer>>
    BY DEF HookEnds
  <2> HIDE <1>9 DEF next
  <2>6. TypeOK'
    <3>1. result' \in [Calls -> [Hooks -> Result]]
      BY <2>1, <2>2 DEF TypeOK
    <3>2. running' \in [Calls -> SUBSET Hooks] /\ waiting' \in [Calls -> SUBSET Hooks]
      BY <2>0, <2>4 DEF TypeOK
    <3>. QED BY <2>5, <3>1, <3>2 DEF TypeOK
  <2>7. ReasonIsFirstBlocker'
    BY <2>1, <2>3, <2>5 DEF ReasonIsFirstBlocker, Blockers, TypeOK
  <2>8. PhaseInv(c)'
    <3>1. waiting'[c] = waiting[c] \ next /\ running'[c] = (running[c] \ {h}) \cup next
      BY <2>4 DEF TypeOK
    <3>2. waiting'[c] \cap running'[c] = {} /\ h \notin waiting'[c] \cup running'[c]
      BY <2>0, <2>3, <3>1 DEF PhaseInv
    <3>3. CASE phase[c] = "pre"
      <4>1. \A x \in waiting'[c] \cup running'[c] : result'[c][x] = "none"
        BY <2>0, <2>1, <3>1, <3>2, <3>3 DEF PhaseInv, TypeOK
      <4>. QED BY <2>5, <3>2, <3>3, <4>1 DEF PhaseInv
    <3>4. CASE phase[c] = "post"
      BY <2>1, <2>5, <3>2, <3>4 DEF PhaseInv, Blockers
    <3>. QED BY <2>3, <3>3, <3>4
  <2>9. ASSUME NEW d \in Calls, d # c PROVE PhaseInv(d)'
    BY <2>1, <2>4, <2>5, <2>9, OtherCalls DEF TypeOK
  <2>. QED BY <2>6, <2>7, <2>8, <2>9
<1>. QED
  BY <1>1, <1>2, <1>3, <1>4, <1>5, <1>6, <1>7, <1>8, <1>9 DEF Next, CallSteps

(* The invariant holds throughout: types, the owner of every denial, and   *)
(* what each phase of a call says of its hooks, its tool and its answer.   *)
THEOREM Invariant == Spec => []IInv
BY InitInv, StepInv, PTL DEF Spec

(* Every variable keeps its type; in particular no tool runs twice.        *)
THEOREM TypeCorrect == Spec => []TypeOK
<1>1. IInv => TypeOK
  BY DEF IInv
<1>. QED BY <1>1, Invariant, PTL

(* The first blocker of the manifest owns the reason, for any number of    *)
(* hooks, workers and calls, in whatever order the hooks end.              *)
THEOREM ReasonIsFirstBlockerHolds == Spec => []ReasonIsFirstBlocker
<1>1. IInv => ReasonIsFirstBlocker
  BY DEF IInv
<1>. QED BY <1>1, Invariant, PTL

(* A tool runs at most once per call, never for a call that was denied,    *)
(* never against an objection.                                             *)
THEOREM RunsOnlyAllowedHolds == Spec => []RunsOnlyAllowed
<1>1. IInv => RunsOnlyAllowed
  BY DEF IInv, TypeOK, PhaseInv, Blockers, RunsOnlyAllowed, G!RunsOnlyAllowed, G!Answers,
         StateOf, VoteOf
<1>. QED BY <1>1, Invariant, PTL

-----------------------------------------------------------------------------
(* The pool of workers.                                                    *)

(* First(n, S) has n elements, or is all of S.                             *)
LEMMA FirstCardinality ==
  ASSUME NEW S \in SUBSET Hooks, NEW n \in Nat
  PROVE  /\ IsFiniteSet(First(n, S)) /\ Cardinality(First(n, S)) <= n
         /\ S \ First(n, S) # {} => Cardinality(First(n, S)) = n
<1> DEFINE F == First(n, S)
           below(h) == {x \in S : x < h}
<1>1. S \subseteq Nat /\ F \subseteq S
  BY HooksAssumption DEF First
<1>a. \A h : h \in F <=> h \in S /\ Before(S, h) < n
  BY DEF First
<1>b. \A x, h : x \in below(h) <=> x \in S /\ x < h
  OBVIOUS
<1>c. \A x \in S : x \in Nat
  BY <1>1
<1>2. IsFiniteSet(F) /\ Cardinality(F) \in Nat
  BY <1>1, HooksAssumption, FS_Subset, FS_CardinalityType
<1>3. \A h \in Nat : IsFiniteSet(below(h)) /\ Before(S, h) = Cardinality(below(h)) /\ Before(S, h) \in Nat
  <2> SUFFICES ASSUME NEW h \in Nat
               PROVE  IsFiniteSet(below(h)) /\ Before(S, h) = Cardinality(below(h)) /\ Before(S, h) \in Nat
    OBVIOUS
  <2>1. below(h) \subseteq Hooks
    OBVIOUS
  <2>2. IsFiniteSet(below(h))
    BY <2>1, HooksAssumption, FS_Subset
  <2> QED BY <2>2, FS_CardinalityType DEF Before
<1> HIDE DEF F, below
<1>4. ASSUME NEW x \in S, NEW y \in S, x < y PROVE Before(S, x) < Before(S, y)
  <2>1. x \in Nat /\ y \in Nat
    BY <1>1
  <2>2. below(x) \subseteq below(y) /\ x \in below(y) /\ x \notin below(x)
    <3>1. ASSUME NEW z \in below(x) PROVE z \in below(y)
      <4>1. z \in S /\ z < x /\ z \in Nat
        BY <1>b, <1>c
      <4> QED BY <1>4, <1>b, <2>1, <4>1
    <3> QED BY <1>4, <1>b, <2>1, <3>1
  <2>3. below(x) # below(y)
    BY <2>2
  <2>4. IsFiniteSet(below(y)) /\ Before(S, x) = Cardinality(below(x)) /\ Before(S, y) = Cardinality(below(y))
    BY <1>3, <2>1
  <2>5. Cardinality(below(x)) < Cardinality(below(y))
    BY <2>2, <2>3, <2>4, FS_Subset, FS_CardinalityType
  <2> QED BY <2>4, <2>5
<1>5. Cardinality(F) <= n
  <2> DEFINE rank == [h \in F |-> Before(S, h)]
             slots == 0 .. (n - 1)
  <2>1. rank \in [F -> slots]
    <3>1. \A h \in F : Before(S, h) \in Nat /\ Before(S, h) < n
      BY <1>1, <1>3, <1>a
    <3> QED BY <3>1
  <2>2. \A x, y \in F : x # y => rank[x] # rank[y]
    <3> SUFFICES ASSUME NEW x \in F, NEW y \in F, x # y PROVE Before(S, x) # Before(S, y)
      OBVIOUS
    <3>1. x \in S /\ y \in S /\ x \in Nat /\ y \in Nat /\ Before(S, x) \in Nat /\ Before(S, y) \in Nat
      BY <1>1, <1>3
    <3>2. x < y \/ y < x
      BY <3>1
    <3> QED BY <1>4, <3>1, <3>2
  <2>3. rank \in Injection(F, slots)
    <3> HIDE DEF rank, slots
    <3> QED BY <2>1, <2>2 DEF Injection, IsInjective
  <2>4. IsFiniteSet(slots) /\ Cardinality(slots) = n
    BY FS_Interval
  <2> HIDE DEF slots, rank
  <2>5. Cardinality(F) <= Cardinality(slots)
    BY <2>3, <2>4, FS_Injection DEF ExistsInjection
  <2> QED BY <2>4, <2>5
<1>6. ASSUME S \ F # {} PROVE Cardinality(F) = n
  <2>1. PICK m \in S \ F : \A k \in S \ F : m <= k
    BY <1>1, <1>6, LeastOf
  <2>2. m \in Nat /\ Before(S, m) >= n
    <3>1. m \in S /\ m \in Nat /\ Before(S, m) \in Nat
      BY <1>3, <1>c, <2>1
    <3> QED BY <1>a, <2>1, <3>1
  <2>3. below(m) \subseteq F
    <3> SUFFICES ASSUME NEW z \in below(m) PROVE z \in F
      OBVIOUS
    <3>1. z \in S /\ z < m /\ z \in Nat
      BY <1>b, <1>c
    <3> QED BY <2>1, <2>2, <3>1
  <2>4. Before(S, m) = Cardinality(below(m)) /\ Before(S, m) \in Nat
    BY <1>3, <2>2
  <2>5. Cardinality(below(m)) <= Cardinality(F)
    BY <1>2, <2>3, FS_Subset
  <2> QED BY <1>2, <1>5, <2>2, <2>4, <2>5
<1> QED BY <1>2, <1>5, <1>6 DEF F

LEMMA FireBusy ==
  ASSUME TypeOK, NEW c \in Calls, NEW m, NEW e, Fire(c, m, e)
  PROVE  PoolInv(c)'
<1> DEFINE T == Tasks(m, e)
<1>1. T \in SUBSET Hooks /\ Cap \in Nat
  BY CapAssumption DEF Tasks
<1>2. running'[c] = First(Cap, T) /\ waiting'[c] = T \ First(Cap, T)
  BY DEF Fire, TypeOK
<1> HIDE DEF T
<1> QED BY <1>1, <1>2, FirstCardinality DEF PoolInv

LEMMA SettleBusy ==
  ASSUME TypeOK, NEW c \in Calls, waiting[c] \cap running[c] = {}, PoolInv(c),
         NEW h, Settle(c, h)
  PROVE  PoolInv(c)'
<1> DEFINE W == waiting[c]
           R == running[c]
           next == First(1, W)
<1>1. W \in SUBSET Hooks /\ R \in SUBSET Hooks /\ h \in R /\ Cap \in Nat
  BY CapAssumption DEF Settle, TypeOK
<1>2. running'[c] = (R \ {h}) \cup next /\ waiting'[c] = W \ next
  BY DEF Settle, TypeOK
<1>3. next \subseteq W
  BY FirstSubset
<1>4. IsFiniteSet(next) /\ Cardinality(next) <= 1 /\ (W \ next # {} => Cardinality(next) = 1)
  BY <1>1, FirstCardinality
<1>5. IsFiniteSet(R) /\ IsFiniteSet(R \ {h}) /\ Cardinality(R) \in Nat /\ Cardinality(next) \in Nat
  BY <1>1, <1>4, HooksAssumption, FS_Subset, FS_RemoveElement, FS_CardinalityType
<1>6. W \cap R = {} /\ Cardinality(R) <= Cap /\ (W # {} => Cardinality(R) = Cap)
  BY DEF PoolInv
<1> HIDE DEF W, R, next
<1>7. Cardinality(R \ {h}) = Cardinality(R) - 1
  BY <1>1, <1>5, FS_RemoveElement
<1>8. (R \ {h}) \cap next = {}
  BY <1>3, <1>6
<1>9. Cardinality((R \ {h}) \cup next) = Cardinality(R) - 1 + Cardinality(next)
  <2>1. Cardinality((R \ {h}) \cup next) =
          Cardinality(R \ {h}) + Cardinality(next) - Cardinality((R \ {h}) \cap next)
    BY <1>4, <1>5, FS_Union
  <2>2. Cardinality((R \ {h}) \cap next) = 0
    BY <1>8, FS_EmptySet
  <2> QED BY <1>5, <1>7, <2>1, <2>2
<1>10. Cardinality(running'[c]) <= Cap
  BY <1>1, <1>2, <1>4, <1>5, <1>6, <1>9
<1>11. waiting'[c] # {} => Cardinality(running'[c]) = Cap
  BY <1>1, <1>2, <1>4, <1>5, <1>6, <1>9
<1> QED BY <1>10, <1>11 DEF PoolInv

LEMMA InitBusy == Init => WorkersBusy
<1> SUFFICES ASSUME Init, NEW c \in Calls PROVE PoolInv(c)
  BY DEF WorkersBusy
<1>1. running[c] = {} /\ waiting[c] = {}
  BY DEF Init
<1> QED BY <1>1, FS_EmptySet, CapAssumption DEF PoolInv

LEMMA StepBusy == IInv /\ WorkersBusy /\ [Next]_vars => WorkersBusy'
<1> SUFFICES ASSUME IInv, WorkersBusy, [Next]_vars, NEW d \in Calls PROVE PoolInv(d)'
  BY DEF WorkersBusy
<1>1. PoolInv(d) /\ TypeOK /\ waiting[d] \cap running[d] = {}
  BY DEF WorkersBusy, IInv, PhaseInv
<1>2. CASE running'[d] = running[d] /\ waiting'[d] = waiting[d]
  BY <1>1, <1>2 DEF PoolInv
<1>3. CASE UNCHANGED fireVars
  BY <1>2, <1>3 DEF fireVars
<1>4. ASSUME NEW c \in Calls, NEW m, NEW e, Fire(c, m, e) PROVE PoolInv(d)'
  <2>1. c # d => running'[d] = running[d] /\ waiting'[d] = waiting[d]
    BY <1>1, <1>4 DEF Fire, TypeOK
  <2> QED BY <1>1, <1>2, <1>4, <2>1, FireBusy
<1>5. ASSUME NEW c \in Calls, NEW h \in Hooks, HookEnds(c, h) PROVE PoolInv(d)'
  <2>1. Settle(c, h)
    BY <1>5 DEF HookEnds
  <2>2. c # d => running'[d] = running[d] /\ waiting'[d] = waiting[d]
    BY <1>1, <2>1 DEF Settle, TypeOK
  <2> QED BY <1>1, <1>2, <2>1, <2>2, SettleBusy
<1>6. CASE UNCHANGED vars
  BY <1>3, <1>6 DEF vars
<1>7. CASE ReloadHooks
  BY <1>3, <1>7 DEF ReloadHooks
<1>8. ASSUME NEW c \in Calls, Ask(c) PROVE PoolInv(d)'
  BY <1>4, <1>8 DEF Ask
<1>9. ASSUME NEW c \in Calls, ExecEnds(c) PROVE PoolInv(d)'
  BY <1>3, <1>4, <1>9 DEF ExecEnds
<1>10. ASSUME NEW c \in Calls, AskInVain(c) \/ Deny(c) \/ Allow(c) \/ Answer(c) PROVE PoolInv(d)'
  BY <1>3, <1>10 DEF AskInVain, Deny, Allow, Answer
<1> QED BY <1>5, <1>6, <1>7, <1>8, <1>9, <1>10 DEF Next, CallSteps

(* The pool of a fire never runs more than Cap processes, and keeps all of *)
(* its workers busy while a task waits: no task waits when none runs.      *)
THEOREM WorkersBusyHolds == Spec => []WorkersBusy
BY InitBusy, StepBusy, Invariant, PTL DEF Spec

-----------------------------------------------------------------------------
(* The gate implements Gate.                                               *)

LEMMA InitImplements == Init => G!Init
BY DEF Init, G!Init, StateOf, VoteOf

(* A step that leaves every call's state, votes and tool runs is a stutter.*)
LEMMA Stutters ==
  ASSUME \A c \in Calls : StateOf(c)' = StateOf(c),
         \A c \in Calls, h \in Hooks : VoteOf(c, h)' = VoteOf(c, h),
         execs' = execs
  PROVE  UNCHANGED G!vars
BY DEF G!vars

(* A step that moves no vote.                                              *)
LEMMA KeepsVotes ==
  ASSUME \A c \in Calls, h \in Hooks : VoteOf(c, h)' = VoteOf(c, h)
  PROVE  [c \in Calls |-> [h \in Hooks |-> VoteOf(c, h)]]'
         = [c \in Calls |-> [h \in Hooks |-> VoteOf(c, h)]]
OBVIOUS

LEMMA StepImplements == IInv /\ [Next]_vars => [G!Next]_(G!vars)
<1> SUFFICES ASSUME IInv, [Next]_vars PROVE [G!Next]_(G!vars)
  OBVIOUS
<1> USE DEF IInv
<1> DEFINE st == [d \in Calls |-> StateOf(d)]
           vt == [d \in Calls |-> [h \in Hooks |-> VoteOf(d, h)]]
<1>1. CASE UNCHANGED vars
  BY <1>1, Stutters DEF vars, fireVars, callVars, StateOf, VoteOf
<1>2. CASE ReloadHooks
  BY <1>2, Stutters DEF ReloadHooks, fireVars, callVars, StateOf, VoteOf
<1>3. ASSUME NEW c \in Calls, Ask(c) PROVE G!Ask(c)
  <2> USE <1>3
  <2> DEFINE v == [h \in Hooks |-> VoteOf(c, h)']
  <2>1. First(Cap, Tasks(manifest, "Pre")) \subseteq Tasks(manifest, "Pre") /\ Tasks(manifest, "Pre") \subseteq Hooks
    BY FirstSubset DEF Tasks
  <2>2. waiting'[c] \cup running'[c] = Tasks(manifest, "Pre") /\ phase'[c] = "pre"
    BY <2>1 DEF Ask, Fire, TypeOK
  <2>3. result'[c] = [h \in Hooks |-> IF h \in Unreadable(manifest, "Pre") THEN "block" ELSE "none"]
    BY DEF Ask, TypeOK
  <2>4. v \in [Hooks -> {"none", "asked", "block"}]
    BY <2>2, <2>3 DEF VoteOf
  <2>5. st' = [st EXCEPT ![c] = "open"] /\ st[c] = "idle"
    BY DEF Ask, StateOf, TypeOK
  <2>6. vt' = [vt EXCEPT ![c] = v]
    BY DEF Ask, Fire, VoteOf, TypeOK
  <2>7. execs' = execs
    BY DEF Ask
  <2>. QED BY <2>4, <2>5, <2>6, <2>7 DEF G!Ask
<1>4. ASSUME NEW c \in Calls, AskInVain(c) PROVE G!Refuse(c)
  <2> USE <1>4 DEF AskInVain, fireVars
  <2>1. st' = [st EXCEPT ![c] = "blocked"] /\ st[c] = "idle"
    BY DEF StateOf, TypeOK
  <2>2. vt' = vt
    BY KeepsVotes DEF VoteOf, TypeOK, PhaseInv, AllSettled
  <2>. QED BY <2>1, <2>2 DEF G!Refuse
<1>5. ASSUME NEW c \in Calls, Deny(c) PROVE G!Deny(c)
  <2> USE <1>5 DEF Deny, fireVars, AllSettled
  <2>1. st' = [st EXCEPT ![c] = "blocked"] /\ st[c] = "open"
    BY DEF StateOf, TypeOK
  <2>2. vt' = vt
    BY KeepsVotes DEF VoteOf, TypeOK
  <2>3. \A h \in Hooks : vt[c][h] # "asked"
    BY DEF VoteOf, TypeOK
  <2>4. \E h \in Hooks : vt[c][h] = "block"
    BY DEF VoteOf, Blockers
  <2>. QED BY <2>1, <2>2, <2>3, <2>4 DEF G!Deny
<1>6. ASSUME NEW c \in Calls, Allow(c) PROVE G!Run(c)
  <2> USE <1>6 DEF Allow, fireVars, AllSettled
  <2>1. st' = [st EXCEPT ![c] = "running"] /\ st[c] = "open"
    BY DEF StateOf, TypeOK
  <2>2. vt' = vt
    BY KeepsVotes DEF VoteOf, TypeOK
  <2>3. \A h \in Hooks : vt[c][h] \in {"none", "pass"}
    BY DEF VoteOf, Blockers, TypeOK
  <2>. QED BY <2>1, <2>2, <2>3 DEF G!Run
<1>7. ASSUME NEW c \in Calls, ExecEnds(c) PROVE UNCHANGED G!vars
  <2> USE <1>7 DEF ExecEnds
  <2>1. \A d \in Calls : StateOf(d)' = StateOf(d)
    BY DEF StateOf, TypeOK
  <2>2. \A d \in Calls, h \in Hooks : VoteOf(d, h)' = VoteOf(d, h)
    <3>1. \A d \in Calls : d # c => waiting'[d] = waiting[d] /\ running'[d] = running[d]
      BY DEF Fire, fireVars, TypeOK
    <3>. QED BY <3>1 DEF VoteOf, TypeOK
  <2>. QED BY <2>1, <2>2, Stutters
<1>8. ASSUME NEW c \in Calls, Answer(c) PROVE G!Return(c)
  <2> USE <1>8 DEF Answer, fireVars, AllSettled
  <2>1. outcome[c] \in G!Answers
    BY DEF TypeOK, PhaseInv, G!Answers
  <2>2. st' = [st EXCEPT ![c] = outcome[c]] /\ st[c] = "running"
    BY DEF StateOf, TypeOK
  <2>3. vt' = vt
    BY KeepsVotes DEF VoteOf, TypeOK
  <2>. QED BY <2>1, <2>2, <2>3 DEF G!Return
<1>9. ASSUME NEW c \in Calls, NEW h \in Hooks, HookEnds(c, h)
      PROVE  G!Vote(c) \/ UNCHANGED G!vars
  <2> USE <1>9
  <2> DEFINE next == First(1, waiting[c])
  <2>0. next \subseteq waiting[c]
    BY FirstSubset
  <2>1. PICK how \in Denials \cup NonDenials :
          result' = IF phase[c] = "pre"
                      THEN [result EXCEPT ![c] = [result[c] EXCEPT ![h] = Verdict(how)]]
                      ELSE result
    BY DEF HookEnds
  <2>2. Verdict(how) \in {"pass", "block"}
    BY DEF Verdict
  <2>3. phase[c] \in {"pre", "post"} /\ h \in running[c]
    BY DEF HookEnds, Settle, PhaseInv, AllSettled, TypeOK
  <2>4. /\ running' = [running EXCEPT ![c] = (running[c] \ {h}) \cup next]
        /\ waiting' = [waiting EXCEPT ![c] = waiting[c] \ next]
    BY DEF HookEnds, Settle
  <2>5. UNCHANGED <<manifest, engine, phase, reason, outcome, execs, answer>>
    BY DEF HookEnds
  <2> HIDE <1>9 DEF next
  <2>6. waiting'[c] \cup running'[c] = (waiting[c] \cup running[c]) \ {h}
    BY <2>0, <2>3, <2>4 DEF TypeOK, PhaseInv
  <2>7. \A d \in Calls : d # c => waiting'[d] = waiting[d] /\ running'[d] = running[d]
    BY <2>4 DEF TypeOK
  <2>8. \A d \in Calls : StateOf(d)' = StateOf(d)
    BY <2>5 DEF StateOf
  <2>9. CASE phase[c] = "pre"
    <3>1. vt' = [vt EXCEPT ![c] = [vt[c] EXCEPT ![h] = Verdict(how)]]
      <4>1. \A d \in Calls, x \in Hooks : d # c => VoteOf(d, x)' = VoteOf(d, x)
        BY <2>1, <2>5, <2>7 DEF VoteOf, TypeOK
      <4>2. \A x \in Hooks : x # h => VoteOf(c, x)' = VoteOf(c, x)
        BY <2>1, <2>5, <2>6, <2>9 DEF VoteOf, TypeOK
      <4>3. VoteOf(c, h)' = Verdict(how)
        BY <2>1, <2>5, <2>6, <2>9 DEF VoteOf, TypeOK
      <4>. QED BY <4>1, <4>2, <4>3
    <3>2. vt[c][h] = "asked" /\ st[c] = "open"
      BY <2>3, <2>9 DEF VoteOf, StateOf
    <3>3. st' = st
      BY <2>8
    <3>. QED BY <3>1, <3>2, <3>3, <2>2, <2>5 DEF G!Vote
  <2>10. CASE phase[c] = "post"
    <3>1. \A d \in Calls, x \in Hooks : VoteOf(d, x)' = VoteOf(d, x)
      BY <2>1, <2>5, <2>7, <2>10 DEF VoteOf
    <3>. QED BY <3>1, <2>5, <2>8, Stutters
  <2>. QED BY <2>3, <2>9, <2>10
<1>. QED
  BY <1>1, <1>2, <1>3, <1>4, <1>5, <1>6, <1>7, <1>8, <1>9 DEF Next, CallSteps, G!Next

(* The engine, its pool of workers and gatedRun together do what Gate      *)
(* promises: every step is one of Gate's or changes nothing it speaks of.  *)
THEOREM Implements == Spec => ImplementsGate
BY InitImplements, StepImplements, Invariant, PTL DEF Spec, ImplementsGate, G!Spec

-----------------------------------------------------------------------------
(* Where a call goes: what ToolSurface is built from.                      *)

(* The elements of a sequence.                                             *)
LEMMA SeqFacts ==
  ASSUME NEW S, NEW s \in Seq(S)
  PROVE  /\ DOMAIN s = 1..Len(s) /\ Len(s) \in Nat /\ DOMAIN s \subseteq Nat
         /\ \A i \in DOMAIN s : s[i] \in S
OBVIOUS

(* What FirstOf takes from a sequence.                                     *)
LEMMA FirstOfFacts ==
  ASSUME NEW s, NEW P \in SUBSET Nat
  PROVE  /\ \A e \in FirstOf(s, P) : \E i \in P : e = s[i]
         /\ \A e, f \in FirstOf(s, P) : e = f
         /\ P # {} => FirstOf(s, P) # {}
<1>1. ASSUME NEW i \in P, \A j \in P : i <= j, NEW k \in P, \A j \in P : k <= j
      PROVE  i = k
  BY <1>1
<1>2. ASSUME P # {} PROVE FirstOf(s, P) # {}
  <2>1. PICK m \in P : \A k \in P : m <= k
    BY <1>2, LeastOf
  <2> QED BY <2>1 DEF FirstOf
<1>3. ASSUME NEW e \in FirstOf(s, P), NEW f \in FirstOf(s, P) PROVE e = f
  <2>1. PICK i \in P : e = s[i] /\ \A j \in P : i <= j
    BY DEF FirstOf
  <2>2. PICK k \in P : f = s[k] /\ \A j \in P : k <= j
    BY DEF FirstOf
  <2> QED BY <1>1, <2>1, <2>2
<1> QED BY <1>2, <1>3 DEF FirstOf

(* The register: the local tool a name goes to.                            *)
LEMMA LocalFacts ==
  ASSUME SurfaceTypeOK, NEW n
  PROVE  /\ \A l \in Local(n) : l \in Range(register) /\ n \in {l.id, l.name}
         /\ \A l, m \in Local(n) : l = m
         /\ Local(n) # {} <=> Taken(n)
<1> DEFINE ById == {i \in DOMAIN register : register[i].id = n}
           ByName == {i \in DOMAIN register : register[i].name = n}
           P == IF ById # {} THEN ById ELSE ByName
<1>1. P \in SUBSET Nat /\ P \subseteq DOMAIN register
  BY DEF SurfaceTypeOK
<1>2. Local(n) = FirstOf(register, P)
  BY DEF Local
<1>3. \A i \in P : register[i] \in Range(register) /\ n \in {register[i].id, register[i].name}
  BY <1>1 DEF Range
<1>4. Taken(n) => P # {}
  BY DEF Taken, Range
<1> HIDE DEF P
<1>5. \A l \in Local(n) : \E i \in P : l = register[i]
  BY <1>1, <1>2, FirstOfFacts
<1>6. Local(n) # {} => Taken(n)
  BY <1>3, <1>5 DEF Taken
<1> QED BY <1>1, <1>2, <1>3, <1>4, <1>5, <1>6, FirstOfFacts

LEMMA RegisterFacts ==
  ASSUME SurfaceTypeOK
  PROVE  /\ \A l \in Range(register) : l.id \in Locals /\ l.name \in Displays
         /\ \A l, m \in Range(register) : l.id = m.id => l = m
<1>1. /\ register \in Seq([id : Locals, name : Displays])
      /\ \A i, j \in DOMAIN register : register[i].id = register[j].id => i = j
  BY DEF SurfaceTypeOK
<1>2. \A i \in DOMAIN register : register[i] \in [id : Locals, name : Displays]
  BY <1>1, SeqFacts
<1> QED BY <1>1, <1>2 DEF Range

LEMMA LocalById ==
  ASSUME SurfaceTypeOK, NEW l \in Range(register)
  PROVE  Local(l.id) = {l}
<1> DEFINE ById == {i \in DOMAIN register : register[i].id = l.id}
<1>1. ById \in SUBSET Nat /\ ById # {}
  BY DEF SurfaceTypeOK, Range
<1>2. \A i \in ById : register[i] = l
  BY RegisterFacts DEF Range
<1>3. Local(l.id) = FirstOf(register, ById)
  BY <1>1 DEF Local
<1> HIDE DEF ById
<1>4. Local(l.id) # {} /\ \A m \in Local(l.id) : m = l
  BY <1>1, <1>2, <1>3, FirstOfFacts
<1> QED BY <1>4

(* The walk over the connected upstreams.                                  *)
LEMMA PlaceFacts ==
  ASSUME SurfaceTypeOK
  PROVE  /\ \A p \in Places : /\ p[1] \in Nat /\ p[2] \in Nat /\ p = <<p[1], p[2]>>
                              /\ p[1] \in DOMAIN found /\ At(p) \in Remotes
         /\ \A p, q \in Places : Earlier(p, q) \/ Earlier(q, p) \/ p = q
<1>1. ASSUME NEW p \in Places
      PROVE  /\ p[1] \in Nat /\ p[2] \in Nat /\ p = <<p[1], p[2]>>
             /\ p[1] \in DOMAIN found /\ At(p) \in Remotes
  <2>1. PICK i \in DOMAIN found : \E k \in DOMAIN found[i].tools : p = <<i, k>>
    BY DEF Places
  <2>k. PICK k \in DOMAIN found[i].tools : p = <<i, k>>
    BY <2>1
  <2>2. found[i] \in [up : Ups, tools : Seq(Tools)] /\ i \in Nat
    <3>1. found \in Seq([up : Ups, tools : Seq(Tools)])
      BY DEF SurfaceTypeOK
    <3> QED BY <3>1, SeqFacts
  <2>3. found[i].tools \in Seq(Tools) /\ found[i].up \in Ups
    BY <2>2
  <2>4. k \in Nat /\ found[i].tools[k] \in Tools
    BY <2>3
  <2> QED BY <2>k, <2>2, <2>3, <2>4 DEF At, Remotes
<1>2. ASSUME NEW p \in Places, NEW q \in Places
      PROVE  Earlier(p, q) \/ Earlier(q, p) \/ p = q
  BY <1>1 DEF Earlier
<1> QED BY <1>1, <1>2

LEMMA LeanFacts ==
  ASSUME SurfaceTypeOK
  PROVE  \A x \in Lean : /\ x \in Remotes /\ x \in Discovered /\ Usable(x)
                         /\ Resolved(Surfaced(x)) = {[runs |-> x, gate |-> Surfaced(x), by |-> "name"]}
<1> SUFFICES ASSUME NEW x \in Lean
             PROVE  /\ x \in Remotes /\ x \in Discovered /\ Usable(x)
                    /\ Resolved(Surfaced(x)) = {[runs |-> x, gate |-> Surfaced(x), by |-> "name"]}
  OBVIOUS
<1> DEFINE n == Surfaced(x)
           firsts == {p \in Hits(n) : \A q \in Hits(n) : ~Earlier(q, p)}
<1>1. PICK p \in Places : /\ x = At(p) /\ Usable(At(p))
                          /\ \A q \in Places : Earlier(q, p) /\ Usable(At(q)) =>
                               Surfaced(At(q)) # Surfaced(At(p))
  BY DEF Lean
<1>2. p \in firsts
  BY <1>1 DEF Hits
<1>3. \A q \in firsts : q = p
  BY <1>2, PlaceFacts DEF Hits
<1>4. Resolved(n) = {[runs |-> At(q), gate |-> n, by |-> "name"] : q \in firsts}
  BY DEF Resolved
<1>5. x \in Remotes /\ x \in Discovered
  BY <1>1, PlaceFacts DEF Discovered
<1> HIDE DEF n, firsts
<1>6. Resolved(n) = {[runs |-> x, gate |-> n, by |-> "name"]}
  BY <1>1, <1>2, <1>3, <1>4
<1> QED BY <1>1, <1>5, <1>6 DEF n

LEMMA ResolvedFacts ==
  ASSUME SurfaceTypeOK, NEW n, NEW w \in Resolved(n)
  PROVE  /\ w = [runs |-> w.runs, gate |-> n, by |-> "name"]
         /\ w.runs \in Lean /\ w.runs \in Remotes /\ Surfaced(w.runs) = n
<1>1. PICK p \in Hits(n) : /\ w = [runs |-> At(p), gate |-> n, by |-> "name"]
                           /\ \A q \in Hits(n) : ~Earlier(q, p)
  BY DEF Resolved
<1>2. p \in Places /\ Usable(At(p)) /\ Surfaced(At(p)) = n
  BY DEF Hits
<1>3. w.runs = At(p)
  BY <1>1
<1>4. At(p) \in Lean
  BY <1>1, <1>2 DEF Lean, Hits
<1> QED BY <1>1, <1>2, <1>3, <1>4, PlaceFacts

(* The rows: the name a tool is surfaced by, and the curated tool of one.  *)
LEMMA RowFacts ==
  ASSUME SurfaceTypeOK
  PROVE  /\ \A r \in Range(rows) : r.of \in Remotes /\ r.as \in Names
         /\ \A r \in Range(rows) : r.on => Surfaced(r.of) = r.as
         /\ \A x \in Remotes : Surfaced(x) \in Names
<1>1. /\ rows \in Seq([of : Remotes, as : Names, on : BOOLEAN])
      /\ \A i, j \in DOMAIN rows : rows[i].of = rows[j].of => i = j
  BY DEF SurfaceTypeOK
<1>2. \A i \in DOMAIN rows : rows[i] \in [of : Remotes, as : Names, on : BOOLEAN]
  BY <1>1, SeqFacts
<1>3. \A r, q \in Range(rows) : r.of = q.of => r = q
  BY <1>1 DEF Range
<1>4. \A r \in Range(rows) : r.of \in Remotes /\ r.as \in Names
  BY <1>2 DEF Range
<1>5. ASSUME NEW r \in Range(rows), r.on PROVE Surfaced(r.of) = r.as
  <2>1. \A q \in Range(rows) : q.on /\ q.of = r.of => q = r
    BY <1>3
  <2> QED BY <1>5, <2>1 DEF Surfaced
<1>6. ASSUME NEW x \in Remotes PROVE Surfaced(x) \in Names
  <2>1. CASE \E r \in Range(rows) : r.on /\ r.of = x
    BY <1>4, <1>5, <2>1
  <2>2. CASE ~ \E r \in Range(rows) : r.on /\ r.of = x
    BY <2>2, SurfaceNames DEF Surfaced
  <2> QED BY <2>1, <2>2
<1> QED BY <1>4, <1>5, <1>6

LEMMA ExposedFacts ==
  ASSUME SurfaceTypeOK, NEW n
  PROVE  /\ \A w \in Exposed(n) : /\ w = [runs |-> w.runs, gate |-> n, by |-> "client"]
                                  /\ w.runs \in Remotes /\ Surfaced(w.runs) = n
                                  /\ n \in {r.as : r \in Range(rows)}
         /\ \A w, v \in Exposed(n) : w = v
<1> DEFINE hits == {i \in DOMAIN rows : /\ rows[i].on /\ rows[i].as = n
                                        /\ Usable(rows[i].of) /\ rows[i].of \in Discovered}
<1>1. hits \in SUBSET Nat
  BY SeqFacts DEF SurfaceTypeOK
<1>2. Exposed(n) = {[runs |-> r.of, gate |-> n, by |-> "client"] : r \in FirstOf(rows, hits)}
  BY DEF Exposed
<1>3. \A i \in hits : rows[i] \in Range(rows) /\ rows[i].on /\ rows[i].as = n
  BY DEF Range
<1> HIDE DEF hits
<1>4. \A r, q \in FirstOf(rows, hits) : r = q
  BY <1>1, FirstOfFacts
<1>5. ASSUME NEW w \in Exposed(n)
      PROVE  /\ w = [runs |-> w.runs, gate |-> n, by |-> "client"]
             /\ w.runs \in Remotes /\ Surfaced(w.runs) = n
             /\ n \in {r.as : r \in Range(rows)}
  <2>1. PICK r \in FirstOf(rows, hits) : w = [runs |-> r.of, gate |-> n, by |-> "client"]
    BY <1>2
  <2>2. r \in Range(rows) /\ r.on /\ r.as = n
    BY <1>1, <1>3, FirstOfFacts
  <2> QED BY <2>1, <2>2, RowFacts
<1>6. ASSUME NEW w \in Exposed(n), NEW v \in Exposed(n) PROVE w = v
  BY <1>2, <1>4
<1> QED BY <1>5, <1>6

-----------------------------------------------------------------------------
(* What is listed is what is reached.                                      *)

LEMMA LocalWaysFacts ==
  ASSUME SurfaceTypeOK, NEW n, NEW l, Local(n) = {l}
  PROVE  LocalWays(n) = {[runs |-> l.id, gate |-> l.name, by |-> "local"]}
BY DEF LocalWays

LEMMA LocalRuns ==
  ASSUME SurfaceTypeOK, NEW l \in Range(register), On(l.id)
  PROVE  {w.runs : w \in Run(l.id)} = {l.id}
<1> DEFINE way == [runs |-> l.id, gate |-> l.name, by |-> "local"]
<1>1. Local(l.id) = {l} /\ LocalWays(l.id) = {way}
  BY LocalById, LocalWaysFacts
<1>2. Run(l.id) = {way}
  BY <1>1 DEF Run
<1> QED BY <1>2

LEMMA ListedRuns ==
  ASSUME SurfaceTypeOK
  PROVE  \A d \in Listed : {w.runs : w \in Run(d.name)} = {d.runs}
<1>1. ASSUME NEW l \in Range(register), On(l.id)
      PROVE  {w.runs : w \in Run(Ad(l.id, l.id).name)} = {Ad(l.id, l.id).runs}
  BY <1>1, LocalRuns DEF Ad
<1>2. ASSUME NEW x \in Lean, Local(Surfaced(x)) = {}, On(Surfaced(x))
      PROVE  {w.runs : w \in Run(Ad(Surfaced(x), x).name)} = {Ad(Surfaced(x), x).runs}
  <2> DEFINE way == [runs |-> x, gate |-> Surfaced(x), by |-> "name"]
  <2>1. Run(Surfaced(x)) = {way}
    BY <1>2, LeanFacts DEF Run
  <2>2. Ad(Surfaced(x), x).name = Surfaced(x) /\ Ad(Surfaced(x), x).runs = x
    BY DEF Ad
  <2>3. way.runs = x
    OBVIOUS
  <2> HIDE DEF way
  <2> QED BY <2>1, <2>2, <2>3
<1> QED BY <1>1, <1>2 DEF Listed

LEMMA RunsListed ==
  ASSUME SurfaceTypeOK, NEW n, NEW w \in Run(n)
  PROVE  \E d \in Listed : d.runs = w.runs
<1>1. CASE Local(n) # {}
  <2>1. PICK l \in Local(n) : w.runs = l.id
    BY <1>1 DEF Run, LocalWays
  <2>2. l \in Range(register) /\ On(l.id)
    BY <1>1, <2>1, LocalFacts DEF Run
  <2>3. Ad(l.id, l.id) \in Listed /\ Ad(l.id, l.id).runs = w.runs
    BY <2>1, <2>2 DEF Listed, Ad
  <2> QED BY <2>3
<1>2. CASE Local(n) = {}
  <2>1. w \in Resolved(n) /\ On(n)
    BY <1>2 DEF Run
  <2>2. w.runs \in Lean /\ Surfaced(w.runs) = n
    BY <2>1, ResolvedFacts
  <2>3. Ad(n, w.runs) \in Listed /\ Ad(n, w.runs).runs = w.runs
    BY <1>2, <2>1, <2>2 DEF Listed, Ad
  <2> QED BY <2>3
<1> QED BY <1>1, <1>2

(* What Direct comes to, case by case.                                     *)
LEMMA DirectCases ==
  ASSUME NEW n
  PROVE  /\ wrap # NoWrap => Direct(n) = Wrapped(n)
         /\ wrap = NoWrap /\ n \in Metas /\ Hot(n, TRUE) =>
              Direct(n) = {[runs |-> n, gate |-> n, by |-> "meta"]}
         /\ wrap = NoWrap /\ n \in Metas /\ ~Hot(n, TRUE) => Direct(n) = {}
         /\ wrap = NoWrap /\ n \notin Metas /\ Promoted(n) => Direct(n) = Run(n)
         /\ wrap = NoWrap /\ n \notin Metas /\ ~Promoted(n) /\ Exposed(n) # {} =>
              Direct(n) = {w \in Exposed(n) : On(n)}
         /\ wrap = NoWrap /\ n \notin Metas /\ ~Promoted(n) /\ Exposed(n) = {} =>
              Direct(n) = {w \in Resolved(n) : HotUpstream(n)}
<1>1. wrap # NoWrap => Direct(n) = Wrapped(n)
  BY DEF Direct
<1>2. ASSUME wrap = NoWrap, n \in Metas
      PROVE  Direct(n) = {[runs |-> n, gate |-> n, by |-> "meta"] : m \in {m \in {n} : Hot(m, TRUE)}}
  BY <1>2 DEF Direct
<1>3. wrap = NoWrap /\ n \notin Metas /\ Promoted(n) => Direct(n) = Run(n)
  BY DEF Direct
<1>4. wrap = NoWrap /\ n \notin Metas /\ ~Promoted(n) /\ Exposed(n) # {} =>
        Direct(n) = {w \in Exposed(n) : On(n)}
  BY DEF Direct
<1>5. wrap = NoWrap /\ n \notin Metas /\ ~Promoted(n) /\ Exposed(n) = {} =>
        Direct(n) = {w \in Resolved(n) : HotUpstream(n)}
  BY DEF Direct
<1> QED BY <1>1, <1>2, <1>3, <1>4, <1>5

(* What a name's only way reaches.                                         *)
LEMMA OneWay ==
  ASSUME NEW W, NEW w, W = {w}
  PROVE  {v.runs : v \in W} = {w.runs}
OBVIOUS

LEMMA WrappedRuns ==
  ASSUME SurfaceTypeOK, wrap # NoWrap, NEW d \in PassthroughDefinitions
  PROVE  {w.runs : w \in Direct(d.name)} = {d.runs}
<1>1. PICK x \in Lean : d = Ad(x[2], x) /\ x[1] = wrap /\ On(Surfaced(x))
  BY DEF PassthroughDefinitions
<1>2. d.name = x[2] /\ d.runs = x
  BY <1>1 DEF Ad
<1>3. x = <<wrap, x[2]>>
  BY <1>1, LeanFacts DEF Remotes
<1>4. {y \in Lean : y = <<wrap, x[2]>> /\ On(Surfaced(y))} = {x}
  BY <1>1, <1>3
<1>5. Wrapped(x[2]) = Resolved(Surfaced(x))
  BY <1>4 DEF Wrapped
<1> DEFINE way == [runs |-> x, gate |-> Surfaced(x), by |-> "name"]
<1>6. Direct(x[2]) = {way}
  BY <1>5, LeanFacts, DirectCases
<1>7. way.runs = x
  OBVIOUS
<1> HIDE DEF way
<1> QED BY <1>2, <1>6, <1>7, OneWay

LEMMA WrappedWays ==
  ASSUME wrap # NoWrap, NEW n, NEW w \in Direct(n)
  PROVE  \E x \in Lean : x = <<wrap, n>> /\ On(Surfaced(x)) /\ w \in Resolved(Surfaced(x))
<1>1. w \in Wrapped(n)
  BY DirectCases
<1> QED BY <1>1 DEF Wrapped

LEMMA WrappedListed ==
  ASSUME SurfaceTypeOK, wrap # NoWrap, NEW n, NEW w \in Direct(n)
  PROVE  Ad(n, w.runs) \in Advertised
<1>1. PICK x \in Lean : x = <<wrap, n>> /\ On(Surfaced(x)) /\ w \in Resolved(Surfaced(x))
  BY WrappedWays
<1>2. w.runs = x
  BY <1>1, LeanFacts
<1>3. x[1] = wrap /\ x[2] = n
  BY <1>1
<1> QED BY <1>1, <1>2, <1>3 DEF Advertised, PassthroughDefinitions

LEMMA MetaRuns ==
  ASSUME SurfaceTypeOK, wrap = NoWrap, NEW d \in MetaDefinitions
  PROVE  {w.runs : w \in Direct(d.name)} = {d.runs}
<1>1. PICK m \in Metas : d = Ad(m, m) /\ Hot(m, TRUE)
  BY DEF MetaDefinitions
<1>2. d.name = m /\ d.runs = m
  BY <1>1 DEF Ad
<1> DEFINE way == [runs |-> m, gate |-> m, by |-> "meta"]
<1>3. Direct(m) = {way}
  BY <1>1, DirectCases
<1>4. way.runs = m
  OBVIOUS
<1> HIDE DEF way
<1> QED BY <1>2, <1>3, <1>4, OneWay

LEMMA HotLocalRuns ==
  ASSUME SurfaceTypeOK, wrap = NoWrap, NEW d \in LocalDefinitions
  PROVE  {w.runs : w \in Direct(d.name)} = {d.runs}
<1>1. PICK l \in Range(register) : d = Ad(l.id, l.id) /\ Hot(l.id, FALSE) /\ On(l.id)
  BY DEF LocalDefinitions
<1>2. d.name = l.id /\ d.runs = l.id
  BY <1>1 DEF Ad
<1>3. l.id \notin Metas
  BY RegisterFacts, SurfaceNames
<1>4. Promoted(l.id)
  BY <1>1, LocalById DEF Promoted
<1>5. Direct(l.id) = Run(l.id)
  BY <1>3, <1>4, DirectCases
<1> QED BY <1>1, <1>2, <1>5, LocalRuns

(* A name no local tool answers to is not promoted.                        *)
LEMMA NotPromoted ==
  ASSUME SurfaceTypeOK, NEW n, ~Taken(n)
  PROVE  ~Promoted(n)
BY LocalFacts DEF Promoted

LEMMA CuratedRuns ==
  ASSUME SurfaceTypeOK, wrap = NoWrap, NEW d \in ExposedDefinitions, Curated(d)
  PROVE  {w.runs : w \in Direct(d.name)} = {d.runs}
<1>0. PICK n : \E w \in Exposed(n) : d = Ad(n, w.runs)
  BY DEF ExposedDefinitions
<1>1. PICK w \in Exposed(n) : d = Ad(n, w.runs)
  BY <1>0
<1>2. d.name = n /\ d.runs = w.runs
  BY <1>1 DEF Ad
<1>3. n \notin Metas /\ ~Taken(n) /\ On(n)
  BY <1>2 DEF Curated
<1>4. Exposed(n) = {w}
  BY <1>1, ExposedFacts
<1>5. Direct(n) = {w}
  <2>1. Direct(n) = {v \in Exposed(n) : On(n)}
    BY <1>3, <1>4, NotPromoted, DirectCases
  <2> QED BY <2>1, <1>3, <1>4
<1> QED BY <1>2, <1>5, OneWay

(* A hot tool of an upstream that no curated one shadows.                  *)
LEMMA HotUpstreamRuns ==
  ASSUME SurfaceTypeOK, wrap = NoWrap, NEW d \in UpstreamDefinitions,
         \A c \in ExposedDefinitions : Curated(c) => c.name # d.name
  PROVE  {w.runs : w \in Direct(d.name)} = {d.runs}
<1>1. PICK x \in Lean : /\ d = Ad(Surfaced(x), x)
                        /\ Surfaced(x) \notin Metas /\ HotUpstream(Surfaced(x))
  BY DEF UpstreamDefinitions
<1> DEFINE n == Surfaced(x)
           way == [runs |-> x, gate |-> n, by |-> "name"]
<1>2. d.name = n /\ d.runs = x
  BY <1>1 DEF Ad
<1>3. n \notin Metas /\ ~Taken(n) /\ On(n) /\ HotUpstream(n)
  BY <1>1 DEF HotUpstream
<1>4. Resolved(n) = {way} /\ way.runs = x
  BY LeanFacts
<1> HIDE DEF n, way
<1>5. Exposed(n) = {}
  <2>1. SUFFICES ASSUME NEW w \in Exposed(n) PROVE FALSE
    OBVIOUS
  <2>2. n \in {r.as : r \in Range(rows)}
    BY ExposedFacts
  <2>3. Ad(n, w.runs) \in ExposedDefinitions
    BY <2>2 DEF ExposedDefinitions
  <2>4. Ad(n, w.runs).name = n
    BY DEF Ad
  <2>5. Curated(Ad(n, w.runs))
    BY <1>3, <2>4 DEF Curated
  <2> QED BY <1>2, <2>3, <2>4, <2>5
<1>6. Direct(n) = {w \in Resolved(n) : HotUpstream(n)}
  BY <1>3, <1>5, NotPromoted, DirectCases
<1>7. Direct(n) = {way}
  BY <1>3, <1>4, <1>6
<1> QED BY <1>2, <1>4, <1>7, OneWay

LEMMA AdvertisedRun ==
  ASSUME SurfaceTypeOK, NEW d \in Advertised
  PROVE  {w.runs : w \in Direct(d.name)} = {d.runs}
<1>1. CASE wrap # NoWrap
  BY <1>1, WrappedRuns DEF Advertised
<1>2. CASE wrap = NoWrap
  <2> DEFINE C == {ad \in ExposedDefinitions : Curated(ad)}
             A == After(MetaDefinitions, LocalDefinitions)
  <2>1. d \in After(After(A, C), UpstreamDefinitions)
    BY <1>2 DEF Advertised
  <2> HIDE DEF C, A
  <2>2. \/ d \in A \/ d \in C
        \/ d \in UpstreamDefinitions /\ \A a \in After(A, C) : a.name # d.name
    BY <2>1 DEF After
  <2>3. CASE d \in A
    <3>1. d \in MetaDefinitions \/ d \in LocalDefinitions
      BY <2>3 DEF A, After
    <3> QED BY <1>2, <3>1, MetaRuns, HotLocalRuns
  <2>4. CASE d \in C
    BY <1>2, <2>4, CuratedRuns DEF C
  <2>5. CASE d \in UpstreamDefinitions /\ \A a \in After(A, C) : a.name # d.name
    <3>1. \A c \in C : c.name # d.name
      BY <2>5 DEF After
    <3> QED BY <1>2, <2>5, <3>1, HotUpstreamRuns DEF C
  <2> QED BY <2>2, <2>3, <2>4, <2>5
<1> QED BY <1>1, <1>2

LEMMA AdvertisedFollows == SurfaceTypeOK => AdvertisedRuns
BY AdvertisedRun, ListedRuns, RunsListed, WrappedListed DEF AdvertisedRuns

-----------------------------------------------------------------------------
(* Where a call goes: what it says of itself, and the policy it is under.  *)
InPolicy(w) ==
  /\ w \in Way
  /\ w.by # "meta" =>
       /\ w.runs \in IF w.by = "local" THEN Locals ELSE Remotes
       /\ w.gate \in GateOf(w.runs) /\ On(KeyOf(w.runs))

LEMMA RemoteInPolicy ==
  ASSUME SurfaceTypeOK, NEW x \in Remotes, NEW by \in {"client", "name"}, On(Surfaced(x))
  PROVE  InPolicy([runs |-> x, gate |-> Surfaced(x), by |-> by])
<1>1. x \notin Locals
  BY SurfaceNames
<1>2. GateOf(x) = {Surfaced(x)} /\ KeyOf(x) = Surfaced(x)
  BY <1>1 DEF GateOf, KeyOf
<1>3. Surfaced(x) \in Names
  BY RowFacts
<1>4. [runs |-> x, gate |-> Surfaced(x), by |-> by] \in Way
  BY <1>3 DEF Way
<1> QED BY <1>2, <1>4 DEF InPolicy

LEMMA RunInPolicy ==
  ASSUME SurfaceTypeOK, NEW n, NEW w \in Run(n)
  PROVE  InPolicy(w) /\ w.by # "meta"
<1>1. CASE Local(n) # {}
  <2>1. PICK l \in Local(n) : w = [runs |-> l.id, gate |-> l.name, by |-> "local"]
    BY <1>1 DEF Run, LocalWays
  <2>2. l \in Range(register) /\ On(l.id)
    BY <1>1, <2>1, LocalFacts DEF Run
  <2>3. l.id \in Locals /\ l.name \in Names
    BY <2>2, RegisterFacts, SurfaceNames
  <2>4. w.runs = l.id /\ w.gate = l.name /\ w.by = "local" /\ w \in Way
    BY <2>1, <2>3 DEF Way
  <2>5. l.name \in GateOf(l.id) /\ KeyOf(l.id) = l.id
    BY <2>2, <2>3 DEF GateOf, KeyOf
  <2> QED BY <2>2, <2>3, <2>4, <2>5 DEF InPolicy
<1>2. CASE Local(n) = {}
  <2>1. w \in Resolved(n) /\ On(n)
    BY <1>2 DEF Run
  <2>2. /\ w = [runs |-> w.runs, gate |-> Surfaced(w.runs), by |-> "name"]
        /\ w.runs \in Remotes /\ Surfaced(w.runs) = n
    BY <2>1, ResolvedFacts
  <2>3. w.by = "name"
    BY <2>2
  <2> QED BY <2>1, <2>2, <2>3, RemoteInPolicy
<1> QED BY <1>1, <1>2

LEMMA DirectInPolicy ==
  ASSUME SurfaceTypeOK, NEW n, NEW w \in Direct(n)
  PROVE  InPolicy(w)
<1>1. CASE wrap # NoWrap
  <2>1. PICK x \in Lean : On(Surfaced(x)) /\ w \in Resolved(Surfaced(x))
    BY <1>1, WrappedWays
  <2>2. w = [runs |-> x, gate |-> Surfaced(x), by |-> "name"] /\ x \in Remotes
    BY <2>1, LeanFacts
  <2> QED BY <2>1, <2>2, RemoteInPolicy
<1>2. CASE wrap = NoWrap /\ n \in Metas
  <2>1. w = [runs |-> n, gate |-> n, by |-> "meta"]
    BY <1>2, DirectCases
  <2>2. w \in Way /\ w.by = "meta"
    BY <1>2, <2>1, SurfaceNames DEF Way
  <2> QED BY <2>2 DEF InPolicy
<1>3. CASE wrap = NoWrap /\ n \notin Metas /\ Promoted(n)
  BY <1>3, DirectCases, RunInPolicy
<1>4. CASE wrap = NoWrap /\ n \notin Metas /\ ~Promoted(n) /\ Exposed(n) # {}
  <2>1. w \in Exposed(n) /\ On(n)
    BY <1>4, DirectCases
  <2>2. /\ w = [runs |-> w.runs, gate |-> Surfaced(w.runs), by |-> "client"]
        /\ w.runs \in Remotes /\ Surfaced(w.runs) = n
    BY <2>1, ExposedFacts
  <2> QED BY <2>1, <2>2, RemoteInPolicy
<1>5. CASE wrap = NoWrap /\ n \notin Metas /\ ~Promoted(n) /\ Exposed(n) = {}
  <2>1. w \in Resolved(n) /\ On(n)
    BY <1>5, DirectCases DEF HotUpstream
  <2>2. /\ w = [runs |-> w.runs, gate |-> Surfaced(w.runs), by |-> "name"]
        /\ w.runs \in Remotes /\ Surfaced(w.runs) = n
    BY <2>1, ResolvedFacts
  <2> QED BY <2>1, <2>2, RemoteInPolicy
<1> QED BY <1>1, <1>2, <1>3, <1>4, <1>5

LEMMA PolicyFollows == SurfaceTypeOK /\ RunShape => PolicyHolds
<1> SUFFICES ASSUME SurfaceTypeOK, RunShape PROVE PolicyHolds
  OBVIOUS
<1>1. ASSUME NEW n \in Names, NEW w \in Direct(n) \cup Run(n), w.by # "meta"
      PROVE  w.gate \in GateOf(w.runs) /\ On(KeyOf(w.runs))
  BY <1>1, DirectInPolicy, RunInPolicy DEF InPolicy
<1> QED BY <1>1 DEF PolicyHolds, RunShape

-----------------------------------------------------------------------------
(* Sequences that change: a record appended, replaced, removed; and keys   *)
(* that stay different.                                                    *)

LEMMA RemoveFacts ==
  ASSUME NEW S, NEW q \in Seq(S), NEW i \in DOMAIN q, NEW new, new = RemoveAt(q, i)
  PROVE  /\ new \in Seq(S) /\ DOMAIN new = 1..(Len(q) - 1)
         /\ \A k \in 1..(Len(q) - 1) : /\ k < i => new[k] = q[k]
                                       /\ k >= i => new[k] = q[k + 1]
<1> DEFINE front == SubSeq(q, 1, i - 1)
           back == SubSeq(q, i + 1, Len(q))
<1>1. Len(q) \in Nat /\ i \in 1..Len(q) /\ \A k \in 1..Len(q) : q[k] \in S
  BY SeqFacts
<1>2. /\ front \in Seq(S) /\ Len(front) = i - 1
      /\ \A k \in 1..(i - 1) : front[k] = q[k]
  <2>1. 1 \in Int /\ i - 1 \in Int /\ \A k \in 1..(i - 1) : q[k] \in S
    BY <1>1
  <2>2. /\ front \in Seq(S) /\ Len(front) = IF 1 <= i - 1 THEN (i - 1) - 1 + 1 ELSE 0
        /\ \A k \in 1..((i - 1) - 1 + 1) : front[k] = q[1 + k - 1]
    BY <2>1, SubSeqProperties
  <2> HIDE DEF front
  <2>3. \A k \in 1..(i - 1) : k \in 1..((i - 1) - 1 + 1) /\ 1 + k - 1 = k
    BY <1>1
  <2>4. Len(front) = i - 1
    BY <1>1, <2>2
  <2> QED BY <2>2, <2>3, <2>4
<1>3. /\ back \in Seq(S) /\ Len(back) = Len(q) - i
      /\ \A k \in 1..(Len(q) - i) : back[k] = q[i + k]
  <2>1. i + 1 \in Int /\ Len(q) \in Int /\ \A k \in (i + 1)..Len(q) : q[k] \in S
    BY <1>1
  <2>2. /\ back \in Seq(S) /\ Len(back) = IF i + 1 <= Len(q) THEN Len(q) - (i + 1) + 1 ELSE 0
        /\ \A k \in 1..(Len(q) - (i + 1) + 1) : back[k] = q[(i + 1) + k - 1]
    BY <2>1, SubSeqProperties
  <2> HIDE DEF back
  <2>3. \A k \in 1..(Len(q) - i) : k \in 1..(Len(q) - (i + 1) + 1) /\ (i + 1) + k - 1 = i + k
    BY <1>1
  <2>4. Len(back) = Len(q) - i
    BY <1>1, <2>2
  <2> QED BY <2>2, <2>3, <2>4
<1>4. new = front \o back
  BY DEF RemoveAt
<1> HIDE DEF front, back
<1>5. /\ new \in Seq(S) /\ Len(new) = Len(q) - 1
      /\ \A k \in 1..(Len(q) - 1) : new[k] = IF k <= i - 1 THEN front[k] ELSE back[k - (i - 1)]
  <2>1. /\ front \o back \in Seq(S) /\ Len(front \o back) = Len(front) + Len(back)
        /\ \A k \in 1..(Len(front) + Len(back)) : (front \o back)[k] =
             IF k <= Len(front) THEN front[k] ELSE back[k - Len(front)]
    BY <1>2, <1>3, ConcatProperties, Zenon
  <2>2. (i - 1) + (Len(q) - i) = Len(q) - 1
    BY <1>1
  <2> QED BY <1>2, <1>3, <1>4, <2>1, <2>2, Zenon
<1>6. DOMAIN new = 1..(Len(q) - 1)
  BY <1>5, SeqFacts
<1>7. \A k \in 1..(Len(q) - 1) : /\ k < i => new[k] = q[k]
                                 /\ k >= i => new[k] = q[k + 1]
  <2> SUFFICES ASSUME NEW k \in 1..(Len(q) - 1)
               PROVE  (k < i => new[k] = q[k]) /\ (k >= i => new[k] = q[k + 1])
    OBVIOUS
  <2>1. k < i => k <= i - 1 /\ k \in 1..(i - 1)
    BY <1>1
  <2>2. k >= i => ~(k <= i - 1) /\ k - (i - 1) \in 1..(Len(q) - i) /\ i + (k - (i - 1)) = k + 1
    BY <1>1
  <2>3. k >= i => back[k - (i - 1)] = q[k + 1]
    BY <1>3, <2>2
  <2>4. k < i => front[k] = q[k]
    BY <1>2, <2>1
  <2> QED BY <1>5, <2>1, <2>2, <2>3, <2>4, Zenon
<1> QED BY <1>5, <1>6, <1>7

LEMMA RemoveKeeps ==
  ASSUME NEW S, NEW q \in Seq(S), NEW i \in DOMAIN q
  PROVE  /\ RemoveAt(q, i) \in Seq(S)
         /\ \A k \in DOMAIN RemoveAt(q, i) :
              /\ k < i => k \in DOMAIN q /\ RemoveAt(q, i)[k] = q[k]
              /\ k >= i => k + 1 \in DOMAIN q /\ RemoveAt(q, i)[k] = q[k + 1]
         /\ \A j \in DOMAIN q \ {i} : \E k \in DOMAIN RemoveAt(q, i) : RemoveAt(q, i)[k] = q[j]
<1>0. PICK r : r = RemoveAt(q, i)
  OBVIOUS
<1>1. /\ r \in Seq(S) /\ DOMAIN r = 1..(Len(q) - 1)
      /\ \A k \in 1..(Len(q) - 1) : /\ k < i => r[k] = q[k]
                                    /\ k >= i => r[k] = q[k + 1]
  BY <1>0, RemoveFacts
<1>2. DOMAIN q = 1..Len(q) /\ Len(q) \in Nat
  BY SeqFacts
<1>3. ASSUME NEW k \in DOMAIN r
      PROVE  /\ k < i => k \in DOMAIN q /\ r[k] = q[k]
             /\ k >= i => k + 1 \in DOMAIN q /\ r[k] = q[k + 1]
  BY <1>1, <1>2
<1>4. ASSUME NEW j \in DOMAIN q \ {i} PROVE \E k \in DOMAIN r : r[k] = q[j]
  <2>1. CASE j < i
    <3>1. j \in DOMAIN r /\ r[j] = q[j]
      BY <1>1, <1>2, <2>1
    <3> QED BY <3>1
  <2>2. CASE j > i
    <3>1. j - 1 \in 1..(Len(q) - 1) /\ j - 1 >= i /\ (j - 1) + 1 = j
      BY <1>2, <2>2
    <3>2. r[j - 1] = q[j]
      BY <1>1, <3>1
    <3> QED BY <1>1, <3>1, <3>2
  <2> QED BY <1>2, <2>1, <2>2
<1> QED BY <1>0, <1>1, <1>3, <1>4

LEMMA RangeAfter ==
  ASSUME NEW S, NEW q \in Seq(S)
  PROVE  /\ \A e \in S : Append(q, e) \in Seq(S)
         /\ \A e : Range(Append(q, e)) = Range(q) \cup {e}
         /\ \A i \in DOMAIN q : /\ Range(RemoveAt(q, i)) \subseteq Range(q)
                               /\ \A j \in DOMAIN q \ {i} : q[j] \in Range(RemoveAt(q, i))
<1>0. DOMAIN q = 1..Len(q) /\ Len(q) \in Nat
  BY SeqFacts
<1>1. ASSUME NEW e PROVE Range(Append(q, e)) = Range(q) \cup {e}
  <2>1. /\ DOMAIN Append(q, e) = 1..(Len(q) + 1)
        /\ \A k \in 1..Len(q) : Append(q, e)[k] = q[k]
        /\ Append(q, e)[Len(q) + 1] = e
    OBVIOUS
  <2>2. 1..(Len(q) + 1) = (1..Len(q)) \cup {Len(q) + 1}
    BY <1>0
  <2> QED BY <1>0, <2>1, <2>2 DEF Range
<1>2. ASSUME NEW i \in DOMAIN q
      PROVE  /\ Range(RemoveAt(q, i)) \subseteq Range(q)
             /\ \A j \in DOMAIN q \ {i} : q[j] \in Range(RemoveAt(q, i))
  <2>0. PICK r : r = RemoveAt(q, i)
    OBVIOUS
  <2>1. /\ r \in Seq(S)
        /\ \A k \in DOMAIN r : /\ k < i => k \in DOMAIN q /\ r[k] = q[k]
                               /\ k >= i => k + 1 \in DOMAIN q /\ r[k] = q[k + 1]
        /\ \A j \in DOMAIN q \ {i} : \E k \in DOMAIN r : r[k] = q[j]
    BY <2>0, RemoveKeeps
  <2>2. ASSUME NEW k \in DOMAIN r PROVE \E j \in DOMAIN q : r[k] = q[j]
    <3>1. k \in Nat /\ i \in Nat
      BY <1>0, <2>1, SeqFacts
    <3>2. CASE k < i
      BY <2>1, <3>2
    <3>3. CASE k >= i
      BY <2>1, <3>3
    <3> QED BY <3>1, <3>2, <3>3
  <2> QED BY <2>0, <2>1, <2>2 DEF Range
<1>3. \A e \in S : Append(q, e) \in Seq(S)
  OBVIOUS
<1> QED BY <1>1, <1>2, <1>3

(* No key twice.                                                           *)
OnceBy(key, q) == \A i, j \in DOMAIN q : key[q[i]] = key[q[j]] => i = j

LEMMA AppendOnce ==
  ASSUME NEW S, NEW key, NEW q \in Seq(S), NEW e \in S, OnceBy(key, q),
         \A i \in DOMAIN q : key[q[i]] # key[e]
  PROVE  OnceBy(key, Append(q, e))
<1> DEFINE r == Append(q, e)
<1>1. /\ DOMAIN r = 1..(Len(q) + 1) /\ r[Len(q) + 1] = e
      /\ \A k \in 1..Len(q) : r[k] = q[k]
      /\ DOMAIN q = 1..Len(q) /\ Len(q) \in Nat
  OBVIOUS
<1> HIDE DEF r
<1>2. \A k \in DOMAIN r : (k \in DOMAIN q /\ r[k] = q[k]) \/ (k = Len(q) + 1 /\ r[k] = e)
  BY <1>1
<1>3. \A i, j \in DOMAIN r : key[r[i]] = key[r[j]] => i = j
  BY <1>2 DEF OnceBy
<1> QED BY <1>3 DEF OnceBy, r

LEMMA RemoveOnce ==
  ASSUME NEW S, NEW key, NEW q \in Seq(S), NEW i \in DOMAIN q, OnceBy(key, q)
  PROVE  OnceBy(key, RemoveAt(q, i))
<1>0. PICK r : r = RemoveAt(q, i)
  OBVIOUS
<1>1. /\ r \in Seq(S)
      /\ \A k \in DOMAIN r : /\ k < i => k \in DOMAIN q /\ r[k] = q[k]
                             /\ k >= i => k + 1 \in DOMAIN q /\ r[k] = q[k + 1]
  BY <1>0, RemoveKeeps
<1>2. i \in Nat /\ \A k \in DOMAIN r : k \in Nat
  BY <1>1, SeqFacts
<1>3. ASSUME NEW k \in DOMAIN r, NEW j \in DOMAIN r, key[r[k]] = key[r[j]] PROVE k = j
  <2>1. PICK m \in DOMAIN q : m = (IF k < i THEN k ELSE k + 1) /\ r[k] = q[m]
    BY <1>1, <1>2
  <2>2. PICK l \in DOMAIN q : l = (IF j < i THEN j ELSE j + 1) /\ r[j] = q[l]
    BY <1>1, <1>2
  <2>3. m = l
    BY <1>3, <2>1, <2>2 DEF OnceBy
  <2> QED BY <1>2, <2>1, <2>2, <2>3
<1> QED BY <1>0, <1>3 DEF OnceBy

(* Its three sequences: the tools of the register, the expose rows, what   *)
(* is connected.                                                           *)
Tool == [id : Locals, name : Displays]
Row == [of : Remotes, as : Names, on : BOOLEAN]
Conn == [up : Ups, tools : Seq(Tools)]

OncePerId(f) ==
  f \in Seq(Tool) /\ \A i, j \in DOMAIN f : f[i].id = f[j].id => i = j
OncePerTool(f) ==
  f \in Seq(Row) /\ \A i, j \in DOMAIN f : f[i].of = f[j].of => i = j
OncePerUp(f) ==
  f \in Seq(Conn) /\ \A i, j \in DOMAIN f : f[i].up = f[j].up => i = j

LEMMA IdKey ==
  ASSUME NEW f \in Seq(Tool)
  PROVE  OncePerId(f) <=> OnceBy([e \in Tool |-> e.id], f)
BY SeqFacts DEF OncePerId, OnceBy

LEMMA ToolKey ==
  ASSUME NEW f \in Seq(Row)
  PROVE  OncePerTool(f) <=> OnceBy([e \in Row |-> e.of], f)
BY SeqFacts DEF OncePerTool, OnceBy

LEMMA UpKey ==
  ASSUME NEW f \in Seq(Conn)
  PROVE  OncePerUp(f) <=> OnceBy([e \in Conn |-> e.up], f)
BY SeqFacts DEF OncePerUp, OnceBy

(* An entry under a new key is appended.                                   *)
LEMMA AppendId ==
  ASSUME NEW f, OncePerId(f), NEW e \in Tool, \A d \in Range(f) : d.id # e.id
  PROVE  OncePerId(Append(f, e))
<1> DEFINE key == [d \in Tool |-> d.id]
<1>1. f \in Seq(Tool) /\ Append(f, e) \in Seq(Tool) /\ OnceBy(key, f)
  BY IdKey DEF OncePerId
<1>2. \A i \in DOMAIN f : key[f[i]] # key[e]
  BY <1>1, SeqFacts DEF Range
<1> HIDE DEF key
<1>3. OnceBy(key, Append(f, e))
  BY <1>1, <1>2, AppendOnce
<1> QED BY <1>1, <1>3, IdKey DEF key

LEMMA AppendTool ==
  ASSUME NEW f, OncePerTool(f), NEW e \in Row, \A d \in Range(f) : d.of # e.of
  PROVE  OncePerTool(Append(f, e))
<1> DEFINE key == [d \in Row |-> d.of]
<1>1. f \in Seq(Row) /\ Append(f, e) \in Seq(Row) /\ OnceBy(key, f)
  BY ToolKey DEF OncePerTool
<1>2. \A i \in DOMAIN f : key[f[i]] # key[e]
  BY <1>1, SeqFacts DEF Range
<1> HIDE DEF key
<1>3. OnceBy(key, Append(f, e))
  BY <1>1, <1>2, AppendOnce
<1> QED BY <1>1, <1>3, ToolKey DEF key

LEMMA AppendUp ==
  ASSUME NEW f, OncePerUp(f), NEW e \in Conn, \A d \in Range(f) : d.up # e.up
  PROVE  OncePerUp(Append(f, e))
<1> DEFINE key == [d \in Conn |-> d.up]
<1>1. f \in Seq(Conn) /\ Append(f, e) \in Seq(Conn) /\ OnceBy(key, f)
  BY UpKey DEF OncePerUp
<1>2. \A i \in DOMAIN f : key[f[i]] # key[e]
  BY <1>1, SeqFacts DEF Range
<1> HIDE DEF key
<1>3. OnceBy(key, Append(f, e))
  BY <1>1, <1>2, AppendOnce
<1> QED BY <1>1, <1>3, UpKey DEF key

(* An entry is removed.                                                    *)
LEMMA RemovesOnce ==
  ASSUME NEW f, NEW i \in DOMAIN f
  PROVE  /\ OncePerId(f) => OncePerId(RemoveAt(f, i))
         /\ OncePerTool(f) => OncePerTool(RemoveAt(f, i))
         /\ OncePerUp(f) => OncePerUp(RemoveAt(f, i))
<1>1. OncePerId(f) => OncePerId(RemoveAt(f, i))
  BY IdKey, RemoveOnce, RemoveKeeps DEF OncePerId
<1>2. OncePerTool(f) => OncePerTool(RemoveAt(f, i))
  BY ToolKey, RemoveOnce, RemoveKeeps DEF OncePerTool
<1>3. OncePerUp(f) => OncePerUp(RemoveAt(f, i))
  BY UpKey, RemoveOnce, RemoveKeeps DEF OncePerUp
<1> QED BY <1>1, <1>2, <1>3

(* Whoever else is connected stays so.                                     *)
LEMMA RemoveLeaves ==
  ASSUME NEW i \in DOMAIN found, OncePerUp(found), NEW f, f = RemoveAt(found, i)
  PROVE  /\ Range(f) \subseteq Range(found)
         /\ \A u : Connected(u) /\ u # found[i].up => \E c \in Range(f) : c.up = u
         /\ \A c \in Range(f) : c.up # found[i].up
<1>1. found \in Seq(Conn)
  BY DEF OncePerUp
<1>2. /\ Range(f) \subseteq Range(found)
      /\ \A j \in DOMAIN found \ {i} : found[j] \in Range(f)
  BY <1>1, RangeAfter
<1>3. ASSUME NEW u, Connected(u), u # found[i].up PROVE \E c \in Range(f) : c.up = u
  <2>1. PICK j \in DOMAIN found : found[j].up = u
    BY <1>3 DEF Connected, Range
  <2>2. found[j] \in Range(f)
    BY <1>2, <1>3, <2>1
  <2> QED BY <2>1, <2>2
<1>4. ASSUME NEW c \in Range(f) PROVE c.up # found[i].up
  <2>1. PICK k \in DOMAIN f : c = f[k]
    BY DEF Range
  <2>2. f \in Seq(Conn)
    BY <1>1, RemoveKeeps
  <2>3. k \in Nat /\ i \in Nat
    BY <1>1, <2>1, <2>2, SeqFacts
  <2>4. /\ k < i => k \in DOMAIN found /\ c = found[k]
        /\ k >= i => k + 1 \in DOMAIN found /\ c = found[k + 1]
    BY <1>1, <2>1, RemoveKeeps
  <2>5. PICK m \in DOMAIN found : m # i /\ c = found[m]
    BY <2>3, <2>4
  <2> QED BY <2>5 DEF OncePerUp
<1> QED BY <1>2, <1>3, <1>4

-----------------------------------------------------------------------------
(* The invariant is inductive.                                             *)

LEMMA SurfaceInitInv == SurfaceInit => SurfaceInv
<1> SUFFICES ASSUME SurfaceInit PROVE SurfaceInv
  OBVIOUS
<1> USE DEF SurfaceInit
<1>1. \E S \in SUBSET Names : hot \in [S -> BOOLEAN]
  <2>1. hot \in [{} -> BOOLEAN]
    OBVIOUS
  <2> QED BY <2>1
<1>2. SurfaceTypeOK
  <2>1. /\ register \in Seq([id : Locals, name : Displays])
        /\ rows \in Seq([of : Remotes, as : Names, on : BOOLEAN])
        /\ found \in Seq([up : Ups, tools : Seq(Tools)])
    OBVIOUS
  <2>2. DOMAIN register = {} /\ DOMAIN rows = {} /\ DOMAIN found = {}
    OBVIOUS
  <2>3. /\ off \subseteq Names /\ wrap \in Ups \cup {NoWrap} /\ enabled \subseteq Ups
        /\ edits \in 0..MaxEdits /\ call = Idle
    BY SurfaceNames
  <2> QED BY <1>1, <2>1, <2>2, <2>3 DEF SurfaceTypeOK
<1> QED BY <1>2 DEF SurfaceInv, ServedOnly, WayShape, RunShape, Range

CallTypeOK == call \in {Idle} \cup [at : {"gate", "run"}, way : Way, lost : BOOLEAN]

(* The call goes, the configuration and the connections stay.              *)
LEMMA CallChanges ==
  ASSUME SurfaceInv, UNCHANGED <<configVars, storeVars, found>>,
         CallTypeOK', WayShape', RunShape'
  PROVE  SurfaceInv'
<1> USE DEF SurfaceInv, configVars, storeVars
<1>1. SurfaceTypeOK'
  BY DEF SurfaceTypeOK, CallTypeOK
<1>2. ServedOnly'
  BY DEF ServedOnly
<1> QED BY <1>1, <1>2

LEMMA CallGoesIdle ==
  ASSUME call' = Idle
  PROVE  CallTypeOK' /\ WayShape' /\ RunShape'
BY DEF CallTypeOK, WayShape, RunShape

LEMMA AnsweredInv ==
  ASSUME SurfaceInv, Answered
  PROVE  SurfaceInv'
BY CallGoesIdle, CallChanges DEF Answered

LEMMA CallInv ==
  ASSUME SurfaceInv, Call
  PROVE  SurfaceInv'
<1>0. PICK n \in Names :
        \E w \in Direct(n) \cup Run(n) :
          w.by # "meta" /\ call' = [at |-> "gate", way |-> w, lost |-> FALSE]
  BY DEF Call
<1>1. PICK w \in Direct(n) \cup Run(n) :
        w.by # "meta" /\ call' = [at |-> "gate", way |-> w, lost |-> FALSE]
  BY <1>0
<1>2. InPolicy(w)
  BY DirectInPolicy, RunInPolicy DEF SurfaceInv
<1>3. CallTypeOK'
  BY <1>1, <1>2 DEF CallTypeOK, InPolicy
<1>4. call' # Idle => call'.at = "gate" /\ call'.way = w
  BY <1>1
<1>5. WayShape' /\ RunShape'
  BY <1>1, <1>2, <1>4 DEF WayShape, RunShape, InPolicy
<1> QED BY <1>3, <1>5, CallChanges DEF Call

LEMMA ExecutesInv ==
  ASSUME SurfaceInv, Executes
  PROVE  SurfaceInv'
<1> USE DEF SurfaceInv
<1>1. /\ call # Idle /\ call \in [at : {"gate", "run"}, way : Way, lost : BOOLEAN]
      /\ call' = [call EXCEPT !.at = "run"]
  BY DEF Executes, SurfaceTypeOK
<1>2. call' \in [at : {"gate", "run"}, way : Way, lost : BOOLEAN] /\ call'.way = call.way
  BY <1>1
<1>3. CallTypeOK' /\ WayShape'
  BY <1>1, <1>2 DEF CallTypeOK, WayShape
<1>4. RunShape'
  <2> SUFFICES ASSUME call.way.by # "local"
               PROVE  Usable(call.way.runs) /\ Connected(call.way.runs[1])
    BY <1>2 DEF Executes, RunShape, storeVars, Usable, Connected
  <2>1. Connected(call.way.runs[1])
    BY DEF Executes, CanStart
  <2> QED BY <2>1 DEF Connected, ServedOnly, Usable
<1> QED BY <1>3, <1>4, CallChanges DEF Executes

(* What is left of a call when connections are lost.                       *)
LEMMA LosesFacts ==
  ASSUME SurfaceInv, NEW U, NEW bys, Loses(U, bys)
  PROVE  /\ CallTypeOK' /\ WayShape'
         /\ \/ call' = Idle
            \/ call # Idle /\ call'.at = call.at /\ call'.way = call.way
         /\ call' # Idle /\ call'.at = "run" /\ call'.way.by # "local" =>
              call.way.runs[1] \notin U
<1> USE DEF SurfaceInv
<1>1. CASE call = Idle
  BY <1>1, CallGoesIdle DEF Loses
<1>2. CASE call # Idle
  <2>1. call \in [at : {"gate", "run"}, way : Way, lost : BOOLEAN]
    BY <1>2 DEF SurfaceTypeOK
  <2>2. CASE call.way.by = "local" \/ call.way.runs[1] \notin U
    <3>1. call' = call
      BY <2>2 DEF Loses
    <3> QED BY <1>2, <2>1, <2>2, <3>1 DEF CallTypeOK, WayShape
  <2>3. CASE call.way.by # "local" /\ call.way.runs[1] \in U /\ call.at = "run"
    <3>1. call' = Idle
      BY <1>2, <2>3 DEF Loses
    <3> QED BY <3>1, CallGoesIdle
  <2>4. CASE call.way.by # "local" /\ call.way.runs[1] \in U /\ call.at # "run"
    <3>1. PICK b \in BOOLEAN : call' = [call EXCEPT !.lost = b]
      <4>1. call' = [call EXCEPT !.lost = @ \/ call.way.by \in bys]
        BY <1>2, <2>4 DEF Loses
      <4>2. (call.lost \/ call.way.by \in bys) \in BOOLEAN
        OBVIOUS
      <4> QED BY <4>1, <4>2
    <3>2. /\ call' \in [at : {"gate", "run"}, way : Way, lost : BOOLEAN]
          /\ call'.at = call.at /\ call'.way = call.way
      BY <2>1, <3>1
    <3> QED BY <1>2, <2>4, <3>2 DEF CallTypeOK, WayShape
  <2> QED BY <2>2, <2>3, <2>4
<1> QED BY <1>1, <1>2

(* The connections change, the configuration stays.                        *)
LEMMA FoundChanges ==
  ASSUME SurfaceInv, UNCHANGED <<configVars, storeVars>>, OncePerUp(found'),
         ServedOnly', CallTypeOK', WayShape', RunShape'
  PROVE  SurfaceInv'
<1> USE DEF SurfaceInv, configVars, storeVars
<1>1. SurfaceTypeOK'
  BY DEF SurfaceTypeOK, CallTypeOK, OncePerUp, Conn
<1> QED BY <1>1

LEMMA UpstreamUpInv ==
  ASSUME SurfaceInv, NEW u \in Ups, UpstreamUp(u)
  PROVE  SurfaceInv'
<1> USE DEF SurfaceInv
<1>1. PICK tools \in Offers[u] : found' = Append(found, [up |-> u, tools |-> tools])
  BY DEF UpstreamUp
<1>2. tools \in Seq(Tools)
  BY SurfaceNames
<1>3. OncePerUp(found)
  BY DEF SurfaceTypeOK, OncePerUp, Conn
<1>4. OncePerUp(found')
  <2>1. PICK e \in Conn : e.up = u /\ e = [up |-> u, tools |-> tools]
    BY <1>2 DEF Conn
  <2>2. \A d \in Range(found) : d.up # e.up
    BY <2>1 DEF UpstreamUp, Connected
  <2> QED BY <1>1, <1>3, <2>1, <2>2, AppendUp
<1>5. Range(found') = Range(found) \cup {[up |-> u, tools |-> tools]}
  BY <1>1, <1>3, RangeAfter DEF OncePerUp
<1>6. ServedOnly'
  BY <1>5 DEF ServedOnly, UpstreamUp, storeVars
<1>7. call' = call /\ CallTypeOK' /\ WayShape'
  BY DEF UpstreamUp, SurfaceTypeOK, CallTypeOK, WayShape
<1>8. RunShape'
  BY <1>5, <1>7 DEF RunShape, Usable, Connected, UpstreamUp, storeVars
<1> QED BY <1>4, <1>6, <1>7, <1>8, FoundChanges DEF UpstreamUp

LEMMA RelistInv ==
  ASSUME SurfaceInv, NEW i, Relist(i)
  PROVE  SurfaceInv'
<1> USE DEF SurfaceInv
<1>1. PICK tools \in Offers[found[i].up] : found' = [found EXCEPT ![i].tools = tools]
  BY DEF Relist
<1>2. i \in DOMAIN found
  BY DEF Relist
<1>3. OncePerUp(found)
  BY DEF SurfaceTypeOK, OncePerUp, Conn
<1>4. found \in Seq(Conn) /\ found[i] \in Conn
  BY <1>2, <1>3, SeqFacts DEF OncePerUp
<1>5. tools \in Seq(Tools)
  BY <1>4, SurfaceNames DEF Conn
<1>6. /\ found' \in Seq(Conn) /\ DOMAIN found' = DOMAIN found
      /\ \A k \in DOMAIN found : found'[k].up = found[k].up
  <2>1. [found[i] EXCEPT !.tools = tools] \in Conn
    BY <1>4, <1>5 DEF Conn
  <2>2. [found[i] EXCEPT !.tools = tools].up = found[i].up
    BY <1>4 DEF Conn
  <2>3. PICK e \in Conn :
          e.up = found[i].up /\ found' = [found EXCEPT ![i] = e]
    BY <1>1, <2>1, <2>2
  <2> QED BY <1>2, <1>4, <2>3
<1>7. OncePerUp(found')
  BY <1>3, <1>6 DEF OncePerUp
<1>8. \A u : (\E c \in Range(found') : c.up = u) <=> (\E c \in Range(found) : c.up = u)
  BY <1>6 DEF Range
<1>9. ServedOnly'
  BY <1>8 DEF ServedOnly, Relist, storeVars
<1>10. call' = call /\ CallTypeOK' /\ WayShape'
  BY DEF Relist, SurfaceTypeOK, CallTypeOK, WayShape
<1>11. RunShape'
  BY <1>8, <1>10 DEF RunShape, Usable, Connected, Relist, storeVars
<1> QED BY <1>7, <1>9, <1>10, <1>11, FoundChanges DEF Relist

LEMMA UpstreamDownInv ==
  ASSUME SurfaceInv, NEW i, UpstreamDown(i)
  PROVE  SurfaceInv'
<1> USE DEF SurfaceInv
<1>1. i \in DOMAIN found /\ found' = RemoveAt(found, i) /\ Loses({found[i].up}, {"client"})
  BY DEF UpstreamDown
<1>2. OncePerUp(found)
  BY DEF SurfaceTypeOK, OncePerUp, Conn
<1>3. OncePerUp(found')
  BY <1>1, <1>2, RemovesOnce
<1>4. /\ Range(found') \subseteq Range(found)
      /\ \A u : Connected(u) /\ u # found[i].up => \E c \in Range(found') : c.up = u
  BY <1>1, <1>2, RemoveLeaves
<1>5. ServedOnly'
  BY <1>4 DEF ServedOnly, UpstreamDown, storeVars
<1>6. /\ CallTypeOK' /\ WayShape'
      /\ \/ call' = Idle
         \/ call # Idle /\ call'.at = call.at /\ call'.way = call.way
      /\ call' # Idle /\ call'.at = "run" /\ call'.way.by # "local" =>
           call.way.runs[1] # found[i].up
  BY <1>1, LosesFacts
<1>7. RunShape'
  BY <1>4, <1>6 DEF RunShape, Usable, Connected, UpstreamDown, storeVars
<1> QED BY <1>3, <1>5, <1>6, <1>7, FoundChanges DEF UpstreamDown

LEMMA EditRowsOnce ==
  ASSUME OncePerTool(rows), EditRows
  PROVE  OncePerTool(rows')
<1>1. rows \in Seq(Row)
  BY DEF OncePerTool
<1>2. ASSUME NEW x \in Remotes \ {r.of : r \in Range(rows)}, NEW a \in Aliases, NEW b \in BOOLEAN
      PROVE  OncePerTool(Append(rows, [of |-> x, as |-> a, on |-> b]))
  <2>1. PICK e \in Row : e.of = x /\ e = [of |-> x, as |-> a, on |-> b]
    BY SurfaceNames DEF Row
  <2>2. \A r \in Range(rows) : r.of # e.of
    BY <2>1
  <2> QED BY <2>1, <2>2, AppendTool
<1>3. ASSUME NEW i \in DOMAIN rows PROVE OncePerTool([rows EXCEPT ![i].on = ~@])
  <2>1. rows[i] \in Row
    BY <1>1, SeqFacts
  <2>2. PICK e \in Row : e.of = rows[i].of /\ e = [rows[i] EXCEPT !.on = ~@]
    BY <2>1 DEF Row
  <2>3. PICK f : f = [rows EXCEPT ![i] = e]
    OBVIOUS
  <2>4. f \in Seq(Row) /\ DOMAIN f = DOMAIN rows /\ \A k \in DOMAIN rows : f[k].of = rows[k].of
    BY <1>1, <2>2, <2>3
  <2>5. OncePerTool(f)
    BY <2>4 DEF OncePerTool
  <2>6. f = [rows EXCEPT ![i].on = ~@]
    BY <2>2, <2>3
  <2> QED BY <2>5, <2>6
<1> QED BY <1>2, <1>3, RemovesOnce DEF EditRows

LEMMA ReloadExposeInv ==
  ASSUME SurfaceInv, ReloadExpose
  PROVE  SurfaceInv'
<1> USE DEF SurfaceInv
<1>1. /\ edits' \in 0..MaxEdits /\ UNCHANGED <<register, off, hot, wrap>>
      /\ Loses(Ups, {"client", "name"})
  BY SurfaceNames DEF ReloadExpose, Edited, SurfaceTypeOK
<1>2. OncePerTool(rows) /\ OncePerUp(found) /\ enabled \subseteq Ups
  BY DEF SurfaceTypeOK, OncePerTool, OncePerUp, Row, Conn
<1>3. OncePerTool(rows') /\ OncePerUp(found') /\ enabled' \subseteq Ups /\ ServedOnly'
  <2>1. CASE EditRows /\ UNCHANGED <<enabled, found>>
    BY <1>2, <2>1, EditRowsOnce DEF ServedOnly
  <2>2. ASSUME NEW u \in Ups \ enabled, enabled' = enabled \cup {u}, UNCHANGED <<rows, found>>
        PROVE  OncePerTool(rows') /\ OncePerUp(found') /\ enabled' \subseteq Ups /\ ServedOnly'
    BY <1>2, <2>2 DEF ServedOnly
  <2>3. ASSUME NEW u \in enabled, enabled' = enabled \ {u}, UNCHANGED rows,
               NEW i \in DOMAIN found, found[i].up = u, found' = RemoveAt(found, i)
        PROVE  OncePerTool(rows') /\ OncePerUp(found') /\ enabled' \subseteq Ups /\ ServedOnly'
    <3>1. Range(found') \subseteq Range(found) /\ \A c \in Range(found') : c.up # u
      BY <1>2, <2>3, RemoveLeaves
    <3>2. ServedOnly'
      BY <2>3, <3>1 DEF ServedOnly
    <3> QED BY <1>2, <2>3, <3>2, RemovesOnce
  <2>4. ASSUME NEW u \in enabled, enabled' = enabled \ {u}, UNCHANGED <<rows, found>>, ~Connected(u)
        PROVE  OncePerTool(rows') /\ OncePerUp(found') /\ enabled' \subseteq Ups /\ ServedOnly'
    BY <1>2, <2>4 DEF ServedOnly, Connected
  <2> QED BY <2>1, <2>2, <2>3, <2>4 DEF ReloadExpose
<1>4. /\ CallTypeOK' /\ WayShape'
      /\ \/ call' = Idle
         \/ call # Idle /\ call'.at = call.at /\ call'.way = call.way
      /\ call' # Idle /\ call'.at = "run" /\ call'.way.by # "local" =>
           call.way.runs[1] \notin Ups
  BY <1>1, LosesFacts
<1>5. RunShape'
  <2> SUFFICES ASSUME call' # Idle, call'.at = "run", call'.way.by # "local" PROVE FALSE
    BY DEF RunShape
  <2>1. call.way.runs \in Remotes /\ call.way.runs[1] \notin Ups
    BY <1>4 DEF WayShape
  <2> QED BY <2>1 DEF Remotes
<1>6. SurfaceTypeOK'
  BY <1>1, <1>3, <1>4 DEF SurfaceTypeOK, CallTypeOK, OncePerTool, OncePerUp, Row, Conn
<1> QED BY <1>3, <1>4, <1>5, <1>6

(* The register and the tool state change; rows, connections and call stay. *)
LEMMA EditSteps ==
  ASSUME SurfaceInv, Edited, UNCHANGED <<storeVars, found, call>>, OncePerId(register'),
         off' \subseteq Names, \E S \in SUBSET Names : hot' \in [S -> BOOLEAN],
         wrap' \in Ups \cup {NoWrap}
  PROVE  SurfaceInv'
<1> USE DEF SurfaceInv, storeVars
<1>1. edits' \in 0..MaxEdits
  BY SurfaceNames DEF Edited, SurfaceTypeOK
<1>2. SurfaceTypeOK'
  BY <1>1 DEF SurfaceTypeOK, OncePerId, Tool
<1>3. ServedOnly' /\ WayShape' /\ RunShape'
  BY DEF ServedOnly, WayShape, RunShape, Usable, Connected
<1> QED BY <1>2, <1>3

LEMMA ReloadRegisterInv ==
  ASSUME SurfaceInv, ReloadRegister
  PROVE  SurfaceInv'
<1> USE DEF SurfaceInv
<1>1. OncePerId(register)
  BY DEF SurfaceTypeOK, OncePerId, Tool
<1>2. OncePerId(register')
  <2>1. ASSUME NEW id \in Locals \ {l.id : l \in Range(register)}, NEW n \in Displays,
               register' = Append(register, [id |-> id, name |-> n])
        PROVE  OncePerId(register')
    <3>1. PICK e \in Tool : e.id = id /\ e = [id |-> id, name |-> n]
      BY DEF Tool
    <3>2. \A l \in Range(register) : l.id # e.id
      BY <3>1
    <3> QED BY <1>1, <2>1, <3>1, <3>2, AppendId
  <2>2. ASSUME NEW i \in DOMAIN register, register' = RemoveAt(register, i)
        PROVE  OncePerId(register')
    BY <1>1, <2>2, RemovesOnce
  <2>3. ASSUME NEW i \in DOMAIN register, NEW n \in Displays,
               register' = [register EXCEPT ![i].name = n]
        PROVE  OncePerId(register')
    <3>1. register \in Seq(Tool) /\ register[i] \in Tool
      BY <1>1, SeqFacts DEF OncePerId
    <3>2. PICK e \in Tool : e.id = register[i].id /\ e = [register[i] EXCEPT !.name = n]
      BY <3>1 DEF Tool
    <3>3. register' = [register EXCEPT ![i] = e]
      BY <2>3, <3>2
    <3>4. /\ register' \in Seq(Tool) /\ DOMAIN register' = DOMAIN register
          /\ \A k \in DOMAIN register : register'[k].id = register[k].id
      BY <3>1, <3>2, <3>3
    <3> QED BY <1>1, <3>4 DEF OncePerId
  <2> QED BY <2>1, <2>2, <2>3 DEF ReloadRegister
<1>3. /\ off' \subseteq Names /\ wrap' \in Ups \cup {NoWrap}
      /\ \E S \in SUBSET Names : hot' \in [S -> BOOLEAN]
  BY DEF ReloadRegister, SurfaceTypeOK
<1> QED BY <1>2, <1>3, EditSteps DEF ReloadRegister

LEMMA EditStateInv ==
  ASSUME SurfaceInv, EditState
  PROVE  SurfaceInv'
<1> USE DEF SurfaceInv
<1>1. OncePerId(register')
  BY DEF EditState, SurfaceTypeOK, OncePerId, Tool
<1>2. off' \subseteq Names /\ wrap' \in Ups \cup {NoWrap}
  BY DEF EditState, SurfaceTypeOK
<1>3. \E S \in SUBSET Names : hot' \in [S -> BOOLEAN]
  <2>1. PICK S \in SUBSET Names : hot \in [S -> BOOLEAN]
    BY DEF SurfaceTypeOK
  <2>2. CASE hot' = hot
    BY <2>1, <2>2
  <2>3. ASSUME NEW k \in Names, NEW b \in BOOLEAN,
               hot' = [n \in DOMAIN hot \cup {k} |-> IF n = k THEN b ELSE hot[n]]
        PROVE  hot' \in [S \cup {k} -> BOOLEAN]
    <3>1. DOMAIN hot = S /\ \A n \in S : hot[n] \in BOOLEAN
      BY <2>1
    <3> QED BY <2>3, <3>1
  <2>4. CASE \E k \in Names, b \in BOOLEAN :
               hot' = [n \in DOMAIN hot \cup {k} |-> IF n = k THEN b ELSE hot[n]]
    <3>1. PICK k \in Names, b \in BOOLEAN :
            hot' = [n \in DOMAIN hot \cup {k} |-> IF n = k THEN b ELSE hot[n]]
      BY <2>4
    <3> QED BY <2>3, <3>1
  <2> QED BY <2>2, <2>4 DEF EditState
<1> QED BY <1>1, <1>2, <1>3, EditSteps DEF EditState

LEMMA SurfaceStepInv == SurfaceInv /\ [SurfaceNext]_surfaceVars => SurfaceInv'
<1> SUFFICES ASSUME SurfaceInv, [SurfaceNext]_surfaceVars PROVE SurfaceInv'
  OBVIOUS
<1>1. CASE UNCHANGED surfaceVars
  <2>1. CallTypeOK' /\ WayShape' /\ RunShape'
    BY <1>1 DEF surfaceVars, configVars, storeVars, SurfaceInv, SurfaceTypeOK, CallTypeOK,
                WayShape, RunShape, Usable, Connected
  <2> QED BY <1>1, <2>1, CallChanges DEF surfaceVars
<1>2. CASE Call
  BY <1>2, CallInv
<1>3. CASE Executes
  BY <1>3, ExecutesInv
<1>4. CASE Denies \/ HandsOver \/ FailsToStart \/ Returns
  BY <1>4, AnsweredInv DEF Denies, HandsOver, FailsToStart, Returns
<1>5. ASSUME NEW u \in Ups, UpstreamUp(u) PROVE SurfaceInv'
  BY <1>5, UpstreamUpInv
<1>6. ASSUME NEW i, Relist(i) PROVE SurfaceInv'
  BY <1>6, RelistInv
<1>7. ASSUME NEW i, UpstreamDown(i) PROVE SurfaceInv'
  BY <1>7, UpstreamDownInv
<1>8. CASE ReloadExpose
  BY <1>8, ReloadExposeInv
<1>9. CASE ReloadRegister
  BY <1>9, ReloadRegisterInv
<1>10. CASE EditState
  BY <1>10, EditStateInv
<1> QED BY <1>1, <1>2, <1>3, <1>4, <1>5, <1>6, <1>7, <1>8, <1>9, <1>10 DEF SurfaceNext

(* The invariant holds: the connected upstreams are enabled ones, and a    *)
(* call that runs runs on one of them or locally.                          *)
THEOREM SurfaceInvHolds == SurfaceSpec => []SurfaceInv
<1>1. SurfaceInit => SurfaceInv
  BY SurfaceInitInv
<1>2. SurfaceInv /\ [SurfaceNext]_surfaceVars => SurfaceInv'
  BY SurfaceStepInv
<1> QED BY <1>1, <1>2, PTL DEF SurfaceSpec

(* The state stays well-formed: no id in the register, no tool among the   *)
(* expose rows and no upstream among the connected ones is there twice.    *)
THEOREM SurfaceTypeCorrect == SurfaceSpec => []SurfaceTypeOK
<1>1. SurfaceInv => SurfaceTypeOK
  BY DEF SurfaceInv
<1> QED BY <1>1, SurfaceInvHolds, PTL

(* However names clash, and whatever is connected, reloaded or switched,   *)
(* what tools/list, a wrap's listing and toolfunnel_list_tools show is     *)
(* what a call by that name reaches, and a wrap and the meta-tool reach    *)
(* nothing else.                                                           *)
THEOREM AdvertisedRunsHolds == SurfaceSpec => []AdvertisedRuns
<1>1. SurfaceInv => AdvertisedRuns
  BY AdvertisedFollows DEF SurfaceInv
<1> QED BY <1>1, SurfaceInvHolds, PTL

(* No way to a tool goes round its policy: the gate name and the switch of *)
(* a tool are the same on every way to it, and a call that runs on an      *)
(* upstream runs on an enabled and connected one.                          *)
THEOREM PolicyHoldsAlways == SurfaceSpec => []PolicyHolds
<1>1. SurfaceInv => PolicyHolds
  BY PolicyFollows DEF SurfaceInv
<1> QED BY <1>1, SurfaceInvHolds, PTL
=============================================================================
