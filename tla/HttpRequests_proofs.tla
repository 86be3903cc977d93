------------------------- MODULE HttpRequests_proofs -------------------------
(* Proofs about the HTTP host: its life cycle (HostLifecycle), for every   *)
(* number of builds, edits, stops and clients and every mix of calls, and  *)
(* its requests (HttpRequests), which leave the life cycle as it is.       *)
EXTENDS HttpRequests, TLAPS, FiniteSetTheorems

USE HostBounds, HostSets

-----------------------------------------------------------------------------
(* What the operations share.                                              *)

(* An embedder that overlaps no calls but the safe ones. *)
LEMMA MayFacts ==
  ASSUME Serialized, TypeOK, CallShape
  PROVE  /\ May("start") => starting = {} /\ reloading = {} /\ ending = 0 /\ "start" \in Calls
         /\ May("stop") => reloading = {} /\ "stop" \in Calls
         /\ May("reload") => starting = {} /\ ending = 0 /\ "reload" \in Calls
<1>1. "start" \in Pending <=> "start" \in Calls /\ starting # {}
  BY DEF Pending
<1>2. "stop" \in Pending <=> "stop" \in Calls /\ ending > 0
  BY DEF Pending
<1>3. "reload" \in Pending <=> "reload" \in Calls /\ reloading # {}
  BY DEF Pending
<1>4. \A d : /\ <<"start", d>> \notin Overlapping
             /\ <<"stop", d>> \in Overlapping => d # "reload"
             /\ <<"reload", d>> \in Overlapping => d = "reload"
  BY Zenon DEF Serialized
<1>5. \A d \in Pending : /\ ~May("start")
                         /\ May("stop") => d # "reload"
                         /\ May("reload") => d = "reload"
  BY Zenon, <1>4 DEF May
<1>6. ending = 0 <=> ~(ending > 0)
  BY SMT DEF TypeOK
<1>7. /\ starting # {} => "start" \in Calls
      /\ ending > 0 => "stop" \in Calls
      /\ reloading # {} => "reload" \in Calls
  BY Zenon DEF CallShape
<1> QED BY Zenon, <1>1, <1>2, <1>3, <1>5, <1>6, <1>7 DEF May

LEMMA SwapFields ==
  ASSUME TypeOK
  PROVE  \A op \in swapping : op.next \in Aggs /\ op.into \in Aggs /\ op.by \in Aggs
  BY Zenon DEF TypeOK, Swap

Phase == {"unborn", "connecting", "live", "closed"}

LEMMA PhaseFacts ==
  ASSUME TypeOK
  PROVE  /\ status \in [Aggs -> Phase]
         /\ \A a \in Aggs : /\ Settled(a) \in [Aggs -> Phase]
                            /\ \A x \in Aggs \ {a} : Settled(a)[x] = status[x]
                            /\ Settled(a)[a] = IF status[a] = "closed" THEN "closed" ELSE "live"
  BY SMT DEF TypeOK, Phase, Settled

LEMMA ClosingFacts ==
  ASSUME NEW tab \in [Aggs -> Phase], NEW old
  PROVE  /\ Closing(tab, old) \in [Aggs -> Phase]
         /\ \A x \in Aggs : Closing(tab, old)[x] = IF x = old THEN "closed" ELSE tab[x]
  BY SMT DEF Closing, Phase

(* What the host serves from: nothing, or what its build holds. *)
LEMMA CurrentFacts ==
  ASSUME HostInv
  PROVE  /\ build = None => Current = None
         /\ build # None => /\ build \in Aggs /\ Current = holder[build] /\ Current \in Aggs
                            /\ Current <= made /\ Open(Current)
  BY SMT DEF HostInv, TypeOK, NameShape, OpenShape, Current, None

LEMMA NoneFacts == None \notin Aggs /\ \A a \in Aggs : a \in Nat /\ a # None
  BY SMT DEF None, Aggs

LEMMA InitHost == Init => HostInv
<1> SUFFICES ASSUME Init PROVE HostInv
  OBVIOUS
<1> USE DEF Init, Aggs, None
<1>0. started \in BOOLEAN /\ stopping \in BOOLEAN
  BY Zenon
<1>1. TypeOK
  BY <1>0, SMT DEF TypeOK
<1>2. NameShape /\ HolderShape
  BY SMT DEF NameShape, HolderShape
<1>3. CallShape
  BY SMT DEF CallShape
<1>4. OpenShape
  BY FS_EmptySet, SMT DEF OpenShape
<1> QED BY <1>1, <1>2, <1>3, <1>4 DEF HostInv

LEMMA StartInv ==
  ASSUME Serialized, HostInv, Start
  PROVE  HostInv'
<1> USE DEF HostInv, Start, Construct, hostVars, watchVars
<1>0. TypeOK /\ starting = {} /\ reloading = {} /\ ending = 0 /\ "start" \in Calls
  BY MayFacts
<1> USE <1>0
<1>1. TypeOK'
  BY SMT DEF TypeOK, Aggs
<1>2. NameShape'
  BY SMT DEF NameShape, TypeOK, Aggs, None, Swap
<1>3. HolderShape'
  <2> PICK a \in Aggs : /\ Construct(a, 0) /\ holder' = [holder EXCEPT ![a] = a]
                        /\ starting' = starting \cup {a}
    OBVIOUS
  <2>1. a > made /\ holder[a] = None /\ \A b \in Aggs : holder[b] # a
    BY SMT DEF NameShape, TypeOK, Aggs
  <2>2. \A op \in swapping : op.next \in Aggs /\ op.into \in Aggs /\ op.next # a /\ op.into # a
    <3> TAKE op \in swapping
    <3>1. op.next \in Aggs /\ op.into \in Aggs
      BY SwapFields
    <3>2. op.next <= made /\ holder[op.into] # None
      BY DEF NameShape, HolderShape
    <3>3. op.into # a
      BY <2>1, <3>2
    <3>4. op.next # a
      BY <2>1, <3>1, <3>2, SMT DEF Aggs, TypeOK
    <3> QED BY <3>1, <3>3, <3>4
  <2>3. starting' = {a} /\ reloading' = {} /\ swapping' = swapping
    OBVIOUS
  <2>4. \A b, c \in Aggs : holder'[b] = holder'[c] /\ holder'[b] # None => b = c
    BY <2>1, SMT DEF HolderShape, TypeOK
  <2>5. \A op \in swapping : /\ holder'[op.into] # None /\ status'[op.next] = "connecting"
                             /\ op.into # a /\ \A b \in Aggs : holder'[b] # op.next
    BY <2>1, <2>2, SMT DEF HolderShape, TypeOK
  <2>6. \A op, oq \in swapping : op.next = oq.next => op = oq
    BY DEF HolderShape
  <2> QED BY Zenon, <2>3, <2>4, <2>5, <2>6 DEF HolderShape
<1>4. CallShape'
  BY SMT DEF CallShape, NameShape, TypeOK, Aggs, None
<1>5. OpenShape'
  BY FS_EmptySet, SMT DEF OpenShape, CallShape, HolderShape, NameShape, TypeOK, Current, Open, Aggs, None, Swap
<1> QED BY <1>1, <1>2, <1>3, <1>4, <1>5

(* The build is dropped and what it held is closed: a start that failed,   *)
(* the end of a stop.                                                      *)
LEMMA DropFacts ==
  ASSUME HostInv, NEW gone, starting' = starting \ gone, reloading = {}, build' = None,
         status' \in [Aggs -> Phase],
         \A x \in Aggs : /\ status'[x] = "unborn" <=> status[x] = "unborn"
                         /\ x # Current /\ x \notin starting \cap gone => status'[x] = status[x],
         made' = made, holder' = holder, reloading' = reloading, swapping' = swapping
  PROVE  NameShape' /\ HolderShape'
<1> USE DEF HostInv
<1>1. NameShape'
  BY SMT DEF NameShape, TypeOK
<1>2. \A op \in swapping : /\ op.next \in Aggs /\ op.next # Current /\ op.next \notin starting
                           /\ op.into \in Aggs
  BY SwapFields, CurrentFacts, NoneFacts, SMT DEF HolderShape, CallShape, TypeOK
<1>3. HolderShape'
  BY <1>2, SMT DEF HolderShape
<1> QED BY <1>1, <1>3

LEMMA StartBindsInv ==
  ASSUME Serialized, HostInv, NEW s \in Aggs, StartBinds(s)
  PROVE  HostInv'
<1> USE DEF HostInv, StartBinds, buildVars
<1>0. /\ status' \in [Aggs -> Phase] /\ status'[s] = IF status[s] = "closed" THEN "closed" ELSE "live"
      /\ \A x \in Aggs \ {s} : status'[x] = status[x]
  BY PhaseFacts
<1>b. started' \in BOOLEAN /\ stopping' \in BOOLEAN
  BY Zenon DEF TypeOK
<1>1. TypeOK'
  BY <1>0, <1>b, SMTT(60) DEF TypeOK, Phase, Aggs
<1>2. NameShape'
  BY <1>0, SMT DEF NameShape, TypeOK, Aggs, None
<1>3. HolderShape'
  <2>1. \A op \in swapping : op.next \in Aggs /\ op.next # s
    BY SwapFields, SMT DEF HolderShape, CallShape
  <2>2. reloading = {}
    BY SMT DEF CallShape
  <2> QED BY <1>0, <2>1, <2>2, SMT DEF HolderShape
<1>4. CallShape'
  BY <1>0, SMT DEF CallShape, TypeOK, NameShape, Aggs, None
<1>5. OpenShape'
  BY <1>0, SMT DEF OpenShape, CallShape, HolderShape, TypeOK, Open, Current
<1> QED BY <1>1, <1>2, <1>3, <1>4, <1>5

LEMMA StartFailsInv ==
  ASSUME Serialized, HostInv, NEW s \in Aggs, StartFails(s)
  PROVE  HostInv'
<1> USE DEF HostInv, StartFails, watchVars
<1>0. /\ status' \in [Aggs -> Phase]
      /\ \A x \in Aggs : status'[x] = IF x = Current THEN "closed"
                                      ELSE IF x = s /\ status[s] # "closed" THEN "live" ELSE status[x]
  BY PhaseFacts, ClosingFacts, SMT
<1>a. reloading = {} /\ starting = {s}
  BY SMT DEF CallShape
<1>b. started' \in BOOLEAN /\ stopping' \in BOOLEAN
  BY Zenon DEF TypeOK
<1>c. \A x \in Aggs : /\ status'[x] = "unborn" <=> status[x] = "unborn"
                      /\ x # Current /\ x \notin starting \cap {s} => status'[x] = status[x]
  BY <1>0, CurrentFacts, NoneFacts, SMT DEF CallShape, NameShape, TypeOK
<1>1. TypeOK'
  BY <1>0, <1>b, SMTT(60) DEF TypeOK, Phase, Aggs
<1>2. NameShape' /\ HolderShape'
  BY <1>0, <1>a, <1>c, DropFacts
<1>3. CallShape'
  BY <1>0, <1>a, SMT DEF CallShape, TypeOK, None, Aggs
<1>4. OpenShape'
  BY FS_EmptySet DEF OpenShape
<1> QED BY <1>1, <1>2, <1>3, <1>4

LEMMA StopIdleInv ==
  ASSUME Serialized, HostInv, StopIdle
  PROVE  HostInv'
<1> USE DEF HostInv, StopIdle, hostVars, watchVars, opVars
<1>0. status' \in [Aggs -> Phase] /\ \A x \in Aggs : status'[x] = IF x = Current THEN "closed" ELSE status[x]
  BY PhaseFacts, ClosingFacts
<1>a. reloading = {} /\ starting' = starting \ {}
  BY MayFacts
<1>b. started' \in BOOLEAN /\ stopping' \in BOOLEAN
  BY Zenon DEF TypeOK
<1>c. \A x \in Aggs : status'[x] = "unborn" <=> status[x] = "unborn"
  BY <1>0, CurrentFacts, NoneFacts, SMT DEF NameShape, TypeOK
<1>1. TypeOK'
  BY <1>0, <1>b, SMT DEF TypeOK, Phase, Aggs
<1>2. NameShape' /\ HolderShape'
  BY <1>0, <1>a, <1>c, DropFacts
<1>3. CallShape'
  BY <1>0, <1>a, CurrentFacts, NoneFacts, SMT DEF CallShape, TypeOK
<1>4. OpenShape'
  BY FS_EmptySet DEF OpenShape
<1> QED BY <1>1, <1>2, <1>3, <1>4

LEMMA StopDoneInv ==
  ASSUME Serialized, HostInv, StopDone
  PROVE  HostInv'
<1> USE DEF HostInv, StopDone, watchVars
<1>0. status' \in [Aggs -> Phase] /\ \A x \in Aggs : status'[x] = IF x = Current THEN "closed" ELSE status[x]
  BY PhaseFacts, ClosingFacts
<1>a. reloading = {} /\ starting = {} /\ starting' = starting \ {}
  BY SMT DEF CallShape, TypeOK
<1>b. started' \in BOOLEAN /\ stopping' \in BOOLEAN
  BY Zenon DEF TypeOK
<1>c. \A x \in Aggs : status'[x] = "unborn" <=> status[x] = "unborn"
  BY <1>0, CurrentFacts, NoneFacts, SMT DEF NameShape, TypeOK
<1>1. TypeOK'
  <2>1. ending' \in 0..MaxStops
    BY SMT DEF TypeOK
  <2>2. sockets' \in SUBSET Aggs /\ server' \in Aggs \cup {None} /\ listeners' \in SUBSET Listeners
    BY SMT DEF TypeOK
  <2> QED BY <1>0, <1>b, <2>1, <2>2, Zenon DEF TypeOK, Phase
<1>2. NameShape' /\ HolderShape'
  BY <1>0, <1>a, <1>c, DropFacts
<1>3. CallShape'
  BY <1>0, <1>a, SMT DEF CallShape, TypeOK, None, Aggs
<1>4. OpenShape'
  BY FS_EmptySet DEF OpenShape
<1> QED BY <1>1, <1>2, <1>3, <1>4

LEMMA StopInv ==
  ASSUME Serialized, HostInv, Stop
  PROVE  HostInv'
<1> USE DEF HostInv, Stop, Disarm, buildVars
<1>0. reloading = {} /\ "stop" \in Calls /\ started
  BY MayFacts, Zenon DEF CallShape
<1>1. TypeOK'
  <2>1. refs' \in [Aggs -> Nat]
    <3>1. Cardinality(listeners) \in Nat
      BY FS_CardinalityType DEF OpenShape
    <3>2. \A n \in Nat : Released(n) \in Nat
      BY <3>1, SMT DEF Released
    <3> QED BY <3>2, CurrentFacts, SMT DEF TypeOK
  <2>2. started' \in BOOLEAN /\ stopping' \in BOOLEAN
    BY Zenon DEF TypeOK
  <2>3. ending' \in 0..MaxStops
    BY SMT DEF TypeOK
  <2>4. armed' \in SUBSET Aggs /\ changed' \in SUBSET armed' /\ timer' \in SUBSET armed'
    BY SMT DEF TypeOK
  <2> QED BY <2>1, <2>2, <2>3, <2>4, SMT DEF TypeOK
<1>2. NameShape'
  BY DEF NameShape
<1>3. HolderShape'
  BY DEF HolderShape
<1>4. CallShape'
  <2>1. starting = {} /\ armed' = {} /\ ending' > 0
    BY SMT DEF CallShape, TypeOK
  <2> QED BY <1>0, <2>1, SMT DEF CallShape
<1>5. OpenShape'
  BY <1>0, FS_EmptySet, SMT DEF OpenShape, Open, Current
<1> QED BY <1>1, <1>2, <1>3, <1>4, <1>5

LEMMA EditInv ==
  ASSUME HostInv, Edit
  PROVE  HostInv'
<1> USE DEF HostInv, Edit, aggVars, buildVars, hostVars, opVars
<1>1. TypeOK'
  BY SMT DEF TypeOK
<1>2. NameShape' /\ HolderShape' /\ CallShape'
  BY DEF NameShape, HolderShape, CallShape
<1>3. OpenShape'
  BY DEF OpenShape, Open, Current
<1> QED BY <1>1, <1>2, <1>3

LEMMA NoticeInv ==
  ASSUME HostInv, NEW w \in Aggs, Notice(w)
  PROVE  HostInv'
<1> USE DEF HostInv, Notice, aggVars, buildVars, hostVars, opVars
<1>1. TypeOK'
  BY SMT DEF TypeOK
<1>2. NameShape' /\ HolderShape' /\ CallShape'
  BY DEF NameShape, HolderShape, CallShape
<1>3. OpenShape'
  BY DEF OpenShape, Open, Current
<1> QED BY <1>1, <1>2, <1>3

LEMMA FiresInVainInv ==
  ASSUME HostInv, NEW w \in Aggs, FiresInVain(w)
  PROVE  HostInv'
<1> USE DEF HostInv, FiresInVain, aggVars, buildVars, hostVars, opVars
<1>1. TypeOK'
  BY SMT DEF TypeOK
<1>2. NameShape' /\ HolderShape' /\ CallShape'
  BY DEF NameShape, HolderShape, CallShape
<1>3. OpenShape'
  BY DEF OpenShape, Open, Current
<1> QED BY <1>1, <1>2, <1>3

LEMMA CarriedFacts ==
  ASSUME HostInv
  PROVE  /\ Carried \in Nat
         /\ build = None => Carried = 0
         /\ build # None => Carried = refs[Current]
<1>1. CASE build = None
  BY <1>1, CurrentFacts DEF Carried
<1>2. CASE build # None
  <2>1. Current \in Aggs /\ Current # None
    BY <1>2, CurrentFacts, NoneFacts
  <2> QED BY <1>2, <2>1 DEF Carried, HostInv, TypeOK
<1> QED BY <1>1, <1>2

(* A new aggregator is nobody's yet, and starts with the subscriptions of  *)
(* the one that serves.                                                    *)
Constructed(a) ==
  /\ a = made + 1 /\ made' = a /\ a # None
  /\ status' \in [Aggs -> Phase] /\ status'[a] = "connecting"
  /\ conf' \in [Aggs -> 0..MaxEdits] /\ refs' \in [Aggs -> Nat] /\ refs'[a] = Carried
  /\ made' \in 0..(MaxBuilds + MaxEdits)
  /\ \A b \in Aggs \ {a} : status'[b] = status[b] /\ refs'[b] = refs[b]
  /\ holder[a] = None /\ a # build /\ a \notin starting \cup reloading
  /\ \A b \in Aggs : holder[b] # a
  /\ \A op \in swapping : op.next # a /\ op.into # a
  /\ Current # a
  /\ \A x \in Aggs : status'[x] = "unborn" <=> x > made'
  /\ \A x \in Aggs \cup {None} : x <= made => x <= made'
  /\ \A x \in Aggs : x > made' => x > made /\ x # a

LEMMA ConstructFacts ==
  ASSUME HostInv, NEW a \in Aggs, Construct(a, Carried)
  PROVE  Constructed(a)
<1> USE DEF HostInv, Construct
<1>1. Carried \in Nat
  BY CarriedFacts
<1>2. /\ a = made + 1 /\ made' = a /\ a # None
      /\ status' \in [Aggs -> Phase] /\ status'[a] = "connecting"
      /\ conf' \in [Aggs -> 0..MaxEdits] /\ refs' \in [Aggs -> Nat] /\ refs'[a] = Carried
      /\ \A b \in Aggs \ {a} : status'[b] = status[b] /\ refs'[b] = refs[b]
  BY <1>1, NoneFacts, SMT DEF TypeOK, Phase
<1>3. made' \in 0..(MaxBuilds + MaxEdits) /\ a > made
  BY <1>2, SMT DEF TypeOK, Aggs
<1>4. holder[a] = None /\ \A b \in Aggs : holder[b] # a
  BY <1>3, SMT DEF NameShape, TypeOK, Aggs
<1>5. a # build /\ a \notin starting \cup reloading
  BY <1>3, <1>4, SMT DEF NameShape, TypeOK, Aggs
<1>6. Current # a
  BY <1>4, CurrentFacts, <1>2
<1>7. ASSUME NEW op \in swapping PROVE op.next # a /\ op.into # a
  <2>1. op.next \in Aggs /\ op.next <= made /\ holder[op.into] # None
    BY SwapFields DEF NameShape, HolderShape
  <2>2. op.next # a
    BY <1>3, <2>1, SMT DEF TypeOK, Aggs
  <2> QED BY <1>4, <2>1, <2>2
<1>8. /\ \A x \in Aggs : status'[x] = "unborn" <=> x > made'
      /\ \A x \in Aggs \cup {None} : x <= made => x <= made'
      /\ \A x \in Aggs : x > made' => x > made /\ x # a
  <2>1. a \in Int /\ made \in Int /\ Aggs \subseteq Int
    BY SMT DEF TypeOK, Aggs
  <2>2. \A x \in Aggs : status[x] = "unborn" <=> x > made
    BY DEF NameShape
  <2> QED BY <1>2, <2>1, <2>2, SMT DEF None
<1> QED BY <1>2, <1>3, <1>4, <1>5, <1>6, <1>7, <1>8 DEF Constructed

LEMMA ReloadInv ==
  ASSUME Serialized, HostInv, Reload
  PROVE  HostInv'
<1> PICK a \in Aggs : /\ Construct(a, Carried) /\ holder' = [holder EXCEPT ![a] = a]
                      /\ reloading' = reloading \cup {a}
  BY DEF Reload
<1> USE DEF HostInv, hostVars, watchVars, Constructed
<1>0. /\ starting = {} /\ ending = 0 /\ "reload" \in Calls
      /\ UNCHANGED <<config, build, hostVars, watchVars, starting, swapping, ending, listeners>>
  BY MayFacts DEF Reload
<1>a. Constructed(a)
  BY ConstructFacts
<1>b. holder' \in [Aggs -> Aggs \cup {None}] /\ holder'[a] = a /\ \A b \in Aggs \ {a} : holder'[b] = holder[b]
  BY SMT DEF TypeOK
<1>c. Current' = Current /\ (build # None => Open(Current)')
  <2>1. CASE build = None
    BY <1>0, <2>1 DEF Current
  <2>2. CASE build # None
    <3>1. build' = build /\ build \in Aggs \ {a} /\ Current = holder[build]
      BY <1>0, <1>a, <2>2, CurrentFacts DEF Constructed
    <3>2. Current' = Current /\ Current \in Aggs \ {a} /\ Open(Current)
      BY <1>a, <1>b, <2>2, <3>1, CurrentFacts DEF Current
    <3>3. status'[Current] = status[Current]
      BY <1>a, <3>2
    <3> QED BY <3>2, <3>3 DEF Open
  <2> QED BY <2>1, <2>2
<1>1. TypeOK'
  BY <1>0, <1>a, <1>b, SMT DEF TypeOK, Phase
<1>2. NameShape'
  <2>1. \A op \in swapping : op.next <= made'
    BY <1>a, SwapFields DEF NameShape
  <2>2. \A x \in starting' \cup reloading' : x <= made'
    BY <1>0, <1>a, SMT DEF NameShape, TypeOK, Aggs
  <2>3. \A x \in Aggs : holder'[x] <= made' /\ (x > made' => holder'[x] = None)
    <3>1. \A x \in Aggs : holder[x] \in Aggs \cup {None} /\ holder[x] <= made
      BY DEF NameShape, TypeOK
    <3>2. a <= made' /\ ~(a > made')
      BY <1>a, SMT DEF Aggs
    <3>3. \A x \in Aggs \ {a} : holder'[x] <= made' /\ (x > made' => holder'[x] = None)
      <4> TAKE x \in Aggs \ {a}
      <4>1. holder'[x] = holder[x] /\ holder[x] <= made'
        BY <1>a, <1>b, <3>1
      <4>2. x > made' => holder[x] = None
        BY <1>a DEF NameShape
      <4> QED BY <4>1, <4>2
    <3> QED BY <1>b, <3>2, <3>3
  <2>4. build # None => holder'[build] # None /\ build <= made'
    BY <1>a, <1>b, CurrentFacts DEF NameShape
  <2> QED BY <1>0, <1>a, <2>1, <2>2, <2>3, <2>4 DEF NameShape
<1>3. HolderShape'
  <2>1. \A b, c \in Aggs : holder'[b] = holder'[c] /\ holder'[b] # None => b = c
    BY <1>a, <1>b DEF HolderShape
  <2>2. ASSUME NEW op \in swapping
        PROVE  /\ holder'[op.into] # None /\ status'[op.next] = "connecting"
               /\ op.into \notin starting' \cup reloading'
               /\ \A b \in Aggs : holder'[b] # op.next
    <3>1. op.next # a /\ op.next \in Aggs /\ op.into # a /\ op.into \in Aggs
      BY <1>a, SwapFields
    <3>2. /\ holder[op.into] # None /\ status[op.next] = "connecting"
          /\ op.into \notin starting \cup reloading
          /\ \A b \in Aggs : holder[b] # op.next
      BY DEF HolderShape
    <3>3. \A b \in Aggs : holder'[b] # op.next
      BY <1>b, <3>1, <3>2
    <3>4. holder'[op.into] # None /\ status'[op.next] = "connecting"
      BY <1>a, <1>b, <3>1, <3>2
    <3> QED BY <1>0, <3>1, <3>2, <3>3, <3>4
  <2>3. \A op, oq \in swapping : op.next = oq.next => op = oq
    BY DEF HolderShape
  <2>4. \A x \in reloading' : holder'[x] = x /\ x # build' /\ status'[x] = "connecting"
    BY <1>0, <1>a, <1>b, SMT DEF HolderShape, TypeOK
  <2> QED BY <1>0, <2>1, <2>2, <2>3, <2>4 DEF HolderShape
<1>4. CallShape'
  BY <1>0, <1>a, SMT DEF CallShape
<1>5. OpenShape'
  BY <1>0, <1>c DEF OpenShape
<1> QED BY <1>1, <1>2, <1>3, <1>4, <1>5

LEMMA FiresInv ==
  ASSUME HostInv, NEW w \in Aggs, Fires(w)
  PROVE  HostInv'
<1> PICK a \in Aggs : /\ Construct(a, Carried)
                      /\ swapping' = swapping \cup {[next |-> a, into |-> build, by |-> w]}
  BY DEF Fires
<1> DEFINE new == [next |-> a, into |-> build, by |-> w]
<1> USE DEF HostInv, hostVars, buildVars, Constructed
<1>0. /\ timer' = timer \ {w} /\ w \in armed /\ build # None
      /\ UNCHANGED <<config, buildVars, hostVars, watch, armed, changed, starting, reloading, ending, listeners>>
  BY DEF Fires, TypeOK
<1>a. Constructed(a)
  BY ConstructFacts
<1>b. started /\ ~stopping /\ ending = 0 /\ starting = {}
  BY <1>0, SMT DEF CallShape, TypeOK
<1>c. Current' = Current /\ Current \in Aggs /\ Carried = refs[Current] /\ Open(Current)'
  BY <1>0, <1>a, CurrentFacts, CarriedFacts DEF Current, Open
<1>d. new.next = a /\ new.into = build /\ new \in Swap
  BY <1>0, CurrentFacts DEF Swap
<1> HIDE DEF new
<1>1. TypeOK'
  <2>1. swapping' \in SUBSET Swap
    BY <1>d DEF TypeOK, new
  <2> QED BY <1>0, <1>a, <2>1, SMT DEF TypeOK, Phase
<1>2. NameShape'
  <2>1. \A op \in swapping' : op.next <= made'
    <3>1. \A op \in swapping : op.next <= made'
      BY <1>a, SwapFields DEF NameShape
    <3>2. new.next <= made'
      BY <1>a, <1>d, SMT DEF Aggs
    <3> QED BY <3>1, <3>2 DEF new
  <2>2. \A x \in starting' \cup reloading' : x <= made'
    BY <1>0, <1>a DEF NameShape, TypeOK
  <2>3. \A x \in Aggs : holder'[x] <= made' /\ (x > made' => holder'[x] = None)
    <3>1. \A x \in Aggs : holder[x] \in Aggs \cup {None} /\ holder[x] <= made
      BY DEF NameShape, TypeOK
    <3> QED BY <1>0, <1>a, <3>1 DEF NameShape
  <2>4. build # None => holder'[build] # None /\ build <= made'
    BY <1>0, <1>a, CurrentFacts DEF NameShape
  <2> QED BY <1>0, <1>a, <2>1, <2>2, <2>3, <2>4 DEF NameShape
<1>3. HolderShape'
  <2>1. ASSUME NEW op \in swapping'
        PROVE  /\ holder'[op.into] # None /\ status'[op.next] = "connecting"
               /\ op.into \notin starting' \cup reloading'
               /\ \A b \in Aggs : holder'[b] # op.next
    <3>1. CASE op = new
      BY <1>0, <1>a, <1>b, <1>d, <3>1 DEF HolderShape, NameShape
    <3>2. CASE op \in swapping
      <4>1. op.next # a /\ op.next \in Aggs
        BY <1>a, <3>2, SwapFields
      <4>2. /\ holder[op.into] # None /\ status[op.next] = "connecting"
            /\ op.into \notin starting \cup reloading
            /\ \A b \in Aggs : holder[b] # op.next
        BY <3>2 DEF HolderShape
      <4> QED BY <1>0, <1>a, <4>1, <4>2
    <3> QED BY <3>1, <3>2 DEF new
  <2>2. \A op, oq \in swapping' : op.next = oq.next => op = oq
    BY <1>a, <1>d DEF HolderShape, new
  <2>3. \A x \in reloading' : holder'[x] = x /\ x # build' /\ status'[x] = "connecting"
    BY <1>0, <1>a, SMT DEF HolderShape, TypeOK
  <2> QED BY <1>0, <2>1, <2>2, <2>3 DEF HolderShape
<1>4. CallShape'
  BY <1>0, <1>b, SMT DEF CallShape
<1>5. OpenShape'
  BY <1>0, <1>c DEF OpenShape
<1> QED BY <1>1, <1>2, <1>3, <1>4, <1>5

LEMMA ReloadDoneInv ==
  ASSUME HostInv, NEW a \in Aggs, ReloadDone(a)
  PROVE  HostInv'
<1> USE DEF HostInv, hostVars, watchVars
<1>0. /\ a \in reloading /\ reloading' = reloading \ {a} /\ build' = a
      /\ UNCHANGED <<config, made, conf, refs, holder, hostVars, watchVars, starting, swapping, ending, listeners>>
  BY DEF ReloadDone
<1>a. /\ ending = 0 /\ starting = {} /\ holder[a] = a /\ a # build
      /\ status[a] = "connecting" /\ a # None
  BY <1>0, NoneFacts, SMT DEF CallShape, HolderShape
<1>b. a # Current /\ \A x \in reloading : x # Current
  BY <1>a, CurrentFacts, NoneFacts DEF HolderShape, TypeOK
<1>c. \A op \in swapping : /\ op.next \in Aggs /\ op.into \in Aggs /\ op.next # a /\ op.next # Current
                           /\ op.into # a
  <2> TAKE op \in swapping
  <2>1. op.next \in Aggs /\ op.into \in Aggs /\ \A b \in Aggs : holder[b] # op.next
    BY SwapFields DEF HolderShape
  <2>2. op.into # a
    BY <1>0 DEF HolderShape
  <2> QED BY <1>a, <2>1, <2>2, CurrentFacts, NoneFacts
<1>d. /\ status' \in [Aggs -> Phase]
      /\ \A x \in Aggs : status'[x] = IF x = Current THEN "closed" ELSE IF x = a THEN "live" ELSE status[x]
  BY <1>a, PhaseFacts, ClosingFacts, SMT DEF ReloadDone
<1>e. Current' = a /\ Open(Current)'
  BY <1>0, <1>a, <1>b, <1>d DEF Current, Open
<1>1. TypeOK'
  BY <1>0, <1>d, SMT DEF TypeOK, Phase
<1>2. NameShape'
  <2>1. \A x \in Aggs : status'[x] = "unborn" <=> status[x] = "unborn"
    BY <1>a, <1>d, CurrentFacts, NoneFacts, SMT DEF NameShape, TypeOK
  <2> QED BY <1>0, <1>a, <2>1 DEF NameShape
<1>3. HolderShape'
  <2>1. \A op \in swapping : /\ holder'[op.into] # None /\ status'[op.next] = "connecting"
                             /\ op.into \notin starting' \cup reloading'
                             /\ \A b \in Aggs : holder'[b] # op.next
    BY <1>0, <1>c, <1>d DEF HolderShape
  <2>2. \A x \in reloading' : holder'[x] = x /\ x # build' /\ status'[x] = "connecting"
    BY <1>0, <1>b, <1>d, SMT DEF HolderShape, TypeOK
  <2> QED BY <1>0, <2>1, <2>2 DEF HolderShape
<1>4. CallShape'
  BY <1>0, <1>a, SMT DEF CallShape
<1>5. OpenShape'
  BY <1>0, <1>e DEF OpenShape
<1> QED BY <1>1, <1>2, <1>3, <1>4, <1>5

LEMMA SwapDoneInv ==
  ASSUME HostInv, NEW op \in swapping, SwapDone(op)
  PROVE  HostInv'
<1> USE DEF HostInv, hostVars, watchVars
<1>0. /\ swapping' = swapping \ {op}
      /\ UNCHANGED <<config, made, conf, refs, build, hostVars, watchVars, starting, reloading, ending, listeners>>
  BY DEF SwapDone
<1>a. /\ op.next \in Aggs /\ op.into \in Aggs /\ op.next # None
      /\ holder[op.into] # None /\ holder[op.into] \in Aggs /\ status[op.next] = "connecting"
      /\ op.into \notin starting \cup reloading
      /\ \A b \in Aggs : holder[b] # op.next
  BY SwapFields, NoneFacts DEF HolderShape, TypeOK
<1>b. /\ holder' \in [Aggs -> Aggs \cup {None}] /\ holder'[op.into] = op.next
      /\ \A b \in Aggs \ {op.into} : holder'[b] = holder[b]
  BY <1>a, SMT DEF SwapDone, TypeOK
<1>c. \A oq \in swapping \ {op} : /\ oq.next \in Aggs /\ oq.into \in Aggs /\ oq.next # op.next
                                   /\ oq.next # holder[op.into]
  BY <1>a, SwapFields DEF HolderShape
<1>d. /\ status' \in [Aggs -> Phase]
      /\ \A x \in Aggs : status'[x] = IF x = holder[op.into] THEN "closed"
                                      ELSE IF x = op.next THEN "live" ELSE status[x]
  BY <1>a, PhaseFacts, ClosingFacts, SMT DEF SwapDone
<1>e. build # None => Open(Current)'
  <2>1. CASE build = op.into
    BY <1>0, <1>a, <1>b, <1>d, <2>1, NoneFacts DEF Current, Open
  <2>2. CASE build # None /\ build # op.into
    <3>1. Current # op.next /\ Current # holder[op.into] /\ Current' = Current
      BY <1>0, <1>a, <1>b, <2>2, CurrentFacts, NoneFacts DEF HolderShape, Current
    <3> QED BY <1>d, <2>2, <3>1, CurrentFacts DEF Open
  <2> QED BY <2>1, <2>2
<1>1. TypeOK'
  BY <1>0, <1>b, <1>d, SMT DEF TypeOK, Phase
<1>2. NameShape'
  <2>1. \A x \in Aggs : status'[x] = "unborn" <=> status[x] = "unborn"
    <3>1. status[holder[op.into]] # "unborn"
      BY <1>a, NoneFacts, SMT DEF NameShape, TypeOK
    <3> QED BY <1>a, <1>d, <3>1
  <2>2. \A x \in Aggs : holder'[x] <= made' /\ (x > made' => holder'[x] = None)
    BY <1>0, <1>a, <1>b DEF NameShape
  <2>3. build # None => holder'[build] # None
    BY <1>a, <1>b, CurrentFacts DEF NameShape
  <2> QED BY <1>0, <2>1, <2>2, <2>3 DEF NameShape
<1>3. HolderShape'
  <2>1. \A b, c \in Aggs : holder'[b] = holder'[c] /\ holder'[b] # None => b = c
    BY <1>a, <1>b DEF HolderShape
  <2>2. ASSUME NEW oq \in swapping'
        PROVE  /\ holder'[oq.into] # None /\ status'[oq.next] = "connecting"
               /\ oq.into \notin starting' \cup reloading'
               /\ \A b \in Aggs : holder'[b] # oq.next
    <3>1. /\ oq \in swapping \ {op} /\ holder[oq.into] # None /\ status[oq.next] = "connecting"
          /\ oq.into \notin starting \cup reloading
          /\ \A b \in Aggs : holder[b] # oq.next
      BY <1>0 DEF HolderShape
    <3>2. status'[oq.next] = "connecting"
      BY <1>c, <1>d, <3>1
    <3>3. holder'[oq.into] # None /\ \A b \in Aggs : holder'[b] # oq.next
      BY <1>a, <1>b, <1>c, <3>1
    <3> QED BY <1>0, <3>1, <3>2, <3>3
  <2>3. \A x \in reloading' : holder'[x] = x /\ x # build' /\ status'[x] = "connecting"
    <3> TAKE x \in reloading'
    <3>1. x \in Aggs /\ x \in reloading /\ holder[x] = x /\ x # build /\ status[x] = "connecting" /\ x # None
      BY <1>0, NoneFacts, SMT DEF HolderShape, TypeOK
    <3>2. x # op.into /\ x # op.next /\ x # holder[op.into]
      BY <1>a, <3>1 DEF HolderShape
    <3> QED BY <1>0, <1>b, <1>d, <3>1, <3>2
  <2> QED BY <1>0, <2>1, <2>2, <2>3 DEF HolderShape
<1>4. CallShape'
  <2>1. ASSUME NEW s \in starting, build = s, holder[s] = s, status[s] = "connecting"
        PROVE  holder'[s] = s /\ status'[s] = "connecting"
    <3>1. s \in Aggs /\ s # op.into /\ s # op.next /\ s # None
      BY <1>a, <2>1, NoneFacts, SMT DEF TypeOK
    <3>2. s # holder[op.into]
      BY <1>a, <2>1, <3>1 DEF HolderShape
    <3> QED BY <1>b, <1>d, <2>1, <3>1, <3>2
  <2>2. ASSUME NEW s \in starting, status[s] = "closed"
        PROVE  status'[s] = "closed"
    BY <1>a, <1>d, <2>2, SMT DEF TypeOK
  <2> QED BY <1>0, <2>1, <2>2 DEF CallShape
<1>5. OpenShape'
  BY <1>0, <1>e DEF OpenShape
<1> QED BY <1>1, <1>2, <1>3, <1>4, <1>5

LEMMA ListenInv ==
  ASSUME HostInv, NEW l \in Listeners, Listen(l)
  PROVE  HostInv'
<1> USE DEF HostInv, buildVars, hostVars, watchVars, opVars
<1>0. /\ sockets # {} /\ Current # None /\ l \notin listeners
      /\ listeners' = listeners \cup {l} /\ refs' = [refs EXCEPT ![Current] = @ + 1]
      /\ UNCHANGED <<config, made, status, conf, buildVars, hostVars, watchVars, opVars>>
  BY DEF Listen
<1>a. build # None /\ Current \in Aggs /\ Current' = Current /\ started
  BY <1>0, CurrentFacts DEF CallShape, Current
<1>b. /\ IsFiniteSet(listeners') /\ Cardinality(listeners') = Cardinality(listeners) + 1
  BY <1>0, FS_AddElement DEF OpenShape
<1>c. refs' \in [Aggs -> Nat] /\ refs'[Current] = refs[Current] + 1
  BY <1>0, <1>a, SMT DEF TypeOK
<1>1. TypeOK'
  BY <1>0, <1>c, SMT DEF TypeOK
<1>2. NameShape' /\ HolderShape'
  BY <1>0 DEF NameShape, HolderShape
<1>3. CallShape'
  BY <1>0, <1>a DEF CallShape
<1>4. OpenShape'
  BY <1>0, <1>a, <1>b DEF OpenShape, Open
<1> QED BY <1>1, <1>2, <1>3, <1>4

LEMMA UnlistenInv ==
  ASSUME HostInv, NEW l \in Listeners, Unlisten(l)
  PROVE  HostInv'
<1> USE DEF HostInv, buildVars, hostVars, watchVars, opVars
<1>0. /\ l \in listeners /\ listeners' = listeners \ {l}
      /\ refs' = IF Current = None \/ Carried = 0 THEN refs ELSE [refs EXCEPT ![Current] = @ - 1]
      /\ UNCHANGED <<config, made, status, conf, buildVars, hostVars, watchVars, opVars>>
  BY DEF Unlisten
<1>a. started /\ build # None /\ Current \in Aggs /\ Current' = Current /\ Carried = refs[Current] /\ Current # None
  BY <1>0, CurrentFacts, CarriedFacts, NoneFacts DEF CallShape, Current
<1>b. /\ IsFiniteSet(listeners') /\ Cardinality(listeners') = Cardinality(listeners) - 1
      /\ Cardinality(listeners) \in Nat \ {0}
  BY <1>0, FS_RemoveElement, FS_EmptySet, FS_CardinalityType, SMT DEF OpenShape
<1>c. refs' \in [Aggs -> Nat] /\ (refs[Current] > 0 => refs'[Current] = refs[Current] - 1)
  BY <1>0, <1>a, SMT DEF TypeOK
<1>1. TypeOK'
  BY <1>0, <1>c, SMT DEF TypeOK
<1>2. NameShape' /\ HolderShape'
  BY <1>0 DEF NameShape, HolderShape
<1>3. CallShape'
  BY <1>0, <1>a DEF CallShape
<1>4. OpenShape'
  BY <1>0, <1>a, <1>b DEF OpenShape, Open
<1> QED BY <1>1, <1>2, <1>3, <1>4

LEMMA NextInv ==
  ASSUME Serialized, HostInv, [Next]_vars
  PROVE  HostInv'
<1>1. CASE Start \/ StopIdle \/ Stop \/ StopDone \/ Reload \/ Edit
  BY <1>1, StartInv, StopIdleInv, StopInv, StopDoneInv, ReloadInv, EditInv
<1>2. ASSUME NEW a \in Aggs, StartBinds(a) \/ StartFails(a) \/ ReloadDone(a) \/ Watched(a)
      PROVE  HostInv'
  BY <1>2, StartBindsInv, StartFailsInv, ReloadDoneInv, NoticeInv, FiresInv, FiresInVainInv DEF Watched
<1>3. CASE \E op \in swapping : SwapDone(op)
  BY <1>3, SwapDoneInv
<1>4. ASSUME NEW l \in Listeners, Listen(l) \/ Unlisten(l)
      PROVE  HostInv'
  BY <1>4, ListenInv, UnlistenInv
<1>5. CASE UNCHANGED vars
  BY <1>5 DEF vars, aggVars, buildVars, hostVars, watchVars, opVars, HostInv, TypeOK, NameShape,
              HolderShape, CallShape, OpenShape, Current, Open
<1> QED BY <1>1, <1>2, <1>3, <1>4, <1>5 DEF Next

-----------------------------------------------------------------------------
(* What holds of the host.                                                 *)

(* The inductive invariant of the host, whatever the number of builds,     *)
(* edits, stops and streams (createHttpMcpServer, startConfigWatchers).    *)
THEOREM HostInvHolds == Serialized => (Spec => []HostInv)
<1> SUFFICES ASSUME Serialized PROVE Spec => []HostInv
  OBVIOUS
<1>1. HostInv /\ [Next]_vars => HostInv'
  BY NextInv
<1> QED BY InitHost, <1>1, PTL DEF Spec

(* A host that is up serves from an aggregator that was not closed, through *)
(* every reload, whoever calls it and whatever the streams do meanwhile    *)
(* (reload, reloadExpose: swap before close).                              *)
THEOREM ServesOpenAggregatorHolds == Serialized => (Spec => []ServesOpenAggregator)
<1> SUFFICES ASSUME Serialized PROVE Spec => []ServesOpenAggregator
  OBVIOUS
<1>1. HostInv => ServesOpenAggregator
  BY DEF HostInv, OpenShape, ServesOpenAggregator, Up
<1> QED BY HostInvHolds, <1>1, PTL

(* When the last pending stop() ends there is no socket, watcher or stream *)
(* left, and every aggregator the host held is closed, those apart that a  *)
(* watcher's reload has yet to swap in (stop, closeAll).                   *)
THEOREM StopLeavesNothingHolds == Serialized => (Spec => StopLeavesNothing)
<1> SUFFICES ASSUME Serialized PROVE Spec => StopLeavesNothing
  OBVIOUS
<1> DEFINE Nothing ==
      ending > 0 /\ ending' = 0 =>
       /\ sockets' = {} /\ armed' = {} /\ listeners' = {} /\ build' = None
       /\ \A a \in Aggs : Held(a) /\ Open(a)' => \E op \in swapping : op.next = a
<1>1. ASSUME HostInv, [Next]_vars PROVE Nothing
  <2> SUFFICES ASSUME ending > 0, ending' = 0 PROVE Nothing
    OBVIOUS
  <2>0. ending # ending'
    BY SMT DEF HostInv, TypeOK
  <2>1. StopDone
    BY <1>1, <2>0 DEF Next, vars, opVars, Start, StartBinds, StartFails, StopIdle, Reload, ReloadDone,
          Edit, Watched, Notice, Fires, FiresInVain, SwapDone, Listen, Unlisten, Stop, HostInv, TypeOK
  <2>2. starting = {} /\ reloading = {} /\ armed = {} /\ sockets \subseteq {server}
    BY <1>1, SMT DEF HostInv, CallShape
  <2>3. \A a \in Aggs : Held(a) /\ Open(a)' => \E op \in swapping : op.next = a
    <3> SUFFICES ASSUME NEW a \in Aggs, a = Current PROVE ~Open(a)'
      BY <2>2 DEF Held
    <3>1. status'[a] = "closed"
      BY <1>1, <2>1, PhaseFacts, ClosingFacts DEF StopDone, HostInv
    <3> QED BY <3>1 DEF Open
  <2> QED BY <2>1, <2>2, <2>3 DEF StopDone, watchVars
<1>2. HostInv /\ [Next]_vars => [Nothing]_vars
  BY <1>1
<1> QED BY HostInvHolds, <1>2, PTL DEF Spec, StopLeavesNothing

(* Every operation but two keeps hold of the aggregators it leaves open.   *)
Kept(a) == Open(a) => Held(a)

LEMMA StartKeeps ==
  ASSUME Serialized, HostInv, NEW a \in Aggs, Kept(a), Start, ~StartOver(a)
  PROVE  Kept(a)'
<1>1. PICK x \in Aggs : Construct(x, 0) /\ build' = x /\ starting' = starting \cup {x}
  BY DEF Start
<1>2. starting = {} /\ a # Current /\ reloading' = reloading /\ swapping' = swapping
  BY <1>1, MayFacts DEF HostInv, Start, StartOver
<1>3. CASE a = x
  BY <1>1, <1>3 DEF Kept, Held
<1>4. CASE a # x
  <2>1. status'[a] = status[a]
    BY <1>1, <1>4 DEF Construct, HostInv, TypeOK
  <2> QED BY <1>2, <2>1 DEF Kept, Held, Open
<1> QED BY <1>3, <1>4

LEMMA StartEndKeeps ==
  ASSUME Serialized, HostInv, NEW a \in Aggs, Kept(a), NEW s \in Aggs, StartBinds(s) \/ StartFails(s)
  PROVE  Kept(a)'
<1>1. starting = {s} /\ (a = s => status[s] = "closed" \/ a = Current)
  BY CurrentFacts, NoneFacts DEF HostInv, CallShape, StartBinds, StartFails
<1>2. reloading' = reloading /\ swapping' = swapping
  BY DEF StartBinds, StartFails
<1>3. CASE StartBinds(s)
  <2>1. status'[a] = (IF a = s /\ status[a] # "closed" THEN "live" ELSE status[a]) /\ Current' = Current
    BY <1>3, PhaseFacts DEF StartBinds, buildVars, Current, HostInv
  <2> QED BY <1>1, <1>2, <2>1 DEF Kept, Held, Open
<1>4. CASE StartFails(s)
  <2>1. status'[a] = IF a = Current THEN "closed"
                     ELSE IF a = s /\ status[a] # "closed" THEN "live" ELSE status[a]
    BY <1>4, PhaseFacts, ClosingFacts DEF StartFails, HostInv
  <2> QED BY <1>1, <1>2, <2>1 DEF Kept, Held, Open
<1> QED BY <1>3, <1>4

LEMMA StopKeeps ==
  ASSUME Serialized, HostInv, NEW a \in Aggs, Kept(a), StopIdle \/ Stop \/ StopDone
  PROVE  Kept(a)'
<1>1. starting' = starting /\ reloading' = reloading /\ swapping' = swapping
  BY DEF StopIdle, Stop, StopDone, opVars
<1>2. CASE Stop
  BY <1>1, <1>2 DEF Stop, buildVars, Kept, Held, Open, Current
<1>3. CASE StopIdle \/ StopDone
  <2>1. status'[a] = IF a = Current THEN "closed" ELSE status[a]
    BY <1>3, PhaseFacts, ClosingFacts DEF StopIdle, StopDone, HostInv
  <2> QED BY <1>1, <2>1 DEF Kept, Held, Open
<1> QED BY <1>2, <1>3

LEMMA ReloadKeeps ==
  ASSUME Serialized, HostInv, NEW a \in Aggs, Kept(a), Reload
  PROVE  Kept(a)'
<1>1. PICK x \in Aggs : /\ Construct(x, Carried) /\ holder' = [holder EXCEPT ![x] = x]
                        /\ reloading' = reloading \cup {x}
  BY DEF Reload
<1>2. build' = build /\ starting' = starting /\ swapping' = swapping
  BY DEF Reload
<1>3. CASE a = x
  BY <1>1, <1>3 DEF Kept, Held
<1>4. CASE a # x
  <2>1. status'[a] = status[a] /\ x # build
    BY <1>1, <1>4, ConstructFacts DEF Constructed
  <2>2. Current' = Current
    BY <1>1, <1>2, <2>1, CurrentFacts DEF Current, HostInv, TypeOK
  <2> QED BY <1>1, <1>2, <2>1, <2>2 DEF Kept, Held, Open
<1> QED BY <1>3, <1>4

LEMMA ReloadDoneKeeps ==
  ASSUME HostInv, NEW a \in Aggs, Kept(a), NEW x \in Aggs, ReloadDone(x)
  PROVE  Kept(a)'
<1>1. /\ reloading' = reloading \ {x} /\ build' = x /\ holder' = holder /\ holder[x] = x
      /\ starting' = starting /\ swapping' = swapping
  BY DEF ReloadDone, HostInv, HolderShape
<1>2. Current' = x
  BY <1>1, NoneFacts DEF Current
<1>3. a # x => status'[a] = IF a = Current THEN "closed" ELSE status[a]
  BY PhaseFacts, ClosingFacts DEF ReloadDone, HostInv
<1> QED BY <1>1, <1>2, <1>3 DEF Kept, Held, Open

LEMMA WatchKeeps ==
  ASSUME HostInv, NEW a \in Aggs, Kept(a), NEW w \in Aggs, Watched(w)
  PROVE  Kept(a)'
<1>1. CASE Notice(w) \/ FiresInVain(w)
  BY <1>1 DEF Notice, FiresInVain, aggVars, buildVars, opVars, Kept, Held, Open, Current
<1>2. CASE Fires(w)
  <2>1. PICK x \in Aggs : /\ Construct(x, Carried)
                          /\ swapping' = swapping \cup {[next |-> x, into |-> build, by |-> w]}
    BY <1>2 DEF Fires
  <2>2. starting' = starting /\ reloading' = reloading /\ Current' = Current
    BY <1>2 DEF Fires, buildVars, Current
  <2>3. CASE a = x
    <3>1. [next |-> x, into |-> build, by |-> w].next = x
      OBVIOUS
    <3> QED BY <2>1, <2>3, <3>1 DEF Kept, Held
  <2>4. CASE a # x
    BY <2>1, <2>2, <2>4, ConstructFacts DEF Constructed, Kept, Held, Open
  <2> QED BY <2>3, <2>4
<1> QED BY <1>1, <1>2 DEF Watched

LEMMA SwapKeeps ==
  ASSUME HostInv, NEW a \in Aggs, Kept(a), NEW op \in swapping, SwapDone(op),
         op.into = build \/ op.next # a
  PROVE  Kept(a)'
<1>1. /\ swapping' = swapping \ {op} /\ build' = build
      /\ starting' = starting /\ reloading' = reloading
  BY DEF SwapDone
<1>2. op.next \in Aggs /\ op.into \in Aggs
  BY SwapFields DEF HostInv
<1>3. holder'[op.into] = op.next /\ \A b \in Aggs \ {op.into} : holder'[b] = holder[b]
  BY <1>2 DEF SwapDone, HostInv, TypeOK
<1>4. a # op.next => status'[a] = IF a = holder[op.into] THEN "closed" ELSE status[a]
  BY <1>2, PhaseFacts, ClosingFacts DEF SwapDone, HostInv
<1>5. CASE op.into = build
  <2>1. Current' = op.next /\ Current = holder[op.into]
    BY <1>1, <1>2, <1>3, <1>5, NoneFacts DEF Current
  <2> QED BY <1>1, <1>4, <2>1 DEF Kept, Held, Open
<1>6. CASE op.into # build /\ op.next # a
  <2>1. Current' = Current
    BY <1>1, <1>3, <1>6, CurrentFacts DEF Current
  <2> QED BY <1>1, <1>4, <1>6, <2>1 DEF Kept, Held, Open
<1> QED BY <1>5, <1>6

LEMMA OthersKeep ==
  ASSUME HostInv, NEW a \in Aggs, Kept(a),
         Edit \/ (\E l \in Listeners : Listen(l) \/ Unlisten(l)) \/ UNCHANGED vars
  PROVE  Kept(a)'
<1>1. UNCHANGED <<status, buildVars, opVars>>
  BY DEF Edit, Listen, Unlisten, vars, aggVars
<1> QED BY <1>1 DEF Kept, Held, Open, Current, buildVars, opVars

LEMMA NextKeeps ==
  ASSUME Serialized, HostInv, [Next]_vars, NEW a \in Aggs, Kept(a),
         ~TornDownSwap(a), ~StartOver(a)
  PROVE  Kept(a)'
<1>1. ASSUME NEW x \in Aggs, StartBinds(x) \/ StartFails(x) \/ ReloadDone(x) \/ Watched(x)
      PROVE  Kept(a)'
  BY <1>1, StartEndKeeps, ReloadDoneKeeps, WatchKeeps
<1>2. ASSUME NEW op \in swapping, SwapDone(op) PROVE Kept(a)'
  <2>1. op.into = build \/ op.next # a
    BY <1>2 DEF SwapDone, TornDownSwap
  <2> QED BY <1>2, <2>1, SwapKeeps
<1>3. CASE Start \/ StopIdle \/ Stop \/ StopDone \/ Reload
  BY <1>3, StartKeeps, StopKeeps, ReloadKeeps
<1> QED BY <1>1, <1>2, <1>3, OthersKeep DEF Next

(* Every aggregator that is ever lost is lost in one of two steps: the end *)
(* of a watcher's reload that outlived its build (reloadExpose, the leak   *)
(* run HostTornDown shows), or a start() over the build that a reload()    *)
(* left on a host that was down.                                           *)
THEOREM LosesOnlyTheseTwoHolds == Serialized => (Spec => LosesOnlyTheseTwo)
<1> SUFFICES ASSUME Serialized PROVE Spec => LosesOnlyTheseTwo
  OBVIOUS
<1> DEFINE Loss == \A a \in Aggs : ~Lost(a) /\ Lost(a)' => TornDownSwap(a) \/ StartOver(a)
<1>1. ASSUME HostInv, [Next]_vars PROVE Loss
  BY <1>1, NextKeeps DEF Kept, Lost
<1>2. HostInv /\ [Next]_vars => [Loss]_vars
  BY <1>1
<1> QED BY HostInvHolds, <1>2, PTL DEF Spec, LosesOnlyTheseTwo

-----------------------------------------------------------------------------
(* No edit of expose.json is missed.                                       *)

(* The watchers that run are those of the start the host is up by.         *)
LEMMA TheWatch ==
  ASSUME HostInv, armed # {}
  PROVE  armed = {watch} /\ started /\ ~stopping /\ starting = {}
BY DEF HostInv, CallShape

LEMMA EditShapeInv ==
  ASSUME Serialized, ~EditsAnytime, "reload" \notin Calls, HostInv, EditShape, [Next]_vars
  PROVE  EditShape'
<1> USE DEF EditShape, aggVars, buildVars, hostVars, watchVars, opVars
<1>0. /\ conf \in [Aggs -> 0..MaxEdits] /\ holder \in [Aggs -> Aggs \cup {None}]
      /\ changed \subseteq armed /\ timer \subseteq armed
      /\ \A op \in swapping : op.next \in Aggs /\ op.into \in Aggs /\ op.by \in Aggs
  BY SwapFields DEF HostInv, TypeOK
<1>1. CASE Start
  <2>1. PICK x \in Aggs : Construct(x, 0) /\ starting' = starting \cup {x}
    BY <1>1 DEF Start
  <2>2. starting = {} /\ ~started
    BY <1>1, MayFacts DEF Start, HostInv
  <2>3. conf'[x] = config'
    BY <1>0, <1>1, <2>1 DEF Construct, Start
  <2> QED BY <1>1, <2>1, <2>2, <2>3 DEF Start, Up
<1>2. ASSUME NEW s \in Aggs, StartBinds(s) PROVE EditShape'
  <2>1. /\ starting = {s} /\ starting' = {}
        /\ build = None \/ (build = s /\ holder[s] = s)
        /\ \A op \in swapping : op.into # s
    BY <1>2 DEF StartBinds, HostInv, CallShape, HolderShape
  <2>2. Up' => build = s /\ Current' = s /\ conf'[s] = config'
    BY <1>2, <2>1 DEF StartBinds, Up, Current
  <2> QED BY <1>2, <2>1, <2>2 DEF StartBinds
<1>3. ASSUME NEW s \in Aggs, StartFails(s) PROVE EditShape'
  BY <1>3 DEF StartFails, Up
<1>4. CASE StopIdle \/ Stop \/ StopDone
  BY <1>4 DEF StopIdle, Stop, StopDone, Up
<1>5. ~Reload /\ \A a \in Aggs : ~ReloadDone(a)
  BY MayFacts DEF HostInv, CallShape, Reload, ReloadDone
<1>6. CASE Edit
  <2>1. armed = {watch} /\ starting = {}
    BY <1>6, TheWatch DEF Edit
  <2>2. Overdue(watch)'
    BY <1>6, <2>1 DEF Edit, Overdue
  <2> QED BY <1>6, <2>1, <2>2 DEF Edit, Up
<1>7. ASSUME NEW w \in Aggs, Watched(w) PROVE EditShape'
  <2>0. w = watch /\ started /\ ~stopping /\ starting = {}
    BY <1>0, <1>7, TheWatch DEF Watched, Notice, Fires, FiresInVain
  <2>1. CASE Notice(w)
    <3>1. Overdue(watch)' <=> Overdue(watch)
      BY <2>1 DEF Notice, Overdue
    <3> QED BY <2>1, <3>1 DEF Notice, Up, Current
  <2>2. ~Notice(w) => /\ \A op \in swapping : op.by # w
                      /\ Up => \A op \in swapping : op.into # build
    BY <1>7, <2>0 DEF Watched, Fires, FiresInVain, Busy
  <2>3. CASE Fires(w) /\ ~Notice(w)
    <3>1. PICK x \in Aggs : /\ Construct(x, Carried)
                            /\ swapping' = swapping \cup {[next |-> x, into |-> build, by |-> w]}
      BY <2>3 DEF Fires
    <3>2. conf'[x] = config'
      BY <1>0, <2>3, <3>1 DEF Construct, Fires
    <3>3. starting' = {} /\ UNCHANGED <<config, started, stopping, build, watch>>
      BY <2>0, <2>3 DEF Fires
    <3> DEFINE new == [next |-> x, into |-> build, by |-> w]
    <3>4. new.next = x /\ new.into = build /\ new.by = w /\ swapping' = swapping \cup {new}
      BY <3>1
    <3> HIDE DEF new
    <3>5. \A op, oq \in swapping' : op.by = oq.by => op = oq
      BY <2>2, <2>3, <3>4
    <3>6. Up' => \A op \in swapping' : op.into = build' => op = new
      BY <2>2, <2>3, <3>3, <3>4 DEF Up
    <3> QED BY <2>0, <3>2, <3>3, <3>4, <3>5, <3>6
  <2>4. CASE FiresInVain(w) /\ ~Notice(w)
    <3>1. Up => config \in Broken
      BY <2>4 DEF FiresInVain, Up
    <3> QED BY <2>0, <2>2, <2>4, <3>1 DEF FiresInVain, Up
  <2> QED BY <1>7, <2>1, <2>3, <2>4 DEF Watched
<1>8. ASSUME NEW op \in swapping, SwapDone(op) PROVE EditShape'
  <2>1. /\ holder' = [holder EXCEPT ![op.into] = op.next] /\ swapping' = swapping \ {op}
        /\ UNCHANGED <<config, conf, build, started, stopping, watch, changed, timer, starting>>
    BY <1>8 DEF SwapDone
  <2>2. CASE Up /\ op.into = build
    <3>1. \A oq \in swapping' : oq.into # build
      BY <2>1, <2>2
    <3>2. Current' = op.next
      BY <1>0, <2>1, <2>2 DEF Current, Up
    <3> QED BY <2>1, <2>2, <3>1, <3>2 DEF Up, Overdue
  <2>3. CASE op.into # build
    <3>1. Current' = Current
      BY <1>0, <2>1, <2>3 DEF Current
    <3> QED BY <2>1, <2>3, <3>1 DEF Up, Overdue
  <2>4. CASE ~Up
    BY <2>1, <2>4 DEF Up
  <2> QED BY <2>2, <2>3, <2>4
<1>9. CASE (\E l \in Listeners : Listen(l) \/ Unlisten(l)) \/ UNCHANGED vars
  <2>1. UNCHANGED <<config, conf, build, holder, started, stopping, watch, changed, timer,
                    starting, swapping>>
    BY <1>9 DEF Listen, Unlisten, vars
  <2> QED BY <2>1 DEF Up, Overdue, Current
<1> QED BY <1>1, <1>2, <1>3, <1>4, <1>5, <1>6, <1>7, <1>8, <1>9 DEF Next

(* While the host is up and no reload() is called, an edit of expose.json  *)
(* that parses is being served, is still to be reported by the watchers,   *)
(* or is in an aggregator on its way into the build: an edit in the middle *)
(* of a reload is not swallowed, a reload never ends up in another build   *)
(* than the one that serves (startConfigWatchers, reloadExpose).           *)
THEOREM EditsNotMissedHolds ==
  Serialized /\ ~EditsAnytime /\ "reload" \notin Calls => (Spec => []EditsNotMissed)
<1> SUFFICES ASSUME Serialized, ~EditsAnytime, "reload" \notin Calls
             PROVE  Spec => []EditsNotMissed
  OBVIOUS
<1>1. Init => HostInv /\ EditShape
  BY InitHost DEF Init, EditShape, Up
<1>2. HostInv /\ EditShape /\ [Next]_vars => (HostInv /\ EditShape)'
  BY NextInv, EditShapeInv
<1>3. EditShape => EditsNotMissed
  BY DEF EditShape, EditsNotMissed
<1> QED BY <1>1, <1>2, <1>3, PTL DEF Spec

-----------------------------------------------------------------------------
(* The requests leave the life cycle as it is: every step of HttpRequests  *)
(* is a step of HostLifecycle, or none.                                    *)
LEMMA RequestsStep ==
  ASSUME listeners \subseteq Listeners, [HttpNext]_allVars
  PROVE  [Next]_vars
<1>1. CASE Behind
  BY <1>1 DEF Behind, Next
<1>2. CASE StopHttp \/ StopHttpDone
  BY <1>2 DEF StopHttp, StopHttpDone, Next
<1>3. CASE ReloadHttpDone
  BY <1>3 DEF ReloadHttpDone, Next
<1>4. CASE Broadcast \/ EditAuth
  BY <1>4 DEF Broadcast, EditAuth
<1>5. ASSUME NEW c \in Conns, NEW k \in Kinds,
             Arrive(c, k) \/ \E f \in Clients : Forbid(c, k, f) \/ ArriveGated(c, k, f)
      PROVE  UNCHANGED vars
  BY <1>5 DEF Arrive, Forbid, ArriveGated, Arrival
<1>6. ASSUME NEW c \in Conns,
             Admit(c) \/ Deny(c) \/ Reject(c) \/ RefuseListen(c) \/ Hand(c) \/ Handled(c)
      PROVE  UNCHANGED vars
  BY <1>6 DEF Admit, Deny, Reject, RefuseListen, Hand, Handled
<1>7. ASSUME NEW c \in Conns, OpenListen(c) PROVE [Next]_vars
  BY <1>7 DEF OpenListen, Next
<1>8. ASSUME NEW c \in Conns, Leave(c) PROVE [Next]_vars
  BY <1>8 DEF Leave, Next
<1>9. CASE UNCHANGED allVars
  BY <1>9 DEF allVars
<1> QED BY <1>1, <1>2, <1>3, <1>4, <1>5, <1>6, <1>7, <1>8, <1>9 DEF HttpNext

LEMMA ListenersStay ==
  ASSUME listeners \subseteq Listeners, [Next]_vars
  PROVE  listeners' \subseteq Listeners
<1>1. CASE Stop \/ StopDone \/ \E l \in Listeners : Listen(l) \/ Unlisten(l)
  BY <1>1 DEF Stop, StopDone, Listen, Unlisten
<1>2. CASE Start \/ StopIdle \/ Reload \/ Edit \/ UNCHANGED vars
  BY <1>2 DEF Start, StopIdle, Reload, Edit, vars
<1>3. ASSUME NEW a \in Aggs, StartBinds(a) \/ StartFails(a) \/ ReloadDone(a) \/ Watched(a)
      PROVE  UNCHANGED listeners
  BY <1>3 DEF StartBinds, StartFails, ReloadDone, Watched, Notice, Fires, FiresInVain
<1>4. CASE \E op \in swapping : SwapDone(op)
  BY <1>4 DEF SwapDone
<1> QED BY <1>1, <1>2, <1>3, <1>4 DEF Next

(* The host with its requests implements the host without them, so all     *)
(* that is proved of the life cycle holds with requests in flight          *)
(* (onRequest, handleMcpPost, openListenStream).                           *)
THEOREM RequestsRefineHost == HttpSpec => Spec
<1>1. HttpInit => Init /\ listeners \subseteq Listeners
  BY DEF HttpInit, Init
<1>2. listeners \subseteq Listeners /\ [HttpNext]_allVars => (listeners \subseteq Listeners)' /\ [Next]_vars
  BY RequestsStep, ListenersStay
<1> QED BY <1>1, <1>2, PTL DEF HttpSpec, Spec

(* ... in particular what run HostCalls checks of it: with requests in     *)
(* flight, streams closed in the middle of them and their sockets destroyed *)
(* by stop, the host serves from an open aggregator, loses one in those two *)
(* steps only, and leaves nothing behind when it is stopped.               *)
THEOREM HostHoldsWithRequests ==
  Serialized => (HttpSpec => []ServesOpenAggregator /\ LosesOnlyTheseTwo /\ StopLeavesNothing)
<1> SUFFICES ASSUME Serialized
             PROVE  HttpSpec => []ServesOpenAggregator /\ LosesOnlyTheseTwo /\ StopLeavesNothing
  OBVIOUS
<1> QED BY RequestsRefineHost, ServesOpenAggregatorHolds, LosesOnlyTheseTwoHolds,
           StopLeavesNothingHolds, PTL

-----------------------------------------------------------------------------
(* Requests.                                                               *)

Good(r) == r \in Request /\ RequestShape(r)

(* A request moves on without an answer, *)
LEMMA PassedFields ==
  ASSUME NEW r \in Request, NEW to \in Stages
  PROVE  LET p == Passed(r, to)
         IN /\ p \in Request /\ p.kind = r.kind /\ p.stage = to /\ p.from = r.from
            /\ p.open = r.open /\ p.left = r.left /\ p.said = r.said
<1>1. Off \in Auths
  BY DEF Auths
<1>2. Passed(r, to) \in Request
  BY <1>1, Zenon DEF Passed, Request
<1>3. LET p == Passed(r, to)
      IN /\ p.kind = r.kind /\ p.stage = to /\ p.from = r.from
         /\ p.open = r.open /\ p.left = r.left /\ p.said = r.said
  BY Zenon DEF Passed, Request
<1> QED BY <1>2, <1>3

LEMMA PassedGood ==
  ASSUME NEW r, Good(r), r.said = 0, NEW to \in {"body", "handling", "stream"},
         ~r.left, to = "handling" => r.open, to = "stream" => r.kind # "call"
  PROVE  LET p == Passed(r, to)
         IN Good(p) /\ ~p.left /\ p.kind = r.kind /\ p.open = r.open /\ p.from = r.from /\ p.stage = to
<1> DEFINE p == Passed(r, to)
<1>1. p \in Request /\ p.stage = to /\ p.open = r.open /\ p.left = r.left /\ p.said = 0
      /\ p.kind = r.kind /\ p.from = r.from
  BY PassedFields DEF Good, Stages
<1> HIDE DEF p
<1>2. RequestShape(p)
  BY <1>1, SMT DEF RequestShape
<1> QED BY <1>1, <1>2 DEF Good, p

(* ... is answered, *)
LEMMA AnsweredFields ==
  ASSUME NEW r \in Request, r.said = 0
  PROVE  LET p == Answered(r)
         IN /\ p \in Request /\ p.kind = r.kind /\ p.stage = "done" /\ p.open = r.open
            /\ p.left = r.left /\ p.said = 1
<1> DEFINE p == Passed(r, "done")
<1> DEFINE q == Answered(r)
<1>1. p \in Request /\ p.open = r.open /\ p.left = r.left /\ p.said = 0 /\ p.kind = r.kind /\ p.stage = "done"
  BY PassedFields DEF Stages
<1>2. q = [p EXCEPT !.from = Local, !.said = @ + 1]
  BY DEF Answered
<1> HIDE DEF p, q
<1>3. Local \in Clients /\ p.said + 1 \in 0..2 /\ p.said + 1 = 1
  BY <1>1, SMT DEF Clients
<1>4. q \in Request
  BY <1>1, <1>2, <1>3, Zenon DEF Request
<1>5. q.open = p.open /\ q.left = p.left /\ q.kind = p.kind /\ q.stage = p.stage /\ q.said = p.said + 1
  BY <1>1, <1>2, Zenon DEF Request
<1> QED BY <1>1, <1>3, <1>4, <1>5 DEF q

LEMMA AnsweredGood ==
  ASSUME NEW r, Good(r), r.said = 0, ~r.left
  PROVE  LET p == Answered(r)
         IN Good(p) /\ ~p.left /\ p.kind = r.kind /\ p.open = r.open /\ p.stage = "done"
<1> DEFINE q == Answered(r)
<1>1. q \in Request /\ q.kind = r.kind /\ q.stage = "done" /\ q.open = r.open /\ q.left = r.left /\ q.said = 1
  BY AnsweredFields DEF Good
<1> HIDE DEF q
<1>2. RequestShape(q)
  BY <1>1, SMT DEF RequestShape
<1> QED BY <1>1, <1>2 DEF Good, q

(* ... or loses its socket. *)
LEMMA ClosedGood ==
  ASSUME NEW r, Good(r), r.open \/ r.stage = "stream"
  PROVE  LET p == Closed(r)
         IN /\ Good(p) /\ ~p.open /\ ~r.left /\ (p.left <=> Counts(r)) /\ p.kind = r.kind
            /\ (p.stage = r.stage \/ p.stage = "done")
<1> DEFINE p == Closed(r)
<1>0. ~r.left /\ r \in Request
  BY DEF Good, RequestShape
<1>1. CASE r.stage = "body"
  <2> DEFINE q == Answered(r)
  <2>1. Good(q) /\ ~q.left /\ q.kind = r.kind
    BY <1>0, <1>1, AnsweredGood DEF Good, RequestShape
  <2> HIDE DEF q
  <2>2. p = [q EXCEPT !.open = FALSE]
    BY <1>1 DEF Closed, q
  <2>3. p \in Request
    BY <2>1, <2>2, Zenon DEF Good, Request
  <2>4. p.open = FALSE /\ p.left = q.left /\ p.kind = q.kind /\ p.stage = q.stage /\ p.said = q.said
    BY <2>1, <2>2, Zenon DEF Good, Request
  <2>5. q.stage = "done" /\ q.said = 1
    BY <1>0, <1>1, SMT DEF q, Answered, Passed, Good, RequestShape, Request
  <2> HIDE DEF p
  <2>6. RequestShape(p)
    BY <2>1, <2>4, <2>5, SMT DEF RequestShape, Good
  <2> QED BY <1>0, <1>1, <2>1, <2>3, <2>4, <2>5, <2>6 DEF Good, Counts, p
<1>2. CASE r.stage = "stream"
  <2> DEFINE q == Passed(r, "done")
  <2>1. q \in Request /\ q.left = r.left /\ q.kind = r.kind /\ q.said = r.said /\ q.stage = "done"
    BY <1>0, PassedFields DEF Stages
  <2> HIDE DEF q
  <2>2. p = [q EXCEPT !.open = FALSE, !.from = Local]
    BY <1>2 DEF Closed, q
  <2>3. p \in Request
    BY <2>1, <2>2, Zenon DEF Request, Clients
  <2>4. p.open = FALSE /\ p.left = q.left /\ p.kind = q.kind /\ p.stage = q.stage /\ p.said = q.said
    BY <2>1, <2>2, Zenon DEF Request
  <2> HIDE DEF p
  <2>5. r.kind # "call"
    BY <1>0, <1>2 DEF Good, RequestShape
  <2>6. RequestShape(p)
    BY <1>0, <1>2, <2>1, <2>4, <2>5, SMT DEF RequestShape, Good
  <2> QED BY <1>0, <1>2, <2>1, <2>3, <2>4, <2>6 DEF Good, Counts, p
<1>3. CASE r.stage \notin {"body", "stream"}
  <2>2. p = [r EXCEPT !.open = FALSE, !.left = Counts(r)]
    BY <1>3 DEF Closed
  <2>3. p \in Request
    BY <1>0, <2>2, Zenon DEF Request, Counts
  <2>4. p.open = FALSE /\ p.left = Counts(r) /\ p.kind = r.kind /\ p.stage = r.stage /\ p.said = r.said /\ p.gate = r.gate /\ p.under = r.under
    BY <1>0, <2>2, Zenon DEF Request
  <2>5. r.stage # "unused"
    BY DEF Good, RequestShape, Unused
  <2>7. ~p.open /\ (p.left <=> r.kind = "call" /\ r.stage = "handling")
    BY <2>4, Zenon DEF Counts
  <2> HIDE DEF p
  <2>6. RequestShape(p)
    BY <1>3, <2>4, <2>5, <2>7, SMT DEF RequestShape, Good
  <2> QED BY <1>0, <2>3, <2>4, <2>6 DEF Good, p
<1> QED BY <1>1, <1>2, <1>3

Cut == {c \in Conns : conn[c].left}

LEMMA CutFacts == IsFiniteSet(Cut) /\ Cardinality(Cut) \in 0..Cardinality(Conns)
<1>1. Cut \in SUBSET Conns
  BY DEF Cut
<1>2. Cardinality(Cut) \in Nat /\ Cardinality(Conns) \in Nat /\ Cardinality(Cut) <= Cardinality(Conns)
  BY <1>1, FS_Subset, FS_CardinalityType, HttpSets
<1>3. IsFiniteSet(Cut)
  BY <1>1, FS_Subset, HttpSets
<1> QED BY <1>2, <1>3, SMT

(* What is to be shown of a step: that the requests and the listeners are  *)
(* good and the cut ones counted.                                          *)
LEMMA HttpInvFrom ==
  ASSUME HttpInv, auth' \in Auths, validator' \in Auths, announcing' \in Nat,
         fresh' \in SUBSET Conns, listeners' \subseteq Listeners,
         conn' \in [Conns -> Request], \A c \in Conns : RequestShape(conn'[c]),
         \A c \in listeners' : conn'[c].kind = "listen" /\ conn'[c].open,
         cancels' = Cardinality(Cut')
  PROVE  HttpInv'
<1>1. cancels' \in 0..Cardinality(Conns)
  <2>1. Cut' \in SUBSET Conns
    BY DEF Cut
  <2>2. Cardinality(Cut') \in Nat /\ Cardinality(Conns) \in Nat /\ Cardinality(Cut') <= Cardinality(Conns)
    BY <2>1, FS_Subset, FS_CardinalityType, HttpSets
  <2> QED BY <2>2, SMT
<1>2. \A c \in Conns : conn'[c].left => conn'[c].kind = "call" /\ ~conn'[c].open
  BY DEF RequestShape
<1> QED BY <1>1, <1>2 DEF HttpInv, HttpTypeOK, Cut

(* One request changes, without being cut off. *)
LEMMA OneInv ==
  ASSUME HttpInv, NEW c \in Conns, NEW r, Good(r), Becomes(c, r), (r.left <=> conn[c].left),
         auth' \in Auths, validator' \in Auths, announcing' = announcing, cancels' = cancels,
         fresh' \in SUBSET Conns, listeners' \subseteq Listeners,
         listeners' \subseteq listeners \cup {c}, c \in listeners' => r.kind = "listen" /\ r.open
  PROVE  HttpInv'
<1>1. conn \in [Conns -> Request] /\ r \in Request /\ Listeners \subseteq Conns
  BY HttpSets DEF HttpInv, HttpTypeOK, Good
<1>2. conn' \in [Conns -> Request] /\ conn'[c] = r /\ \A d \in Conns \ {c} : conn'[d] = conn[d]
  BY <1>1 DEF Becomes
<1>3. \A d \in Conns : RequestShape(conn'[d])
  BY <1>2 DEF HttpInv, Good
<1>4. \A d \in listeners' : conn'[d].kind = "listen" /\ conn'[d].open
  BY <1>1, <1>2 DEF HttpInv, HttpTypeOK
<1>5. Cut' = Cut
  BY <1>2 DEF Cut
<1>6. announcing' \in Nat /\ cancels' = Cardinality(Cut')
  BY <1>5 DEF HttpInv, HttpTypeOK, Cut
<1> QED BY <1>2, <1>3, <1>4, <1>6, HttpInvFrom

LEMMA NewFields ==
  ASSUME NEW k \in Kinds, NEW f \in Clients
  PROVE  /\ New(k, f) \in Request /\ New(k, f).kind = k /\ New(k, f).open
         /\ ~New(k, f).left /\ New(k, f).said = 0
<1>1. Unused \in Request
  <2>1. 0 \in 0..2
    BY SMT
  <2> QED BY <2>1, Zenon DEF Unused, Request, Stages, Auths, Clients
<1> QED BY <1>1, Zenon DEF New, Unused, Request

(* A new request that meets an open gate. *)
LEMMA NewPasses ==
  ASSUME NEW k \in Kinds, NEW f \in Clients, NEW to \in {"body", "stream"}, to = "stream" => k # "call"
  PROVE  Good(Passed(New(k, f), to)) /\ ~Passed(New(k, f), to).left
<1>1. LET p == Passed(New(k, f), to)
      IN p \in Request /\ p.stage = to /\ p.open /\ ~p.left /\ p.said = 0 /\ p.kind = k
  <2>1. to \in Stages
    BY DEF Stages
  <2> DEFINE r == New(k, f)
  <2>2. r \in Request /\ r.kind = k /\ r.open /\ ~r.left /\ r.said = 0
    BY NewFields, Zenon
  <2> HIDE DEF r
  <2>3. LET p == Passed(r, to)
        IN /\ p \in Request /\ p.kind = r.kind /\ p.stage = to /\ p.open = r.open
           /\ p.left = r.left /\ p.said = r.said
    BY <2>1, <2>2, PassedFields
  <2> QED BY <2>2, <2>3, Zenon DEF r
<1>2. RequestShape(Passed(New(k, f), to))
  BY <1>1, SMT DEF RequestShape
<1> QED BY <1>1, <1>2 DEF Good

LEMMA UnusedLeft ==
  ASSUME HttpInv, NEW c \in Conns, conn[c] = Unused
  PROVE  ~conn[c].left /\ c \notin listeners
<1>1. ~Unused.left /\ ~Unused.open
  BY DEF Unused
<1> QED BY <1>1 DEF HttpInv, HttpTypeOK

LEMMA ArriveInv ==
  ASSUME HttpInv, NEW c \in Conns, NEW k \in Kinds, Arrive(c, k)
  PROVE  HttpInv'
<1>1. /\ conn[c] = Unused /\ UNCHANGED <<listeners, auth, validator, cancels, announcing>>
      /\ Routed(c, New(k, Local))
  BY DEF Arrive, Arrival, vars
<1>2. Local \in Clients
  BY DEF Clients
<1>3. PICK to \in {"body", "stream"} :
          /\ Becomes(c, Passed(New(k, Local), to))
          /\ to = "stream" => k # "call"
          /\ fresh' \in SUBSET Conns
  BY <1>1, <1>2, NewFields DEF Routed, HttpInv, HttpTypeOK
<1> DEFINE new == Passed(New(k, Local), to)
<1>4. Good(new) /\ ~new.left
  BY <1>2, <1>3, NewPasses
<1>5. c \notin listeners /\ ~conn[c].left
  BY <1>1, UnusedLeft
<1>6. Becomes(c, new)
  BY <1>3
<1> HIDE DEF new
<1>7. auth' \in Auths /\ validator' \in Auths /\ listeners' \subseteq Listeners
  BY <1>1 DEF HttpInv, HttpTypeOK
<1> QED BY <1>1, <1>3, <1>4, <1>5, <1>6, <1>7, OneInv

LEMMA ForbidInv ==
  ASSUME HttpInv, NEW c \in Conns, NEW k \in Kinds, NEW f \in Clients, Forbid(c, k, f)
  PROVE  HttpInv'
<1>1. /\ conn[c] = Unused /\ UNCHANGED <<listeners, auth, validator, cancels, announcing, fresh>>
      /\ Becomes(c, Answered(New(k, f)))
  BY DEF Forbid, Arrival, vars
<1> DEFINE r == New(k, f)
<1> DEFINE q == Answered(r)
<1>2. r \in Request /\ r.open /\ ~r.left /\ r.said = 0
  BY NewFields, Zenon
<1>3. q \in Request /\ q.open /\ ~q.left /\ q.said = 1 /\ q.stage = "done"
  <2> HIDE DEF r
  <2> QED BY <1>2, AnsweredFields
<1>4. RequestShape(q)
  <2> HIDE DEF q
  <2> QED BY <1>3, SMT DEF RequestShape
<1> QED BY <1>1, <1>3, <1>4, UnusedLeft, OneInv DEF HttpInv, HttpTypeOK, Good

LEMMA ArriveGatedInv ==
  ASSUME HttpInv, NEW c \in Conns, NEW k \in Kinds, NEW f \in Clients, ArriveGated(c, k, f)
  PROVE  HttpInv'
<1>1. /\ conn[c] = Unused /\ UNCHANGED <<listeners, auth, cancels, announcing, fresh>>
      /\ validator' = auth
      /\ Becomes(c, [New(k, f) EXCEPT !.stage = "auth", !.under = auth, !.gate = auth])
  BY DEF ArriveGated, Arrival, vars, ValidatorFor
<1> DEFINE r == New(k, f)
<1> DEFINE q == [r EXCEPT !.stage = "auth", !.under = auth, !.gate = auth]
<1>2. r \in Request /\ r.open /\ ~r.left /\ r.said = 0
  BY NewFields, Zenon
<1>3. auth \in Auths
  BY DEF HttpInv, HttpTypeOK
<1>4. /\ q \in Request /\ q.open /\ ~q.left /\ q.said = 0 /\ q.stage = "auth"
      /\ q.gate = auth /\ q.under = auth
  <2> HIDE DEF r
  <2> QED BY <1>2, <1>3, Zenon DEF Request, Stages
<1>5. RequestShape(q)
  <2> HIDE DEF q
  <2> QED BY <1>4, SMT DEF RequestShape
<1> QED BY <1>1, <1>3, <1>4, <1>5, UnusedLeft, OneInv DEF HttpInv, HttpTypeOK, Good

(* A request whose handler has yet to hand it over. *)
LEMMA Awaiting ==
  ASSUME HttpInv, NEW c \in Conns, conn[c].stage \in {"auth", "body"}
  PROVE  Good(conn[c]) /\ conn[c].said = 0 /\ ~conn[c].left
<1>1. conn[c] \in Request /\ RequestShape(conn[c])
  BY DEF HttpInv, HttpTypeOK
<1> QED BY <1>1 DEF Good, RequestShape

LEMMA ReplyInv ==
  ASSUME HttpInv, NEW c \in Conns, conn[c].stage \in {"auth", "body"}, Reply(c),
         UNCHANGED <<listeners, authVars, announcing>>
  PROVE  HttpInv'
<1> DEFINE new == Answered(conn[c])
<1>1. Good(new) /\ ~new.left /\ new.kind = conn[c].kind /\ new.open = conn[c].open
  BY Awaiting, AnsweredGood
<1>2. Becomes(c, new) /\ UNCHANGED <<cancels, fresh>> /\ ~conn[c].left
  BY Awaiting DEF Reply
<1> HIDE DEF new
<1>3. c \in listeners => new.kind = "listen" /\ new.open
  BY <1>1 DEF HttpInv, HttpTypeOK
<1> QED BY <1>1, <1>2, <1>3, OneInv DEF HttpInv, HttpTypeOK, authVars

LEMMA AdmitInv ==
  ASSUME HttpInv, NEW c \in Conns, Admit(c)
  PROVE  HttpInv'
<1>1. /\ UNCHANGED <<listeners, authVars, announcing, cancels>> /\ conn[c].stage = "auth"
      /\ Routed(c, conn[c])
  BY DEF Admit, vars
<1>2. Good(conn[c]) /\ conn[c].said = 0 /\ ~conn[c].left
  BY <1>1, Awaiting
<1>3. PICK to \in {"body", "stream"} :
          /\ Becomes(c, Passed(conn[c], to))
          /\ to = "stream" => conn[c].kind # "call"
          /\ fresh' \in SUBSET Conns
  BY <1>1 DEF Routed, HttpInv, HttpTypeOK
<1> DEFINE new == Passed(conn[c], to)
<1>4. Good(new) /\ ~new.left /\ new.kind = conn[c].kind /\ new.open = conn[c].open
  BY <1>2, <1>3, PassedGood
<1>5. Becomes(c, new)
  BY <1>3
<1> HIDE DEF new
<1>6. c \in listeners => new.kind = "listen" /\ new.open
  BY <1>4 DEF HttpInv, HttpTypeOK
<1> QED BY <1>1, <1>2, <1>3, <1>4, <1>5, <1>6, OneInv DEF HttpInv, HttpTypeOK, authVars

LEMMA OpenListenInv ==
  ASSUME HttpInv, NEW c \in Conns, OpenListen(c)
  PROVE  HttpInv'
<1>1. /\ UNCHANGED <<authVars, announcing, cancels>> /\ conn[c].stage = "body" /\ conn[c].open
      /\ conn[c].kind = "listen" /\ Becomes(c, Passed(conn[c], "stream")) /\ fresh' = fresh \cup {c}
  BY DEF OpenListen, BodyIn
<1>2. Good(conn[c]) /\ conn[c].said = 0 /\ ~conn[c].left
  BY <1>1, Awaiting
<1> DEFINE new == Passed(conn[c], "stream")
<1>3. Good(new) /\ ~new.left /\ new.kind = conn[c].kind /\ new.open = conn[c].open
  BY <1>1, <1>2, PassedGood
<1>4. Becomes(c, new)
  BY <1>1
<1> HIDE DEF new
<1>5. listeners' \subseteq listeners \cup {c} /\ listeners' \subseteq Listeners
  BY DEF OpenListen, Listen, vars, HttpInv
<1>6. new.kind = "listen" /\ new.open
  BY <1>1, <1>3
<1> QED BY <1>1, <1>2, <1>3, <1>4, <1>5, <1>6, OneInv DEF HttpInv, HttpTypeOK, authVars

LEMMA HandInv ==
  ASSUME HttpInv, NEW c \in Conns, Hand(c)
  PROVE  HttpInv'
<1>1. /\ UNCHANGED <<listeners, authVars, announcing, cancels, fresh>> /\ conn[c].stage = "body" /\ conn[c].open
      /\ conn[c].kind \in {"call", "ask"}
      /\ Becomes(c, [Passed(conn[c], "handling") EXCEPT !.from = Local])
  BY DEF Hand, BodyIn, vars
<1>2. Good(conn[c]) /\ conn[c].said = 0 /\ ~conn[c].left
  BY <1>1, Awaiting
<1> DEFINE p == Passed(conn[c], "handling")
<1> DEFINE new == [p EXCEPT !.from = Local]
<1>3. Good(p) /\ ~p.left /\ p.kind = conn[c].kind /\ p.open = conn[c].open /\ p.stage = "handling"
  BY <1>1, <1>2, PassedGood
<1>4. Becomes(c, new)
  BY <1>1
<1> HIDE DEF p
<1>5. /\ new \in Request /\ new.kind = p.kind /\ new.stage = p.stage /\ new.open = p.open
      /\ new.left = p.left /\ new.said = p.said
  BY <1>3, Zenon DEF Good, Request, Clients
<1> HIDE DEF new
<1>6. RequestShape(new)
  BY <1>1, <1>3, <1>5, SMT DEF Good, RequestShape
<1>7. c \notin listeners
  BY <1>1 DEF HttpInv, HttpTypeOK
<1> QED BY <1>1, <1>2, <1>3, <1>4, <1>5, <1>6, <1>7, OneInv DEF HttpInv, HttpTypeOK, authVars, Good

LEMMA HandledInv ==
  ASSUME HttpInv, NEW c \in Conns, Handled(c)
  PROVE  HttpInv'
<1>1. /\ UNCHANGED <<listeners, authVars, announcing, cancels, fresh>> /\ conn[c].stage = "handling"
      /\ Becomes(c, IF conn[c].left THEN Passed(conn[c], "done") ELSE Answered(conn[c]))
  BY DEF Handled, vars, Becomes
<1>2. Good(conn[c]) /\ conn[c].said = 0
  BY <1>1 DEF HttpInv, HttpTypeOK, Good, RequestShape
<1> DEFINE new == IF conn[c].left THEN Passed(conn[c], "done") ELSE Answered(conn[c])
<1>3. Good(new) /\ (new.left <=> conn[c].left) /\ new.kind = conn[c].kind /\ new.open = conn[c].open
  <2>1. CASE conn[c].left
    <3> DEFINE p == Passed(conn[c], "done")
    <3>1. /\ p \in Request /\ p.kind = conn[c].kind /\ p.stage = "done" /\ p.open = conn[c].open
          /\ p.left = conn[c].left /\ p.said = 0
      BY <1>2, PassedFields DEF Good, Stages
    <3> HIDE DEF p
    <3>2. RequestShape(p)
      BY <1>2, <2>1, <3>1, SMT DEF Good, RequestShape
    <3> QED BY <2>1, <3>1, <3>2 DEF Good, p
  <2>2. CASE ~conn[c].left
    BY <1>2, <2>2, AnsweredGood
  <2> QED BY <2>1, <2>2
<1>4. Becomes(c, new)
  BY <1>1
<1> HIDE DEF new
<1>5. c \in listeners => new.kind = "listen" /\ new.open
  BY <1>3 DEF HttpInv, HttpTypeOK
<1> QED BY <1>1, <1>3, <1>4, <1>5, OneInv DEF HttpInv, HttpTypeOK, authVars

LEMMA LeaveInv ==
  ASSUME HttpInv, NEW c \in Conns, Leave(c)
  PROVE  HttpInv'
<1> DEFINE new == Closed(conn[c])
<1>1. /\ UNCHANGED <<authVars, announcing>> /\ conn[c].open /\ Becomes(c, new)
      /\ fresh' \in SUBSET Conns
      /\ cancels' = IF Counts(conn[c]) THEN cancels + 1 ELSE cancels
  BY DEF Leave, HttpInv, HttpTypeOK
<1>2. listeners' \subseteq listeners /\ c \notin listeners'
  BY DEF Leave, Unlisten, vars
<1>3. conn \in [Conns -> Request] /\ Good(conn[c])
  BY DEF HttpInv, HttpTypeOK, Good
<1>4. Good(new) /\ ~conn[c].left /\ (new.left <=> Counts(conn[c]))
  BY <1>1, <1>3, ClosedGood
<1> HIDE DEF new
<1>5. CASE ~Counts(conn[c])
  BY <1>1, <1>2, <1>3, <1>4, <1>5, OneInv DEF HttpInv, HttpTypeOK, authVars
<1>6. CASE Counts(conn[c])
  <2>1. conn' \in [Conns -> Request] /\ conn'[c] = new /\ \A d \in Conns \ {c} : conn'[d] = conn[d]
    BY <1>1, <1>3, <1>4 DEF Becomes, Good
  <2>2. \A d \in Conns : RequestShape(conn'[d])
    BY <1>4, <2>1 DEF HttpInv, Good
  <2>3. \A d \in listeners' : conn'[d].kind = "listen" /\ conn'[d].open
    BY <1>2, <2>1, HttpSets DEF HttpInv, HttpTypeOK
  <2>4. Cut' = Cut \cup {c} /\ c \notin Cut
    BY <1>4, <1>6, <2>1 DEF Cut
  <2>5. cancels' = Cardinality(Cut')
    BY <1>1, <1>6, <2>4, CutFacts, FS_AddElement DEF HttpInv, Cut
  <2> QED BY <1>1, <1>2, <2>1, <2>2, <2>3, <2>5, HttpInvFrom DEF HttpInv, HttpTypeOK, authVars
<1> QED BY <1>5, <1>6

(* The sockets of some requests are closed at once, and no listener left.  *)
LEMMA ManyClosed ==
  ASSUME HttpInv, NEW S \in SUBSET Conns, \A c \in S : conn[c].open \/ conn[c].stage = "stream",
         conn' = [c \in Conns |-> IF c \in S THEN Closed(conn[c]) ELSE conn[c]],
         listeners' = {}, fresh' = {}, UNCHANGED <<authVars, announcing>>,
         cancels' = cancels + Cardinality({c \in S : Counts(conn[c])})
  PROVE  HttpInv'
<1>1. \A c \in Conns : Good(conn[c])
  BY DEF HttpInv, HttpTypeOK, Good
<1>2. \A c \in S : Good(Closed(conn[c])) /\ ~conn[c].left /\ (Closed(conn[c]).left <=> Counts(conn[c]))
  BY <1>1, ClosedGood
<1>3. conn' \in [Conns -> Request] /\ \A c \in Conns : RequestShape(conn'[c])
  BY <1>1, <1>2 DEF Good
<1> DEFINE more == {c \in S : Counts(conn[c])}
<1>4. Cut' = Cut \cup more /\ Cut \cap more = {}
  BY <1>2 DEF Cut
<1>5. IsFiniteSet(more)
  BY FS_Subset, HttpSets
<1> HIDE DEF more
<1>6. Cardinality(Cut') = Cardinality(Cut) + Cardinality(more)
  <2>1. Cardinality(Cut \cup more) = Cardinality(Cut) + Cardinality(more) - Cardinality(Cut \cap more)
    BY <1>5, CutFacts, FS_Union
  <2>2. Cardinality(Cut \cap more) = 0
    BY <1>4, FS_EmptySet
  <2>3. Cardinality(Cut) \in Nat /\ Cardinality(more) \in Nat
    BY <1>5, CutFacts, FS_CardinalityType
  <2> QED BY <1>4, <2>1, <2>2, <2>3, SMT
<1>7. cancels' = Cardinality(Cut')
  BY <1>6 DEF HttpInv, Cut, more
<1> QED BY <1>3, <1>7, HttpInvFrom DEF HttpInv, HttpTypeOK, authVars

LEMMA StopHttpInv ==
  ASSUME HttpInv, StopHttp
  PROVE  HttpInv'
<1> DEFINE S == {c \in Conns : conn[c].stage = "stream"}
<1>1. /\ listeners' = {} /\ fresh' = {} /\ UNCHANGED <<authVars, announcing, cancels>>
      /\ conn' = [c \in Conns |-> IF c \in S THEN Closed(conn[c]) ELSE conn[c]]
  BY DEF StopHttp, Stop
<1>2. {c \in S : Counts(conn[c])} = {}
  BY DEF Counts
<1>3. cancels' = cancels + Cardinality({c \in S : Counts(conn[c])})
  <2>1. cancels \in Nat
    BY CutFacts, FS_CardinalityType DEF HttpInv, Cut
  <2>2. Cardinality({c \in S : Counts(conn[c])}) = 0
    BY <1>2, FS_EmptySet
  <2> QED BY <1>1, <2>1, <2>2, SMT
<1>4. S \in SUBSET Conns /\ \A c \in S : conn[c].stage = "stream"
  OBVIOUS
<1> HIDE DEF S
<1> QED BY <1>1, <1>3, <1>4, ManyClosed

LEMMA StopHttpDoneInv ==
  ASSUME HttpInv, StopHttpDone
  PROVE  HttpInv'
<1> DEFINE S == {c \in Conns : conn[c].open}
<1>1. /\ listeners' = {} /\ fresh' = {} /\ UNCHANGED <<authVars, announcing>>
      /\ conn' = [c \in Conns |-> IF c \in S THEN Closed(conn[c]) ELSE conn[c]]
  BY DEF StopHttpDone, StopDone
<1>2. {c \in Conns : conn[c].open /\ Counts(conn[c])} = {c \in S : Counts(conn[c])}
  OBVIOUS
<1>3. cancels' = cancels + Cardinality({c \in S : Counts(conn[c])})
  BY <1>2 DEF StopHttpDone
<1>4. S \in SUBSET Conns /\ \A c \in S : conn[c].open
  OBVIOUS
<1> HIDE DEF S
<1> QED BY <1>1, <1>3, <1>4, ManyClosed

LEMMA BehindInv ==
  ASSUME HttpInv, Behind \/ ReloadHttpDone \/ Broadcast \/ EditAuth \/ UNCHANGED allVars
  PROVE  HttpInv'
<1>1. UNCHANGED <<listeners, conn, cancels, validator>>
  <2>1. CASE Behind
    <3>1. ASSUME NEW a \in Aggs, StartBinds(a) \/ StartFails(a) \/ Watched(a) PROVE UNCHANGED listeners
      BY <3>1 DEF StartBinds, StartFails, Watched, Notice, Fires, FiresInVain
    <3>2. ASSUME Start \/ StopIdle \/ Reload \/ Edit PROVE UNCHANGED listeners
      BY <3>2 DEF Start, StopIdle, Reload, Edit
    <3> QED BY <2>1, <3>1, <3>2 DEF Behind, httpVars, connVars, authVars
  <2>2. CASE ReloadHttpDone
    BY <2>2 DEF ReloadHttpDone, ReloadDone, SwapDone, authVars
  <2>3. CASE Broadcast \/ EditAuth \/ UNCHANGED allVars
    BY <2>3 DEF Broadcast, EditAuth, allVars, httpVars, vars, connVars, authVars
  <2> QED BY <2>1, <2>2, <2>3
<1>2. auth' \in Auths
  BY DEF HttpInv, HttpTypeOK, Behind, ReloadHttpDone, Broadcast, EditAuth, allVars, httpVars, authVars
<1>3. fresh' \in SUBSET Conns
  BY DEF HttpInv, HttpTypeOK, Behind, ReloadHttpDone, Swapped, Broadcast, EditAuth, allVars, httpVars,
         connVars, Streams
<1>4. announcing' \in Nat
  BY SMT DEF HttpInv, HttpTypeOK, Behind, ReloadHttpDone, Swapped, Broadcast, EditAuth, allVars, httpVars
<1>5. Cut' = Cut
  BY <1>1 DEF Cut
<1> QED BY <1>1, <1>2, <1>3, <1>4, <1>5, HttpInvFrom DEF HttpInv, HttpTypeOK, Cut

LEMMA HttpNextInv ==
  ASSUME HttpInv, [HttpNext]_allVars
  PROVE  HttpInv'
<1>1. ASSUME NEW c \in Conns, NEW k \in Kinds,
             Arrive(c, k) \/ \E f \in Clients : Forbid(c, k, f) \/ ArriveGated(c, k, f)
      PROVE  HttpInv'
  BY <1>1, ArriveInv, ForbidInv, ArriveGatedInv
<1>2. ASSUME NEW c \in Conns, Deny(c) \/ Reject(c) \/ RefuseListen(c)
      PROVE  HttpInv'
  BY <1>2, ReplyInv DEF Deny, Reject, RefuseListen, BodyIn, vars
<1>3. ASSUME NEW c \in Conns, Admit(c) \/ OpenListen(c) \/ Hand(c) \/ Handled(c) \/ Leave(c)
      PROVE  HttpInv'
  BY <1>3, AdmitInv, OpenListenInv, HandInv, HandledInv, LeaveInv
<1>4. CASE StopHttp \/ StopHttpDone
  BY <1>4, StopHttpInv, StopHttpDoneInv
<1> QED BY <1>1, <1>2, <1>3, <1>4, BehindInv DEF HttpNext

LEMMA HttpInitInv == HttpInit => HttpInv
<1> SUFFICES ASSUME HttpInit PROVE HttpInv
  OBVIOUS
<1>1. Unused \in Request
  <2>1. 0 \in 0..2
    BY SMT
  <2> QED BY <2>1, Zenon DEF Unused, Request, Stages, Auths, Clients
<1>2. RequestShape(Unused) /\ ~Unused.left
  BY SMT DEF RequestShape, Unused
<1>3. {c \in Conns : conn[c].left} = {} /\ \A c \in Conns : conn[c] = Unused
  BY <1>2 DEF HttpInit
<1>4. 0 \in 0..Cardinality(Conns)
  BY FS_CardinalityType, HttpSets, SMT
<1>5. HttpTypeOK
  BY <1>1, <1>2, <1>3, <1>4, SMT DEF HttpInit, Init, HttpTypeOK, Auths
<1> QED BY <1>2, <1>3, <1>5, FS_EmptySet DEF HttpInv, HttpInit, Init

(* Type correctness of the requests, with what is said and what is open at *)
(* each stage (onRequest, handleMcpPost).                                  *)
THEOREM HttpTypeCorrect == HttpSpec => []HttpTypeOK
<1>1. HttpInv => HttpTypeOK
  BY DEF HttpInv
<1> QED BY HttpInitInv, HttpNextInv, <1>1, PTL DEF HttpSpec

(* A modern tools/call handed over is answered once or counted as          *)
(* cancelled, never both and never neither, whoever closed its socket and  *)
(* whenever (handleMcpPost).                                               *)
THEOREM CallsAccountedHolds == HttpSpec => []CallsAccounted
<1>1. HttpInv => CallsAccounted
  <2> SUFFICES ASSUME HttpInv PROVE CallsAccounted
    OBVIOUS
  <2> DEFINE cut == {c \in Conns : /\ conn[c].kind = "call" /\ ~conn[c].open /\ conn[c].said = 0
                                  /\ conn[c].stage \in {"handling", "done"}}
  <2>1. cut = {c \in Conns : conn[c].left}
    BY DEF HttpInv, RequestShape
  <2>2. \A c \in Conns : conn[c].said <= 1
    BY DEF HttpInv, RequestShape
  <2> QED BY <2>1, <2>2 DEF HttpInv, CallsAccounted
<1> QED BY HttpInitInv, HttpNextInv, <1>1, PTL DEF HttpSpec

(* A request is let through by the settings it arrived under, whatever     *)
(* validator was kept and whatever is edited while its verdict is awaited  *)
(* (validatorFor, passesAuth).                                             *)
THEOREM AdmittedByItsSettingsHolds == HttpSpec => AdmittedByItsSettings
<1> DEFINE Step == \A c \in Conns :
       conn'[c].stage \in {"body", "stream"} /\ conn[c].stage \in {"unused", "auth"} =>
         IF conn[c].stage = "auth" THEN conn[c].from = conn[c].under
                                   ELSE auth = Off /\ conn'[c].from = Local
<1>1. ASSUME HttpInv, HttpNext, NEW c \in Conns,
             conn'[c].stage \in {"body", "stream"}, conn[c].stage \in {"unused", "auth"}
      PROVE  IF conn[c].stage = "auth" THEN conn[c].from = conn[c].under
                                       ELSE auth = Off /\ conn'[c].from = Local
  <2> USE <1>1
  <2>1. conn \in [Conns -> Request] /\ RequestShape(conn[c])
    BY DEF HttpInv, HttpTypeOK
  <2>2. conn' # conn
    OBVIOUS
  <2>3. ASSUME NEW d \in Conns, NEW r, Becomes(d, r)
        PROVE  d = c /\ conn'[c] = r
    BY <2>1, <2>3 DEF Becomes
  <2>4. ASSUME NEW d \in Conns, NEW k \in Kinds, Arrive(d, k)
        PROVE  conn[c].stage = "unused" /\ auth = Off /\ conn'[c].from = Local
    <3>1. PICK to \in Stages : Becomes(d, Passed(New(k, Local), to))
      BY <2>4 DEF Arrive, Routed, Stages
    <3>2. d = c /\ conn'[c] = Passed(New(k, Local), to)
      BY <2>3, <3>1
    <3>3. Passed(New(k, Local), to).from = Local
      BY SMT DEF Passed, New, Unused
    <3>4. conn[c].stage = "unused" /\ auth = Off
      BY <2>4, <3>2, SMT DEF Arrive, Arrival, Unused
    <3> QED BY <3>2, <3>3, <3>4
  <2>5. ASSUME NEW d \in Conns, NEW k \in Kinds, NEW f \in Clients, Forbid(d, k, f) \/ ArriveGated(d, k, f)
        PROVE  FALSE
    <3>1. CASE Forbid(d, k, f)
      <4>1. conn'[c] = Answered(New(k, f))
        BY <2>3, <3>1 DEF Forbid
      <4>2. Answered(New(k, f)).stage = "done"
        BY NewFields, AnsweredFields
      <4> QED BY <4>1, <4>2
    <3>2. CASE ArriveGated(d, k, f)
      <4>1. conn'[c] = [New(k, f) EXCEPT !.stage = "auth", !.under = auth, !.gate = ValidatorFor(auth)]
        BY <2>3, <3>2 DEF ArriveGated
      <4>2. conn'[c].stage = "auth"
        BY <4>1, NewFields DEF Request
      <4> QED BY <4>2
    <3> QED BY <2>5, <3>1, <3>2
  <2>6. ASSUME NEW d \in Conns, Admit(d)
        PROVE  conn[c].stage = "auth" /\ conn[c].from = conn[c].under
    <3>1. PICK to \in Stages : Becomes(d, Passed(conn[d], to))
      BY <2>6 DEF Admit, Routed, Stages
    <3>2. d = c
      BY <2>3, <3>1
    <3> QED BY <2>1, <2>6, <3>2 DEF Admit, Accepts, RequestShape
  <2>7. ASSUME NEW d \in Conns, Deny(d) \/ Reject(d) \/ RefuseListen(d)
        PROVE  FALSE
    <3>1. conn'[c] = Answered(conn[c]) /\ conn[c].said = 0
      BY <2>1, <2>3, <2>7, Awaiting DEF Deny, Reject, RefuseListen, BodyIn, Reply
    <3> QED BY <2>1, <3>1, AnsweredFields
  <2>8. ASSUME NEW d \in Conns, OpenListen(d) \/ Hand(d) \/ Handled(d)
        PROVE  FALSE
    <3>1. conn[d].stage \in {"body", "handling"}
      BY <2>8 DEF OpenListen, Hand, Handled, BodyIn
    <3>2. d = c
      BY <2>3, <2>8 DEF OpenListen, Hand, Handled, Becomes
    <3> QED BY <3>1, <3>2
  <2>9. ASSUME NEW d \in Conns, Leave(d)
        PROVE  FALSE
    <3>1. conn'[c] = Closed(conn[c])
      BY <2>3, <2>9 DEF Leave
    <3>2. Closed(conn[c]).stage = conn[c].stage
      BY <2>1 DEF Closed, Request
    <3> QED BY <3>1, <3>2
  <2>10. CASE StopHttp \/ StopHttpDone
    <3>1. conn'[c] = Closed(conn[c]) \/ conn'[c] = conn[c]
      BY <2>10 DEF StopHttp, StopHttpDone
    <3>2. Closed(conn[c]).stage = conn[c].stage
      BY <2>1 DEF Closed, Request
    <3> QED BY <3>1, <3>2
  <2>11. ~(Behind \/ ReloadHttpDone \/ Broadcast \/ EditAuth)
    BY <2>2 DEF Behind, ReloadHttpDone, Broadcast, EditAuth, httpVars, connVars
  <2> QED BY <2>4, <2>5, <2>6, <2>7, <2>8, <2>9, <2>10, <2>11 DEF HttpNext
<1>2. HttpInv /\ [HttpNext]_allVars => [Step]_allVars
  BY <1>1
<1> QED BY HttpInitInv, HttpNextInv, <1>2, PTL DEF HttpSpec, AdmittedByItsSettings

-----------------------------------------------------------------------------
(* A stream enters Streams as it is told of, and leaves fresh as it ends.  *)
LEMMA StreamsStep ==
  ASSUME HttpTypeOK, NEW c \in Conns, NEW r,
         conn' = [conn EXCEPT ![c] = r],
         announcing' = announcing,
         \/ fresh' = fresh /\ (r.stage # "stream" \/ ~r.open)
         \/ fresh' = fresh \cup {c}
         \/ fresh' = fresh \ {c} /\ ~r.open,
         NoStreamForgotten
  PROVE  NoStreamForgotten'
<1> SUFFICES ASSUME ~(announcing > 0) PROVE Streams' \subseteq fresh'
  BY DEF NoStreamForgotten
<1>1. Streams \subseteq fresh
  BY DEF NoStreamForgotten
<1>2. conn'[c] = r /\ \A d \in Conns \ {c} : conn'[d] = conn[d]
  BY DEF HttpTypeOK
<1> QED BY <1>1, <1>2 DEF Streams

(* Every swap owes a broadcast until it is sent, whatever streams open,    *)
(* hang up or are closed by stop in the meantime (reload, reloadExpose,    *)
(* openSse, openListenStream, pushToSse, pushToListeners).                 *)
THEOREM NoStreamForgottenHolds == HttpSpec => []NoStreamForgotten
<1>1. ASSUME HttpInit PROVE NoStreamForgotten
  BY <1>1 DEF HttpInit, Unused, Streams, NoStreamForgotten
<1>2. ASSUME HttpTypeOK, NoStreamForgotten, [HttpNext]_allVars PROVE NoStreamForgotten'
  <2> USE <1>2
  <2>0. announcing \in Nat
    BY DEF HttpTypeOK
  <2>1. CASE Behind \/ EditAuth \/ UNCHANGED allVars
    BY <2>1 DEF Behind, EditAuth, allVars, httpVars, connVars, NoStreamForgotten, Streams
  <2>2. CASE StopHttp \/ StopHttpDone
    <3>1. announcing' = announcing /\ \A c \in Conns : ~(conn'[c].stage = "stream" /\ conn'[c].open)
      BY <2>2, ZenonT(30) DEF StopHttp, StopHttpDone, Closed, Passed, Answered, HttpTypeOK, Request
    <3> QED BY <3>1 DEF NoStreamForgotten, Streams
  <2>3. CASE ReloadHttpDone
    <3>1. announcing' > 0
      BY <2>0, <2>3 DEF ReloadHttpDone, Swapped
    <3> QED BY <3>1 DEF NoStreamForgotten
  <2>4. CASE Broadcast
    BY <2>4 DEF Broadcast, NoStreamForgotten, Streams
  <2>5. ASSUME NEW c \in Conns, NEW k \in Kinds, NEW f \in Clients,
               Arrive(c, k) \/ Forbid(c, k, f) \/ ArriveGated(c, k, f)
        PROVE  NoStreamForgotten'
    <3>0. announcing' = announcing
      BY <2>5 DEF Arrive, Forbid, ArriveGated, Arrival
    <3>1. CASE Arrive(c, k)
      BY <3>0, <3>1, StreamsStep DEF Arrive, Routed, Becomes, New, Passed, Unused
    <3>2. CASE Forbid(c, k, f)
      <4> DEFINE r == Answered(New(k, f))
      <4>1. r.stage = "done"
        BY DEF New, Answered, Passed, Unused
      <4>2. conn' = [conn EXCEPT ![c] = r] /\ fresh' = fresh
        BY <3>2 DEF Forbid, Becomes
      <4> QED BY <3>0, <4>1, <4>2, StreamsStep
    <3>3. CASE ArriveGated(c, k, f)
      <4> DEFINE r == [New(k, f) EXCEPT !.stage = "auth", !.under = auth, !.gate = ValidatorFor(auth)]
      <4>1. r.stage = "auth"
        BY DEF New, Unused
      <4>2. conn' = [conn EXCEPT ![c] = r] /\ fresh' = fresh
        BY <3>3 DEF ArriveGated, Becomes
      <4> HIDE DEF r
      <4> QED BY <3>0, <4>1, <4>2, StreamsStep
    <3> QED BY <2>5, <3>1, <3>2, <3>3
  <2>6. ASSUME NEW c \in Conns,
               Admit(c) \/ Deny(c) \/ Reject(c) \/ RefuseListen(c) \/ OpenListen(c) \/ Hand(c) \/ Handled(c)
        PROVE  NoStreamForgotten'
    <3>1. conn[c] \in Request
      BY DEF HttpTypeOK
    <3> QED BY <2>6, <3>1, StreamsStep DEF Admit, Deny, Reject, RefuseListen, OpenListen, Hand, Handled,
            BodyIn, Reply, Routed, Becomes, Passed, Answered, Request
  <2>7. ASSUME NEW c \in Conns, Leave(c) PROVE NoStreamForgotten'
    <3>1. conn[c] \in Request /\ ~Closed(conn[c]).open
      BY DEF HttpTypeOK, Closed, Passed, Answered, Request
    <3> QED BY <2>7, <3>1, StreamsStep DEF Leave, Becomes
  <2>8. Local \in Clients
    BY DEF Clients
  <2> QED BY <2>1, <2>2, <2>3, <2>4, <2>5, <2>6, <2>7, <2>8 DEF HttpNext
<1> QED BY <1>1, <1>2, HttpTypeCorrect, PTL DEF HttpSpec
=============================================================================
