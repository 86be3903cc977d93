--------------------------- MODULE StdioLoop_proofs ---------------------------
(* Proofs about StdioLoop, for every set of upstreams and every number of  *)
(* requests, queued links and edits: replies come in turn, once, and never *)
(* after a cancel, and the session holds upstream what it subscribed to.   *)
EXTENDS StdioLoop, TLAPS, SequenceTheorems, FiniteSetTheorems, FunctionTheorems

USE LoopBounds

-----------------------------------------------------------------------------
(* Queues.                                                                 *)
LEMMA SeqFacts ==
  ASSUME NEW S, NEW q \in Seq(S)
  PROVE  DOMAIN q = 1..Len(q) /\ Len(q) \in Nat /\ \A k \in DOMAIN q : q[k] \in S
  OBVIOUS

LEMMA TailFacts ==
  ASSUME NEW S, NEW q \in Seq(S), q # <<>>
  PROVE  /\ 1 \in DOMAIN q /\ Head(q) = q[1] /\ Head(q) \in S
         /\ Tail(q) \in Seq(S) /\ Len(Tail(q)) = Len(q) - 1
         /\ \A k \in DOMAIN Tail(q) : k + 1 \in DOMAIN q /\ Tail(q)[k] = q[k + 1] /\ k \in Nat /\ 1 < k + 1
  OBVIOUS

LEMMA AppendFacts ==
  ASSUME NEW S, NEW q \in Seq(S), NEW x \in S, NEW new, new = Append(q, x)
  PROVE  /\ new \in Seq(S) /\ Len(new) = Len(q) + 1
         /\ \A k \in DOMAIN new : \/ k \in DOMAIN q /\ new[k] = q[k]
                                  \/ k \notin DOMAIN q /\ new[k] = x
         /\ \A j, k \in DOMAIN new : j < k => j \in DOMAIN q
         /\ \A k \in DOMAIN q : k \in DOMAIN new /\ new[k] = q[k]
  OBVIOUS

-----------------------------------------------------------------------------
(* The invariant in parts: what the chain does, what it says, what it      *)
(* forwards and what it subscribes to.                                     *)
RunRecord == [link : Link, stage : Stages, pt : Targets \cup {NoWrap}, at : 0..1]
RegType == /\ DOMAIN reg \subseteq DOMAIN kind
           /\ \A i \in DOMAIN reg : reg[i] \in [started : BOOLEAN, cancelled : BOOLEAN]
ChainType ==
  /\ DOMAIN kind \subseteq Ids /\ queue \in Seq(Link) /\ Len(queue) <= MaxQueue
  /\ run \in RunRecord /\ RegType
  /\ cancelled \cup replied \cup turns \cup late \subseteq DOMAIN kind
WireType ==
  /\ DOMAIN inflight \subseteq {run.link.id + run.at} /\ issued \in [Targets -> 0..MaxIds]
RestType ==
  /\ ended \in BOOLEAN /\ dying \in BOOLEAN /\ exited \in BOOLEAN /\ negotiated \in Versions
  /\ {wrap, scope} \subseteq Targets \cup {NoWrap} /\ retargets \in 0..MaxRetargets
  /\ refused \subseteq DOMAIN kind
ChainPart == ChainType /\ ChainInv /\ WordInv
WirePart == WireType /\ WireInv
SubsPart == refs \in Nat /\ SubsInv

(* A subscription is known by its id, so the resources held are counted by *)
(* the ids of those who hold them.                                         *)
Sub == [id : Ids, uri : BOOLEAN]
OncePerId == \A i, j \in DOMAIN subs : subs[i].id = subs[j].id => i = j
HolderIds == {subs[k].id : k \in Holders}

LEMMA HoldersFacts ==
  ASSUME subs \in Seq(Sub), OncePerId
  PROVE  /\ IsFiniteSet(HolderIds) /\ HolderIds \subseteq Ids
         /\ Cardinality(Holders) = Cardinality(HolderIds)
         /\ Cardinality(Holders) \in 0..MaxIds
<1> DEFINE name == [k \in Holders |-> subs[k].id]
<1>1. IsFiniteSet(Ids) /\ Cardinality(Ids) = MaxIds
  BY FS_Interval DEF Ids
<1>2. \A k \in DOMAIN subs : subs[k] \in Sub
  BY SeqFacts
<1>3. HolderIds \subseteq Ids
  BY <1>2 DEF Holders, HolderIds, Sub
<1>4. name \in Bijection(Holders, HolderIds)
  <2>1. name \in [Holders -> HolderIds]
    BY DEF HolderIds
  <2>2. \A i, j \in Holders : name[i] = name[j] => i = j
    BY DEF Holders, OncePerId
  <2>3. \A x \in HolderIds : \E k \in Holders : name[k] = x
    BY DEF HolderIds
  <2> QED BY <2>1, <2>2, <2>3 DEF Bijection, Injection, Surjection, IsInjective
<1>5. IsFiniteSet(HolderIds) /\ Cardinality(HolderIds) <= MaxIds /\ Cardinality(HolderIds) \in Nat
  BY <1>1, <1>3, FS_Subset, FS_CardinalityType
<1>6. Cardinality(Holders) = Cardinality(HolderIds)
  <2>1. ExistsBijection(HolderIds, Holders)
    BY <1>4, Fun_BijInverse DEF ExistsBijection
  <2> QED BY <1>5, <2>1, FS_Bijection
<1> QED BY <1>1, <1>3, <1>5, <1>6

LEMMA Parts == LoopInv <=> ChainPart /\ WirePart /\ SubsPart /\ RestType
<1>1. SubsInv => subs \in Seq(Sub) /\ OncePerId /\ refs <= Cardinality(Holders)
  BY DEF SubsInv, Sub, OncePerId
<1>2. SubsInv /\ refs \in Nat => refs \in 0..MaxIds
  BY <1>1, HoldersFacts
<1>3. SubsInv => \A i \in DOMAIN subs : subs[i] \in [id : Ids, uri : BOOLEAN]
  <2>1. \A i \in DOMAIN subs : subs \in Seq(Sub) => subs[i] \in Sub
    BY SeqFacts
  <2> QED BY <1>1, <2>1 DEF Sub
<1>4. refs \in 0..MaxIds => refs \in Nat
  OBVIOUS
<1>5. {ended, dying, exited} \subseteq BOOLEAN <=> ended \in BOOLEAN /\ dying \in BOOLEAN /\ exited \in BOOLEAN
  BY Zenon
<1>6. cancelled \cup replied \cup turns \cup late \cup refused \subseteq DOMAIN kind
        <=> /\ cancelled \cup replied \cup turns \cup late \subseteq DOMAIN kind
            /\ refused \subseteq DOMAIN kind
  OBVIOUS
<1> QED BY <1>2, <1>3, <1>4, <1>5, <1>6, Zenon
    DEF LoopInv, TypeOK, ChainPart, ChainType, RegType, WirePart, WireType, SubsPart, RestType, RunRecord

-----------------------------------------------------------------------------
(* The chain.                                                              *)
LEMMA FreshFacts ==
  ASSUME ChainPart
  PROVE  \E n \in 0..MaxIds : DOMAIN kind = 1..n /\ Fresh = n + 1
<1>1. PICK n \in 0..MaxIds : DOMAIN kind = 1..n
  BY DEF ChainPart, ChainInv
<1>2. Cardinality(1..n) = n
  BY FS_Interval
<1> QED BY <1>1, <1>2 DEF Fresh

LEMMA ChainFacts ==
  ASSUME ChainPart
  PROVE  /\ queue \in Seq(Link) /\ \A k \in DOMAIN queue : queue[k] \in Link /\ k \in Nat
         /\ \A k \in DOMAIN queue : Fits(queue[k]) /\ LinkIds(queue[k]) \subseteq DOMAIN kind
         /\ Fits(run.link) /\ LinkIds(run.link) \subseteq DOMAIN kind
         /\ DOMAIN kind \subseteq Ids /\ replied \subseteq DOMAIN kind /\ cancelled \subseteq DOMAIN kind
         /\ run \in RunRecord /\ run.link \in Link
         /\ Before(replied, LinkIds(run.link))
         /\ \A k \in DOMAIN queue : Before(replied \cup LinkIds(run.link), Due(queue[k]))
         /\ \A j, k \in DOMAIN queue : j < k => Before(LinkIds(queue[j]), Due(queue[k]))
<1>1. queue \in Seq(Link) /\ run \in RunRecord /\ replied \subseteq DOMAIN kind /\ cancelled \subseteq DOMAIN kind
  BY DEF ChainPart, ChainType
<1>2. \A k \in DOMAIN queue : queue[k] \in Link /\ k \in Nat
  BY <1>1, SeqFacts
<1>3. \A link : Fits(link) => LinkIds(link) \subseteq DOMAIN kind
  BY DEF Fits
<1> QED BY <1>1, <1>2, <1>3 DEF ChainPart, ChainType, ChainInv, RunRecord

(* A message is queued; the ids it brings are new.                         *)
LEMMA QueueInv ==
  ASSUME ChainPart, NEW link \in Link, Queue(link),
         NEW m \in 0..MaxIds, DOMAIN kind' = 1..m, DOMAIN kind \subseteq DOMAIN kind',
         \A i \in DOMAIN kind : kind'[i] = kind[i],
         Fits(link)', Due(link) \cap DOMAIN kind = {},
         RegType', DOMAIN reg \subseteq DOMAIN reg', \A i \in DOMAIN reg : reg'[i] = reg[i],
         DOMAIN reg' \cap DOMAIN kind \subseteq DOMAIN reg, \A i \in DOMAIN reg' : kind'[i] = "single"
  PROVE  ChainPart'
<1>1. /\ Len(queue) < MaxQueue /\ queue' = Append(queue, link)
      /\ UNCHANGED <<run, subs, cancelled, replied, turns, late>>
  BY DEF Queue, subVars, outVars
<1>2. /\ queue \in Seq(Link) /\ \A k \in DOMAIN queue : queue[k] \in Link /\ k \in Nat
      /\ \A k \in DOMAIN queue : Fits(queue[k]) /\ LinkIds(queue[k]) \subseteq DOMAIN kind
      /\ Fits(run.link) /\ LinkIds(run.link) \subseteq DOMAIN kind
      /\ replied \subseteq DOMAIN kind /\ cancelled \subseteq DOMAIN kind
      /\ \A k \in DOMAIN queue : Before(replied \cup LinkIds(run.link), Due(queue[k]))
      /\ \A j, k \in DOMAIN queue : j < k => Before(LinkIds(queue[j]), Due(queue[k]))
  BY ChainFacts
<1>3. /\ queue' \in Seq(Link) /\ Len(queue') <= MaxQueue
      /\ \A k \in DOMAIN queue' : \/ k \in DOMAIN queue /\ queue'[k] = queue[k]
                                  \/ k \notin DOMAIN queue /\ queue'[k] = link
      /\ \A j, k \in DOMAIN queue' : j < k => j \in DOMAIN queue
  <2>1. /\ queue' \in Seq(Link) /\ Len(queue') = Len(queue) + 1
        /\ \A k \in DOMAIN queue' : \/ k \in DOMAIN queue /\ queue'[k] = queue[k]
                                    \/ k \notin DOMAIN queue /\ queue'[k] = link
        /\ \A j, k \in DOMAIN queue' : j < k => j \in DOMAIN queue
    BY <1>1, <1>2, AppendFacts
  <2>2. Len(queue) \in Nat
    BY <1>2, SeqFacts
  <2> QED BY <1>1, <2>1, <2>2
<1>4. ChainType'
  <2>1. DOMAIN kind' \subseteq Ids
    BY DEF Ids
  <2> QED BY <1>1, <1>3, <2>1 DEF ChainPart, ChainType
<1>5. \A l : Fits(l) => Fits(l)'
  BY DEF Fits, LinkIds, KindOf
<1>6. PICK n \in 0..MaxIds : DOMAIN kind = 1..n
  BY DEF ChainPart, ChainInv
<1>7. \A S \in SUBSET DOMAIN kind : Before(S, Due(link))
  <2>1. \A i \in DOMAIN kind, j \in DOMAIN kind' \ DOMAIN kind : i < j
    BY <1>6
  <2>2. Due(link) \subseteq DOMAIN kind'
    BY DEF Fits, Due, LinkIds
  <2> QED BY <2>1, <2>2 DEF Before
<1>8. ChainInv'
  <2>1. Fits(run.link)' /\ \A k \in DOMAIN queue' : Fits(queue[k])'
    BY <1>1, <1>2, <1>3, <1>5
  <2>2. \A k \in DOMAIN queue' :
          /\ Before(replied \cup LinkIds(run.link), Due(queue'[k]))
          /\ \A j \in DOMAIN queue' : j < k => Before(LinkIds(queue'[j]), Due(queue'[k]))
    BY <1>2, <1>3, <1>7
  <2>3. /\ run.link.kind \notin Listens /\ (run.stage = "idle" => run = Idle)
        /\ Before(replied, LinkIds(run.link))
    BY DEF ChainPart, ChainInv
  <2> QED BY <1>1, <2>1, <2>2, <2>3 DEF ChainInv, LinkIds, Due
<1>9. WordInv'
  <2>1. turns' = {} /\ \A i \in late' : kind'[i] # "single"
    BY <1>1 DEF ChainPart, ChainType, WordInv
  <2>2. /\ \A i \in DOMAIN reg' : kind'[i] = "single"
        /\ \A i \in cancelled' \cap DOMAIN reg' : reg'[i].cancelled
    BY <1>1, <1>2 DEF ChainPart, WordInv
  <2>3. \A k \in DOMAIN subs' : subs'[k].id \in DOMAIN kind' /\ kind'[subs'[k].id] \in Listens
    BY <1>1 DEF ChainPart, WordInv
  <2> QED BY <2>1, <2>2, <2>3, Zenon DEF WordInv
<1> QED BY <1>4, <1>8, <1>9 DEF ChainPart

(* The link at the head runs, or is done at once.                          *)
LEMMA TakeInv ==
  ASSUME ChainPart, queue # <<>>, run = Idle, queue' = Tail(queue), UNCHANGED <<kind, cancelled>>,
         NEW head, head = Head(queue),
         run' \in RunRecord, run'.link \in {head, NoLink}, run'.link.kind \notin Listens,
         run'.stage = "idle" => run' = Idle,
         replied \subseteq replied', replied' \subseteq replied \cup LinkIds(head),
         run'.link = NoLink \/ replied' = replied,
         RegType', DOMAIN reg' \subseteq DOMAIN reg,
         DOMAIN reg \ DOMAIN reg' \subseteq (IF run'.link = NoLink THEN Due(head) ELSE {}),
         \A i \in DOMAIN reg' : reg'[i].cancelled = reg[i].cancelled,
         turns' = {}, \A i \in late' : i \in DOMAIN kind /\ kind[i] # "single",
         \A k \in DOMAIN subs' : subs'[k].id \in DOMAIN kind /\ kind[subs'[k].id] \in Listens
  PROVE  ChainPart'
<1>1. /\ queue \in Seq(Link) /\ \A k \in DOMAIN queue : queue[k] \in Link /\ k \in Nat
      /\ \A k \in DOMAIN queue : Fits(queue[k]) /\ LinkIds(queue[k]) \subseteq DOMAIN kind
      /\ DOMAIN kind \subseteq Ids /\ replied \subseteq DOMAIN kind /\ cancelled \subseteq DOMAIN kind
      /\ \A k \in DOMAIN queue : Before(replied \cup LinkIds(run.link), Due(queue[k]))
      /\ \A j, k \in DOMAIN queue : j < k => Before(LinkIds(queue[j]), Due(queue[k]))
  BY ChainFacts
<1>2. /\ 1 \in DOMAIN queue /\ head = queue[1] /\ head \in Link
      /\ queue' \in Seq(Link) /\ Len(queue') = Len(queue) - 1 /\ Len(queue) \in Nat
      /\ \A k \in DOMAIN queue' : k + 1 \in DOMAIN queue /\ queue'[k] = queue[k + 1] /\ k \in Nat /\ 1 < k + 1
  <2>1. /\ 1 \in DOMAIN queue /\ Head(queue) = queue[1] /\ Head(queue) \in Link
        /\ Tail(queue) \in Seq(Link) /\ Len(Tail(queue)) = Len(queue) - 1
        /\ \A k \in DOMAIN Tail(queue) : k + 1 \in DOMAIN queue /\ Tail(queue)[k] = queue[k + 1] /\ k \in Nat /\ 1 < k + 1
    BY <1>1, TailFacts
  <2> QED BY <1>1, <2>1, SeqFacts
<1>3. ChainType'
  <2>1. Len(queue') <= MaxQueue
    BY <1>2 DEF ChainPart, ChainType
  <2>2. cancelled' \cup replied' \cup turns' \cup late' \subseteq DOMAIN kind'
    BY <1>1, <1>2
  <2> QED BY <1>1, <1>2, <2>1, <2>2 DEF ChainType
<1>4. LinkIds(NoLink) = {} /\ \A l \in Link : Due(l) \subseteq LinkIds(l) /\ (l.kind \in Singles => l.id \in Due(l))
  BY DEF LinkIds, NoLink, Due, Link, Singles, Listens
<1>5. LinkIds(run'.link) \subseteq LinkIds(head)
  BY <1>4
<1>6. \A k \in DOMAIN queue' : Fits(queue[k])'
  <2> SUFFICES ASSUME NEW k \in DOMAIN queue' PROVE Fits(queue[k])'
    OBVIOUS
  <2>1. PICK l : l = queue'[k]
    OBVIOUS
  <2>2. Fits(l) /\ Before(LinkIds(head), Due(l)) /\ l \in Link
    BY <1>1, <1>2, <2>1
  <2>3. l.kind \in Singles => l.id \in DOMAIN reg'
    <3> SUFFICES ASSUME l.kind \in Singles PROVE l.id \in DOMAIN reg'
      OBVIOUS
    <3>1. l.id \in DOMAIN reg /\ l.id \in Due(l) /\ l.id \in DOMAIN kind
      BY <1>4, <2>2 DEF Fits, LinkIds, Singles
    <3>2. l.id \notin Due(head)
      BY <1>1, <1>2, <1>4, <2>2, <3>1 DEF Before, Ids
    <3> QED BY <3>1, <3>2
  <2>4. Fits(l)'
    BY <2>2, <2>3 DEF Fits, LinkIds, KindOf
  <2> QED BY <2>1, <2>4
<1>7. Fits(run.link)'
  <2>1. CASE run'.link = NoLink
    BY <2>1 DEF Fits, LinkIds, NoLink, Singles
  <2>2. CASE run'.link = head /\ head # NoLink
    <3>1. Fits(head)
      BY <1>1, <1>2
    <3>2. Fits(head)'
      BY <2>2, <3>1 DEF Fits, LinkIds, KindOf
    <3> QED BY <2>2, <3>2
  <2> QED BY <2>1, <2>2
<1>8. Before(replied', LinkIds(run'.link))
  <2>1. CASE run'.link = NoLink
    BY <1>4, <2>1 DEF Before
  <2>2. CASE run'.link = head /\ replied' = replied
    <3>1. Before(replied, Due(head)) /\ Due(head) = LinkIds(head)
      BY <1>1, <1>2, <2>2 DEF Before, Due
    <3> QED BY <2>2, <3>1
  <2> QED BY <2>1, <2>2
<1>9. \A k \in DOMAIN queue' :
        /\ Before(replied' \cup LinkIds(run'.link), Due(queue'[k]))
        /\ \A j \in DOMAIN queue' : j < k => Before(LinkIds(queue'[j]), Due(queue'[k]))
  <2> SUFFICES ASSUME NEW k \in DOMAIN queue'
               PROVE  /\ Before(replied' \cup LinkIds(run'.link), Due(queue'[k]))
                      /\ \A j \in DOMAIN queue' : j < k => Before(LinkIds(queue'[j]), Due(queue'[k]))
    OBVIOUS
  <2>1. Before(replied, Due(queue'[k])) /\ Before(LinkIds(head), Due(queue'[k]))
    BY <1>1, <1>2 DEF Before
  <2>2. \A j \in DOMAIN queue' : j < k => Before(LinkIds(queue'[j]), Due(queue'[k]))
    BY <1>1, <1>2
  <2>3. replied' \cup LinkIds(run'.link) \subseteq replied \cup LinkIds(head)
    BY <1>5
  <2> QED BY <2>1, <2>2, <2>3 DEF Before
<1>10. ChainInv'
  <2>1. \E n \in 0..MaxIds : DOMAIN kind' = 1..n
    BY DEF ChainPart, ChainInv
  <2> QED BY <1>6, <1>7, <1>8, <1>9, <2>1 DEF ChainInv, LinkIds, Due
<1>11. WordInv'
  BY DEF ChainPart, WordInv
<1> QED BY <1>3, <1>10, <1>11 DEF ChainPart

(* The link under way goes on or is done; the queue stays.                 *)
LEMMA RunInv ==
  ASSUME ChainPart, UNCHANGED <<kind, queue>>,
         run' \in RunRecord, run'.link \in {run.link, NoLink}, run'.stage = "idle" => run' = Idle,
         replied \subseteq replied', replied' \subseteq replied \cup LinkIds(run.link),
         run'.link = NoLink \/ replied' = replied,
         RegType', DOMAIN reg' \subseteq DOMAIN reg,
         DOMAIN reg \ DOMAIN reg' \subseteq (IF run'.link = NoLink THEN LinkIds(run.link) ELSE {}),
         cancelled' \subseteq DOMAIN kind, \A i \in cancelled' \cap DOMAIN reg' : reg'[i].cancelled,
         turns' = {}, \A i \in late' : i \in DOMAIN kind /\ kind[i] # "single",
         \A k \in DOMAIN subs' : subs'[k].id \in DOMAIN kind /\ kind[subs'[k].id] \in Listens
  PROVE  ChainPart'
<1>1. /\ queue \in Seq(Link) /\ \A k \in DOMAIN queue : queue[k] \in Link /\ k \in Nat
      /\ \A k \in DOMAIN queue : Fits(queue[k]) /\ LinkIds(queue[k]) \subseteq DOMAIN kind
      /\ Fits(run.link) /\ LinkIds(run.link) \subseteq DOMAIN kind
      /\ DOMAIN kind \subseteq Ids /\ replied \subseteq DOMAIN kind
      /\ Before(replied, LinkIds(run.link))
      /\ \A k \in DOMAIN queue : Before(replied \cup LinkIds(run.link), Due(queue[k]))
      /\ \A j, k \in DOMAIN queue : j < k => Before(LinkIds(queue[j]), Due(queue[k]))
  BY ChainFacts
<1>2. ChainType'
  BY <1>1 DEF ChainPart, ChainType
<1>3. LinkIds(NoLink) = {} /\ \A l \in Link : l.kind \in Singles => l.id \in Due(l) /\ l.id \in LinkIds(l)
  BY DEF LinkIds, NoLink, Due, Link, Singles, Listens
<1>4. \A k \in DOMAIN queue' : Fits(queue[k])'
  <2> SUFFICES ASSUME NEW k \in DOMAIN queue' PROVE Fits(queue[k])'
    OBVIOUS
  <2>1. PICK l : l = queue'[k]
    OBVIOUS
  <2>2. Fits(l) /\ Before(LinkIds(run.link), Due(l)) /\ l \in Link
    BY <1>1, <2>1 DEF Before
  <2>3. l.kind \in Singles => l.id \in DOMAIN reg'
    <3> SUFFICES ASSUME l.kind \in Singles PROVE l.id \in DOMAIN reg'
      OBVIOUS
    <3>1. l.id \in DOMAIN reg /\ l.id \in Due(l) /\ l.id \in DOMAIN kind
      BY <1>3, <2>2 DEF Fits
    <3>2. l.id \notin LinkIds(run.link)
      BY <1>1, <2>2, <3>1 DEF Before, Ids
    <3> QED BY <3>1, <3>2
  <2>4. Fits(l)'
    BY <2>2, <2>3 DEF Fits, LinkIds, KindOf
  <2> QED BY <2>1, <2>4
<1>5. Fits(run.link)'
  <2>1. CASE run'.link = NoLink
    BY <2>1 DEF Fits, LinkIds, NoLink, Singles
  <2>2. CASE run'.link = run.link /\ run.link # NoLink
    <3>1. PICK l : l = run.link
      OBVIOUS
    <3>2. Fits(l)'
      BY <1>1, <2>2, <3>1 DEF Fits, LinkIds, KindOf
    <3> QED BY <2>2, <3>1, <3>2
  <2> QED BY <2>1, <2>2
<1>6. Before(replied', LinkIds(run'.link)) /\ run'.link.kind \notin Listens
  <2>1. CASE run'.link = NoLink
    BY <1>3, <2>1 DEF Before, NoLink, Listens
  <2>2. CASE run'.link = run.link /\ replied' = replied
    BY <1>1, <2>2 DEF ChainPart, ChainInv
  <2> QED BY <2>1, <2>2
<1>7. replied' \cup LinkIds(run'.link) \subseteq replied \cup LinkIds(run.link)
  BY <1>3
<1>8. ChainInv'
  <2>1. \E n \in 0..MaxIds : DOMAIN kind' = 1..n
    BY DEF ChainPart, ChainInv
  <2>2. \A k \in DOMAIN queue : Before(replied' \cup LinkIds(run'.link), Due(queue[k]))
    BY <1>1, <1>7 DEF Before
  <2>3. \A k \in DOMAIN queue' :
          /\ Before(replied' \cup LinkIds(run'.link), Due(queue'[k]))
          /\ \A j \in DOMAIN queue' : j < k => Before(LinkIds(queue'[j]), Due(queue'[k]))
    BY <1>1, <2>2
  <2> QED BY <1>4, <1>5, <1>6, <2>1, <2>3 DEF ChainInv, LinkIds, Due
<1>9. WordInv'
  BY DEF ChainPart, WordInv
<1> QED BY <1>2, <1>8, <1>9 DEF ChainPart

-----------------------------------------------------------------------------
(* What is said: lines to requests that wait for them.                     *)
LEMMA ReplyWord ==
  ASSUME ChainPart, NEW ids \in SUBSET DOMAIN kind, Before(replied, ids), Reply(ids),
         \A i \in ids : kind[i] = "single" => i \notin cancelled
  PROVE  /\ turns' = {} /\ \A i \in late' : i \in DOMAIN kind /\ kind[i] # "single"
         /\ replied' = replied \cup ids
<1>1. /\ replied \subseteq DOMAIN kind /\ DOMAIN kind \subseteq Nat /\ late \subseteq DOMAIN kind
      /\ turns = {} /\ \A i \in late : kind[i] # "single"
  BY DEF ChainPart, ChainType, WordInv, Ids
<1>2. \A i \in ids : i \notin replied /\ ~ \E j \in replied : j > i
  BY <1>1 DEF Before
<1> QED BY <1>1, <1>2 DEF Reply, Lines

LEMMA AnswerWord ==
  ASSUME ChainPart, NEW i \in DOMAIN reg, Before(replied, {i}), Answer(i), kind' = kind
  PROVE  /\ turns' = {} /\ \A j \in late' : j \in DOMAIN kind /\ kind[j] # "single"
         /\ replied \subseteq replied' /\ replied' \subseteq replied \cup {i}
         /\ RegType' /\ DOMAIN reg' = DOMAIN reg \ {i} /\ \A j \in DOMAIN reg' : reg'[j] = reg[j]
<1>1. RegType' /\ DOMAIN reg' = DOMAIN reg \ {i} /\ \A j \in DOMAIN reg' : reg'[j] = reg[j]
  <2>1. reg' = [j \in DOMAIN reg \ {i} |-> reg[j]]
    BY DEF Answer, Leaves
  <2>2. DOMAIN reg' = DOMAIN reg \ {i} /\ \A j \in DOMAIN reg' : reg'[j] = reg[j]
    BY <2>1
  <2> QED BY <2>2 DEF ChainPart, ChainType, RegType
<1>2. CASE reg[i].cancelled
  <2>1. UNCHANGED <<replied, turns, late>>
    BY <1>2 DEF Answer, NoReply, outVars
  <2> QED BY <1>1, <2>1 DEF ChainPart, ChainType, WordInv
<1>3. CASE ~reg[i].cancelled
  <2>1. Reply({i})
    BY <1>3 DEF Answer
  <2>2. {i} \in SUBSET DOMAIN kind /\ i \notin cancelled
    BY <1>3 DEF ChainPart, ChainType, RegType, WordInv
  <2> QED BY <1>1, <2>1, <2>2, ReplyWord
<1> QED BY <1>2, <1>3

LEMMA SameWord ==
  ASSUME ChainPart, UNCHANGED outVars
  PROVE  /\ replied' = replied /\ turns' = {}
         /\ \A i \in late' : i \in DOMAIN kind /\ kind[i] # "single"
  BY DEF ChainPart, ChainType, WordInv, outVars

LEMMA SubWord ==
  ASSUME ChainPart, UNCHANGED subs
  PROVE  \A k \in DOMAIN subs' : subs'[k].id \in DOMAIN kind /\ kind[subs'[k].id] \in Listens
  BY DEF ChainPart, WordInv

LEMMA LinkFacts ==
  ASSUME NEW link \in Link
  PROVE  /\ link.kind \in Singles => LinkIds(link) = {link.id} /\ Due(link) = {link.id}
         /\ link.kind \in Listens => LinkIds(link) = {link.id} /\ Due(link) = {}
         /\ link.kind = "batch" => LinkIds(link) = {link.id, link.id + 1} /\ Due(link) = LinkIds(link)
         /\ link.kind = "note" => LinkIds(link) = {} /\ Due(link) = {}
         /\ link.kind \in Singles \cup Listens \cup {"batch", "note"} /\ link.id \in 0..MaxIds
  BY DEF Link, LinkIds, Due, Singles, Listens

LEMMA HeadFacts ==
  ASSUME ChainPart, queue # <<>>, run = Idle, NEW head, head = Head(queue)
  PROVE  /\ head \in Link /\ LinkIds(head) \subseteq DOMAIN kind /\ Before(replied, Due(head))
         /\ head.kind \in Singles => head.id \in DOMAIN reg
         /\ \A i \in LinkIds(head) : kind[i] = KindOf(head)
         /\ Idle \in RunRecord /\ Idle.link = NoLink /\ NoLink.kind \notin Listens
         /\ RegType
<1>1. /\ queue \in Seq(Link) /\ \A k \in DOMAIN queue : queue[k] \in Link /\ k \in Nat
      /\ \A k \in DOMAIN queue : Fits(queue[k]) /\ LinkIds(queue[k]) \subseteq DOMAIN kind
      /\ \A k \in DOMAIN queue : Before(replied \cup LinkIds(run.link), Due(queue[k]))
      /\ run \in RunRecord
  BY ChainFacts
<1>2. 1 \in DOMAIN queue /\ head = queue[1]
  BY <1>1, TailFacts
<1>3. Idle.link = NoLink /\ NoLink.kind \notin Listens
  BY DEF Idle, NoLink, Listens
<1>4. RegType
  BY DEF ChainPart, ChainType
<1>5. Fits(head) /\ head \in Link /\ LinkIds(head) \subseteq DOMAIN kind
  BY <1>1, <1>2
<1>6. Before(replied, Due(head))
  BY <1>1, <1>2 DEF Before
<1> QED BY <1>1, <1>3, <1>4, <1>5, <1>6 DEF Fits

-----------------------------------------------------------------------------
(* The actions of the client.                                              *)
LEMMA SendRequestInv ==
  ASSUME ChainPart, NEW k \in Singles, SendRequest(k)
  PROVE  ChainPart'
<1>0. PICK link : link = [kind |-> k, id |-> Fresh]
  OBVIOUS
<1>1. PICK n \in 0..MaxIds : DOMAIN kind = 1..n /\ Fresh = n + 1
  BY FreshFacts
<1>2. /\ Fresh \in Ids /\ Queue(link) /\ Names({Fresh}, "single")
      /\ reg' = [i \in DOMAIN reg \cup {Fresh} |->
                   IF i = Fresh THEN [started |-> FALSE, cancelled |-> FALSE] ELSE reg[i]]
  BY <1>0 DEF SendRequest
<1>3. n + 1 \in 0..MaxIds /\ Fresh \notin DOMAIN kind
  BY <1>1, <1>2 DEF Ids
<1>4. link \in Link /\ link.kind = k /\ link.id = Fresh
  BY <1>0, <1>1, <1>3 DEF Link
<1>5. DOMAIN kind' = 1..(n + 1) /\ kind'[Fresh] = "single" /\ \A i \in DOMAIN kind : kind'[i] = kind[i]
  <2>1. DOMAIN kind' = DOMAIN kind \cup {Fresh} /\ \A i \in DOMAIN kind' : kind'[i] = IF i = Fresh THEN "single" ELSE kind[i]
    BY <1>2 DEF Names
  <2> QED BY <1>1, <1>3, <2>1
<1>6. /\ DOMAIN reg' = DOMAIN reg \cup {Fresh} /\ RegType'
      /\ \A i \in DOMAIN reg : reg'[i] = reg[i]
  <2>1. RegType
    BY DEF ChainPart, ChainType
  <2>2. Fresh \notin DOMAIN reg
    BY <1>3, <2>1 DEF RegType
  <2>3. DOMAIN reg' = DOMAIN reg \cup {Fresh} /\ \A i \in DOMAIN reg : reg'[i] = reg[i]
    BY <1>2, <2>2
  <2>4. reg'[Fresh] \in [started : BOOLEAN, cancelled : BOOLEAN]
    BY <1>2
  <2>5. DOMAIN reg' \subseteq DOMAIN kind'
    BY <1>1, <1>5, <2>1, <2>3 DEF RegType
  <2> QED BY <2>1, <2>3, <2>4, <2>5 DEF RegType
<1>7. LinkIds(link) = {Fresh} /\ Due(link) = {Fresh}
  BY <1>4, LinkFacts
<1>8. Fits(link)'
  BY <1>1, <1>4, <1>5, <1>6 DEF Fits, LinkIds, KindOf, Singles
<1>9. DOMAIN reg' \cap DOMAIN kind \subseteq DOMAIN reg
  BY <1>3, <1>6
<1>10. \A i \in DOMAIN reg' : kind'[i] = "single"
  BY <1>5, <1>6 DEF ChainPart, ChainType, RegType, WordInv
<1> QED BY <1>1, <1>2, <1>3, <1>4, <1>5, <1>6, <1>7, <1>8, <1>9, <1>10, QueueInv

LEMMA SendListenInv ==
  ASSUME ChainPart, NEW k \in Listens, SendListen(k)
  PROVE  ChainPart'
<1>1. PICK n \in 0..MaxIds : DOMAIN kind = 1..n /\ Fresh = n + 1
  BY FreshFacts
<1>2. reg' = reg /\ RegType
  BY DEF SendListen, ChainPart, ChainType
<1>3. k \notin Singles /\ k # "note" /\ k # "batch"
  BY DEF Listens, Singles
<1>4. CASE Fresh \in Ids /\ Queue([kind |-> k, id |-> Fresh]) /\ Names({Fresh}, k)
  <2>1. PICK link : link = [kind |-> k, id |-> Fresh]
    OBVIOUS
  <2>2. n + 1 \in 0..MaxIds /\ Fresh \notin DOMAIN kind
    BY <1>1, <1>4 DEF Ids
  <2>3. link \in Link /\ link.kind = k /\ link.id = Fresh
    BY <1>1, <2>1, <2>2 DEF Link
  <2>4. DOMAIN kind' = 1..(n + 1) /\ kind'[Fresh] = k /\ \A i \in DOMAIN kind : kind'[i] = kind[i]
    <3>1. DOMAIN kind' = DOMAIN kind \cup {Fresh} /\ \A i \in DOMAIN kind' : kind'[i] = IF i = Fresh THEN k ELSE kind[i]
      BY <1>4 DEF Names
    <3> QED BY <1>1, <2>2, <3>1
  <2>5. Fits(link)'
    BY <1>1, <1>3, <2>3, <2>4 DEF Fits, LinkIds, KindOf
  <2>6. RegType' /\ Due(link) = {}
    BY <1>1, <1>2, <2>3, <2>4, LinkFacts DEF RegType
  <2>7. Queue(link) /\ DOMAIN kind \subseteq DOMAIN kind'
    BY <1>1, <1>4, <2>1, <2>4
  <2>8. \A i \in DOMAIN reg' : kind'[i] = "single"
    BY <1>2, <2>4 DEF ChainPart, RegType, WordInv
  <2> QED BY <1>2, <2>2, <2>3, <2>4, <2>5, <2>6, <2>7, <2>8, QueueInv
<1>5. CASE kind' = kind /\ \E i \in DOMAIN kind \ cancelled : kind[i] = k /\ Queue([kind |-> k, id |-> i])
  <2>1. PICK i \in DOMAIN kind : kind[i] = k /\ Queue([kind |-> k, id |-> i])
    BY <1>5
  <2>2. PICK link : link = [kind |-> k, id |-> i]
    OBVIOUS
  <2>3. link \in Link /\ link.kind = k /\ link.id = i
    BY <1>1, <2>2 DEF Link
  <2>4. Fits(link)'
    BY <1>3, <1>5, <2>1, <2>3 DEF Fits, LinkIds, KindOf
  <2>5. RegType' /\ Due(link) = {} /\ Queue(link)
    BY <1>2, <1>5, <2>1, <2>2, <2>3, LinkFacts DEF RegType
  <2>6. \A j \in DOMAIN reg' : kind'[j] = "single"
    BY <1>2, <1>5 DEF ChainPart, RegType, WordInv
  <2> QED BY <1>1, <1>2, <1>5, <2>3, <2>4, <2>5, <2>6, QueueInv
<1> QED BY <1>4, <1>5 DEF SendListen

LEMMA SendBatchInv ==
  ASSUME ChainPart, SendBatch
  PROVE  ChainPart'
<1>1. PICK n \in 0..MaxIds : DOMAIN kind = 1..n /\ Fresh = n + 1
  BY FreshFacts
<1>2. /\ Fresh + 1 \in Ids /\ Queue([kind |-> "batch", id |-> Fresh])
      /\ Names({Fresh, Fresh + 1}, "batch") /\ reg' = reg /\ RegType
  BY DEF SendBatch, ChainPart, ChainType
<1>3. PICK link : link = [kind |-> "batch", id |-> Fresh]
  OBVIOUS
<1>4. n + 2 \in 0..MaxIds /\ Fresh \notin DOMAIN kind /\ Fresh + 1 \notin DOMAIN kind
  BY <1>1, <1>2 DEF Ids
<1>5. link \in Link /\ link.kind = "batch" /\ link.id = Fresh
  BY <1>1, <1>3, <1>4 DEF Link
<1>6. /\ DOMAIN kind' = 1..(n + 2) /\ kind'[Fresh] = "batch" /\ kind'[Fresh + 1] = "batch"
      /\ \A i \in DOMAIN kind : kind'[i] = kind[i]
  <2>1. /\ DOMAIN kind' = DOMAIN kind \cup {Fresh, Fresh + 1}
        /\ \A i \in DOMAIN kind' : kind'[i] = IF i \in {Fresh, Fresh + 1} THEN "batch" ELSE kind[i]
    BY <1>2 DEF Names
  <2> QED BY <1>1, <1>4, <2>1
<1>7. Fits(link)'
  BY <1>1, <1>5, <1>6 DEF Fits, LinkIds, KindOf, Singles
<1>8. RegType' /\ Due(link) = {Fresh, Fresh + 1}
  BY <1>1, <1>2, <1>5, <1>6, LinkFacts DEF RegType
<1>9. Queue(link) /\ DOMAIN kind \subseteq DOMAIN kind' /\ Due(link) \cap DOMAIN kind = {}
  BY <1>1, <1>2, <1>3, <1>4, <1>6, <1>8
<1>10. \A i \in DOMAIN reg' : kind'[i] = "single"
  BY <1>2, <1>6 DEF ChainPart, RegType, WordInv
<1> QED BY <1>2, <1>4, <1>5, <1>6, <1>7, <1>8, <1>9, <1>10, QueueInv

LEMMA SendNoteInv ==
  ASSUME ChainPart, SendNote
  PROVE  ChainPart'
<1>1. PICK n \in 0..MaxIds : DOMAIN kind = 1..n
  BY FreshFacts
<1>2. Queue(NoLink) /\ kind' = kind /\ reg' = reg /\ RegType
  BY DEF SendNote, ChainPart, ChainType
<1>3. NoLink \in Link /\ Due(NoLink) = {}
  BY DEF NoLink, Link, Due, LinkIds, Listens
<1>4. Fits(NoLink)'
  BY DEF Fits, LinkIds, NoLink, Singles
<1>5. RegType'
  BY <1>2 DEF RegType
<1>6. \A i \in DOMAIN reg' : kind'[i] = "single"
  BY <1>2 DEF ChainPart, WordInv
<1> QED BY <1>1, <1>2, <1>3, <1>4, <1>5, <1>6, QueueInv

-----------------------------------------------------------------------------
(* The actions of the chain: a link is taken.                              *)
LEMMA TakesFacts ==
  ASSUME NEW k, Takes(k), Fixed
  PROVE  /\ queue # <<>> /\ run = Idle /\ queue' = Tail(queue) /\ Head(queue).kind = k
         /\ UNCHANGED <<kind, cancelled, wrap, retargets, ended, dying, exited>>
  BY DEF Takes, Fixed, wrapVars, endVars

LEMMA MarksFacts ==
  ASSUME ChainPart, NEW i \in DOMAIN reg, Marks(i), kind' = kind
  PROVE  /\ RegType' /\ DOMAIN reg' = DOMAIN reg
         /\ \A j \in DOMAIN reg' : reg'[j].cancelled = reg[j].cancelled
<1>1. reg' = [reg EXCEPT ![i].started = TRUE] /\ RegType
  BY DEF Marks, ChainPart, ChainType
<1>2. \A j \in DOMAIN reg : reg[j] \in [started : BOOLEAN, cancelled : BOOLEAN]
  BY <1>1 DEF RegType
<1>3. DOMAIN reg' = DOMAIN reg /\ \A j \in DOMAIN reg : j # i => reg'[j] = reg[j]
  BY <1>1
<1>4. reg'[i] = [reg[i] EXCEPT !.started = TRUE]
  BY <1>1
<1>5. reg'[i] \in [started : BOOLEAN, cancelled : BOOLEAN] /\ reg'[i].cancelled = reg[i].cancelled
  BY <1>2, <1>4
<1>6. \A j \in DOMAIN reg' : /\ reg'[j] \in [started : BOOLEAN, cancelled : BOOLEAN]
                             /\ reg'[j].cancelled = reg[j].cancelled
  BY <1>2, <1>3, <1>5
<1> QED BY <1>1, <1>3, <1>6 DEF RegType

LEMMA SkipLinkInv ==
  ASSUME ChainPart, SkipLink
  PROVE  ChainPart'
<1>1. PICK head : head = Head(queue)
  OBVIOUS
<1>2. /\ queue # <<>> /\ run = Idle /\ queue' = Tail(queue) /\ head.kind \in Singles
      /\ UNCHANGED <<kind, cancelled>>
  BY <1>1, TakesFacts DEF SkipLink
<1>3. /\ head \in Link /\ Due(head) = {head.id} /\ Idle \in RunRecord /\ Idle.link = NoLink
      /\ NoLink.kind \notin Listens /\ RegType
  BY <1>1, <1>2, HeadFacts, LinkFacts
<1>4. Leaves(head.id) /\ UNCHANGED outVars /\ run' = run /\ subs' = subs
  BY <1>1 DEF SkipLink, NoReply, subVars
<1>5. RegType' /\ DOMAIN reg' = DOMAIN reg \ {head.id} /\ \A j \in DOMAIN reg' : reg'[j] = reg[j]
  <2>1. DOMAIN reg' = DOMAIN reg \ {head.id} /\ \A j \in DOMAIN reg' : reg'[j] = reg[j]
    BY <1>4 DEF Leaves
  <2> QED BY <1>2, <1>3, <2>1 DEF RegType
<1>6. /\ replied' = replied /\ turns' = {}
      /\ \A i \in late' : i \in DOMAIN kind /\ kind[i] # "single"
      /\ \A k \in DOMAIN subs' : subs'[k].id \in DOMAIN kind /\ kind[subs'[k].id] \in Listens
  BY <1>4, SameWord, SubWord
<1> QED BY <1>1, <1>2, <1>3, <1>4, <1>5, <1>6, TakeInv

LEMMA StartAndAnswerInv ==
  ASSUME ChainPart, StartAndAnswer
  PROVE  ChainPart'
<1>1. PICK head : head = Head(queue)
  OBVIOUS
<1>2. /\ queue # <<>> /\ run = Idle /\ queue' = Tail(queue) /\ head.kind \in Singles
      /\ UNCHANGED <<kind, cancelled>>
  BY <1>1, TakesFacts DEF StartAndAnswer
<1>3. /\ head \in Link /\ LinkIds(head) = {head.id} /\ Due(head) = {head.id}
      /\ Before(replied, {head.id}) /\ head.id \in DOMAIN reg
      /\ Idle \in RunRecord /\ Idle.link = NoLink /\ NoLink.kind \notin Listens
  BY <1>1, <1>2, HeadFacts, LinkFacts
<1>4. Answer(head.id) /\ run' = run /\ subs' = subs
  BY <1>1 DEF StartAndAnswer
<1>5. /\ turns' = {} /\ \A j \in late' : j \in DOMAIN kind /\ kind[j] # "single"
      /\ replied \subseteq replied' /\ replied' \subseteq replied \cup {head.id}
      /\ RegType' /\ DOMAIN reg' = DOMAIN reg \ {head.id} /\ \A j \in DOMAIN reg' : reg'[j] = reg[j]
  BY <1>2, <1>3, <1>4, AnswerWord
<1>6. \A k \in DOMAIN subs' : subs'[k].id \in DOMAIN kind /\ kind[subs'[k].id] \in Listens
  BY <1>4, SubWord
<1> QED BY <1>1, <1>2, <1>3, <1>4, <1>5, <1>6, TakeInv

LEMMA StartNoteInv ==
  ASSUME ChainPart, StartNote
  PROVE  ChainPart'
<1>1. PICK head : head = Head(queue)
  OBVIOUS
<1>2. /\ queue # <<>> /\ run = Idle /\ queue' = Tail(queue)
      /\ UNCHANGED <<kind, cancelled>>
  BY <1>1, TakesFacts DEF StartNote
<1>3. head \in Link /\ Idle \in RunRecord /\ Idle.link = NoLink /\ NoLink.kind \notin Listens /\ RegType
  BY <1>1, <1>2, HeadFacts
<1>4. UNCHANGED outVars /\ run' = run /\ subs' = subs /\ reg' = reg
  BY DEF StartNote, NoReply
<1>5. RegType'
  BY <1>2, <1>3, <1>4 DEF RegType
<1>6. /\ replied' = replied /\ turns' = {}
      /\ \A i \in late' : i \in DOMAIN kind /\ kind[i] # "single"
      /\ \A k \in DOMAIN subs' : subs'[k].id \in DOMAIN kind /\ kind[subs'[k].id] \in Listens
  BY <1>4, SameWord, SubWord
<1> QED BY <1>1, <1>2, <1>3, <1>4, <1>5, <1>6, TakeInv

(* A link that is started and answers later.                               *)
LEMMA RunsInv ==
  ASSUME ChainPart, RestType, NEW stage \in Stages \ {"idle"}, Runs(stage), queue # <<>>, run = Idle,
         queue' = Tail(queue), Head(queue).kind \notin Listens, UNCHANGED <<kind, cancelled, subs>>,
         UNCHANGED outVars, RegType', DOMAIN reg' = DOMAIN reg,
         \A j \in DOMAIN reg' : reg'[j].cancelled = reg[j].cancelled
  PROVE  ChainPart'
<1>1. PICK head : head = Head(queue)
  OBVIOUS
<1>2. head \in Link
  BY <1>1, HeadFacts
<1>3. run' = [link |-> head, stage |-> stage, pt |-> wrap, at |-> 0]
  BY <1>1 DEF Runs
<1>4. run' \in RunRecord /\ run'.link = head /\ run'.stage = stage
  BY <1>2, <1>3 DEF RunRecord, RestType
<1>5. /\ replied' = replied /\ turns' = {}
      /\ \A i \in late' : i \in DOMAIN kind /\ kind[i] # "single"
      /\ \A k \in DOMAIN subs' : subs'[k].id \in DOMAIN kind /\ kind[subs'[k].id] \in Listens
  BY SameWord, SubWord
<1> QED BY <1>1, <1>4, <1>5, TakeInv

LEMMA StartsInv ==
  ASSUME ChainPart, RestType, StartMirror \/ StartForward \/ StartCall \/ StartBatch
  PROVE  ChainPart'
<1>1. PICK head : head = Head(queue)
  OBVIOUS
<1>2. CASE StartMirror \/ StartForward \/ StartCall
  <2>1. /\ queue # <<>> /\ run = Idle /\ queue' = Tail(queue) /\ head.kind \in Singles
        /\ UNCHANGED <<kind, cancelled>>
    BY <1>1, <1>2, TakesFacts DEF StartMirror, StartForward, StartCall, Singles
  <2>2. Marks(head.id) /\ UNCHANGED outVars /\ subs' = subs
    BY <1>1, <1>2 DEF StartMirror, StartForward, StartCall, NoReply
  <2>3. \E stage \in Stages \ {"idle"} : Runs(stage)
    BY <1>2 DEF StartMirror, StartForward, StartCall, Stages
  <2>4. head.id \in DOMAIN reg /\ head.kind \notin Listens
    BY <1>1, <2>1, HeadFacts DEF Singles, Listens
  <2>5. /\ RegType' /\ DOMAIN reg' = DOMAIN reg
        /\ \A j \in DOMAIN reg' : reg'[j].cancelled = reg[j].cancelled
    BY <2>1, <2>2, <2>4, MarksFacts
  <2> QED BY <1>1, <2>1, <2>2, <2>3, <2>4, <2>5, RunsInv
<1>3. CASE StartBatch
  <2>1. /\ queue # <<>> /\ run = Idle /\ queue' = Tail(queue) /\ head.kind \notin Listens
        /\ UNCHANGED <<kind, cancelled>>
    BY <1>1, <1>3, TakesFacts DEF StartBatch, Listens
  <2>2. reg' = reg /\ UNCHANGED outVars /\ subs' = subs /\ Runs("dial") /\ "dial" \in Stages \ {"idle"}
    BY <1>3 DEF StartBatch, NoReply, Stages
  <2>3. RegType'
    BY <2>1, <2>2 DEF ChainPart, ChainType, RegType
  <2> QED BY <1>1, <2>1, <2>2, <2>3, RunsInv
<1> QED BY <1>2, <1>3

LEMMA AnswerBatchInv ==
  ASSUME ChainPart, AnswerBatch
  PROVE  ChainPart'
<1>1. PICK head : head = Head(queue)
  OBVIOUS
<1>2. /\ queue # <<>> /\ run = Idle /\ queue' = Tail(queue) /\ head.kind = "batch"
      /\ UNCHANGED <<kind, cancelled>>
  BY <1>1, TakesFacts DEF AnswerBatch
<1>3. /\ head \in Link /\ LinkIds(head) = {head.id, head.id + 1} /\ Due(head) = {head.id, head.id + 1}
      /\ LinkIds(head) \subseteq DOMAIN kind /\ Before(replied, LinkIds(head))
      /\ \A i \in LinkIds(head) : kind[i] = KindOf(head)
      /\ Idle \in RunRecord /\ Idle.link = NoLink /\ NoLink.kind \notin Listens /\ RegType
  BY <1>1, <1>2, HeadFacts, LinkFacts
<1>4. Reply({head.id, head.id + 1}) /\ run' = run /\ subs' = subs /\ reg' = reg
  BY <1>1 DEF AnswerBatch
<1>5. \A i \in LinkIds(head) : kind[i] # "single"
  BY <1>2, <1>3 DEF KindOf, Singles
<1>6. /\ turns' = {} /\ \A i \in late' : i \in DOMAIN kind /\ kind[i] # "single"
      /\ replied' = replied \cup LinkIds(head)
  BY <1>3, <1>4, <1>5, ReplyWord
<1>7. \A k \in DOMAIN subs' : subs'[k].id \in DOMAIN kind /\ kind[subs'[k].id] \in Listens
  BY <1>4, SubWord
<1>8. RegType'
  BY <1>2, <1>3, <1>4 DEF RegType
<1> QED BY <1>1, <1>2, <1>3, <1>4, <1>6, <1>7, <1>8, TakeInv

LEMMA RefuseBatchInv ==
  ASSUME ChainPart, RefuseBatch
  PROVE  ChainPart'
<1>1. PICK head : head = Head(queue)
  OBVIOUS
<1>2. /\ queue # <<>> /\ run = Idle /\ queue' = Tail(queue) /\ head.kind = "batch"
      /\ UNCHANGED <<kind, cancelled>>
  BY <1>1, TakesFacts DEF RefuseBatch
<1>3. /\ head \in Link /\ Idle \in RunRecord /\ Idle.link = NoLink /\ NoLink.kind \notin Listens /\ RegType
      /\ head.kind \notin Singles
  BY <1>1, <1>2, HeadFacts DEF Singles
<1>4. run' = run /\ subs' = subs /\ reg' = reg /\ UNCHANGED <<replied, turns, late>>
  BY DEF RefuseBatch, subVars
<1>5. RegType'
  BY <1>2, <1>3, <1>4 DEF RegType
<1>6. /\ replied' = replied /\ turns' = {}
      /\ \A i \in late' : i \in DOMAIN kind /\ kind[i] # "single"
      /\ \A k \in DOMAIN subs' : subs'[k].id \in DOMAIN kind /\ kind[subs'[k].id] \in Listens
  BY <1>4, SubWord DEF ChainPart, ChainType, WordInv
<1> QED BY <1>1, <1>2, <1>3, <1>4, <1>5, <1>6, TakeInv

LEMMA ListenInv ==
  ASSUME ChainPart, SubsPart, Listen
  PROVE  ChainPart'
<1>1. PICK head : head = Head(queue)
  OBVIOUS
<1>2. /\ queue # <<>> /\ run = Idle /\ queue' = Tail(queue) /\ head.kind \in Listens
      /\ UNCHANGED <<kind, cancelled>>
  BY <1>1, TakesFacts DEF Listen
<1>3. /\ head \in Link /\ LinkIds(head) = {head.id} /\ LinkIds(head) \subseteq DOMAIN kind
      /\ \A i \in LinkIds(head) : kind[i] = KindOf(head)
      /\ Idle \in RunRecord /\ Idle.link = NoLink /\ NoLink.kind \notin Listens /\ RegType
  BY <1>1, <1>2, HeadFacts, LinkFacts
<1>4. kind[head.id] \in Listens /\ kind[head.id] # "single"
  BY <1>2, <1>3 DEF KindOf, Singles, Listens
<1>5. /\ run' = run /\ reg' = reg /\ turns' = turns /\ Lines({head.id}) /\ replied' = replied \cup {head.id}
      /\ \E uri \in BOOLEAN : subs' = Registered([id |-> head.id, uri |-> uri])
  BY <1>1 DEF Listen
<1>6. turns' = {} /\ \A i \in late' : i \in DOMAIN kind /\ kind[i] # "single"
  BY <1>3, <1>4, <1>5 DEF Lines, ChainPart, ChainType, WordInv
<1>7. \A k \in DOMAIN subs' : subs'[k].id \in DOMAIN kind /\ kind[subs'[k].id] \in Listens
  <2>1. PICK new : subs' = Registered(new) /\ new.id = head.id /\ new \in Sub
    <3>1. head.id \in Ids
      BY <1>3 DEF ChainPart, ChainType
    <3>2. PICK uri \in BOOLEAN : subs' = Registered([id |-> head.id, uri |-> uri])
      BY <1>5
    <3>3. [id |-> head.id, uri |-> uri] \in Sub
      BY <3>1 DEF Sub
    <3> QED BY <3>2, <3>3
  <2>2. subs \in Seq(Sub)
    BY DEF SubsPart, SubsInv, Sub
  <2>3. \A k \in DOMAIN subs' : subs'[k] = new \/ (k \in DOMAIN subs /\ subs'[k] = subs[k])
    <3>1. CASE {k \in DOMAIN subs : subs[k].id = new.id} = {}
      BY <2>1, <2>2, <3>1, AppendFacts DEF Registered
    <3>2. CASE {k \in DOMAIN subs : subs[k].id = new.id} # {}
      BY <2>1, <3>2 DEF Registered
    <3> QED BY <3>1, <3>2
  <2>4. \A k \in DOMAIN subs : subs[k].id \in DOMAIN kind /\ kind[subs[k].id] \in Listens
    BY DEF ChainPart, WordInv
  <2> QED BY <1>3, <1>4, <2>1, <2>3, <2>4
<1>8. RegType'
  BY <1>2, <1>3, <1>5 DEF RegType
<1>9. DOMAIN reg \ DOMAIN reg' = {} /\ replied' = replied \cup LinkIds(head)
  BY <1>3, <1>5
<1> QED BY <1>1, <1>2, <1>3, <1>5, <1>6, <1>7, <1>8, <1>9, TakeInv

LEMMA RefuseListenInv ==
  ASSUME ChainPart, RefuseListen
  PROVE  ChainPart'
<1>1. PICK head : head = Head(queue)
  OBVIOUS
<1>2. /\ queue # <<>> /\ run = Idle /\ queue' = Tail(queue) /\ head.kind \in Listens
      /\ UNCHANGED <<kind, cancelled>>
  BY <1>1, TakesFacts DEF RefuseListen
<1>3. /\ head \in Link /\ LinkIds(head) = {head.id} /\ LinkIds(head) \subseteq DOMAIN kind
      /\ \A i \in LinkIds(head) : kind[i] = KindOf(head)
      /\ Idle \in RunRecord /\ Idle.link = NoLink /\ NoLink.kind \notin Listens /\ RegType
  BY <1>1, <1>2, HeadFacts, LinkFacts
<1>4. kind[head.id] # "single"
  BY <1>2, <1>3 DEF KindOf, Singles, Listens
<1>5. /\ run' = run /\ reg' = reg /\ turns' = turns /\ Lines({head.id}) /\ subs' = subs
      /\ replied' = replied \cup {head.id}
  BY <1>1 DEF RefuseListen, subVars
<1>6. turns' = {} /\ \A i \in late' : i \in DOMAIN kind /\ kind[i] # "single"
  BY <1>3, <1>4, <1>5 DEF Lines, ChainPart, ChainType, WordInv
<1>7. \A k \in DOMAIN subs' : subs'[k].id \in DOMAIN kind /\ kind[subs'[k].id] \in Listens
  BY <1>5, SubWord
<1>8. RegType'
  BY <1>2, <1>3, <1>5 DEF RegType
<1>9. DOMAIN reg \ DOMAIN reg' = {} /\ replied' = replied \cup LinkIds(head)
  BY <1>3, <1>5
<1> QED BY <1>1, <1>2, <1>3, <1>5, <1>6, <1>7, <1>8, <1>9, TakeInv

-----------------------------------------------------------------------------
(* The actions of the chain: the link under way.                           *)
LEMMA RunFacts ==
  ASSUME ChainPart
  PROVE  /\ run \in RunRecord /\ run.link \in Link /\ LinkIds(run.link) \subseteq DOMAIN kind
         /\ Before(replied, LinkIds(run.link)) /\ RegType
         /\ run.link.kind \in Singles => run.link.id \in DOMAIN reg
         /\ \A i \in LinkIds(run.link) : kind[i] = KindOf(run.link)
         /\ Idle \in RunRecord /\ Idle.link = NoLink
         /\ run.stage = "idle" => run = Idle
         /\ cancelled \subseteq DOMAIN kind /\ \A i \in cancelled \cap DOMAIN reg : reg[i].cancelled
<1>1. Idle \in RunRecord /\ Idle.link = NoLink
  BY DEF Idle, NoLink, RunRecord, Link, Stages
<1>2. /\ Fits(run.link) /\ LinkIds(run.link) \subseteq DOMAIN kind
      /\ run \in RunRecord /\ run.link \in Link
      /\ Before(replied, LinkIds(run.link))
  BY ChainFacts
<1> QED BY <1>1, <1>2 DEF Fits, ChainPart, ChainType, ChainInv, WordInv

(* A request of its own message is answered.                               *)
LEMMA AnswersInv ==
  ASSUME ChainPart, WirePart, MirrorDone \/ GateDenies \/ ToolDone \/ ForwardDone
  PROVE  ChainPart'
<1>1. PICK i : i = run.link.id
  OBVIOUS
<1>2. /\ run' = Idle /\ Answer(i) /\ UNCHANGED <<kind, queue, cancelled, subs>>
  BY <1>1 DEF MirrorDone, GateDenies, ToolDone, ForwardDone, Fixed, subVars
<1>3. run.link.kind \in Singles
  BY DEF MirrorDone, GateDenies, ToolDone, ForwardDone, WirePart, WireInv
<1>4. /\ LinkIds(run.link) = {i} /\ i \in DOMAIN reg /\ Before(replied, {i})
      /\ Idle \in RunRecord /\ Idle.link = NoLink
      /\ cancelled \subseteq DOMAIN kind /\ \A j \in cancelled \cap DOMAIN reg : reg[j].cancelled
  BY <1>1, <1>3, RunFacts, LinkFacts
<1>5. /\ turns' = {} /\ \A j \in late' : j \in DOMAIN kind /\ kind[j] # "single"
      /\ replied \subseteq replied' /\ replied' \subseteq replied \cup {i}
      /\ RegType' /\ DOMAIN reg' = DOMAIN reg \ {i} /\ \A j \in DOMAIN reg' : reg'[j] = reg[j]
  BY <1>2, <1>4, AnswerWord
<1>6. \A k \in DOMAIN subs' : subs'[k].id \in DOMAIN kind /\ kind[subs'[k].id] \in Listens
  BY <1>2, SubWord
<1> QED BY <1>2, <1>4, <1>5, <1>6, RunInv

LEMMA BatchDoneInv ==
  ASSUME ChainPart, BatchDone
  PROVE  ChainPart'
<1>1. /\ run' = Idle /\ Reply({run.link.id, run.link.id + 1}) /\ run.link.kind = "batch"
      /\ UNCHANGED <<kind, queue, cancelled, subs, reg>>
  BY DEF BatchDone, Fixed
<1>2. /\ LinkIds(run.link) = {run.link.id, run.link.id + 1} /\ RegType
      /\ LinkIds(run.link) \subseteq DOMAIN kind /\ Before(replied, LinkIds(run.link))
      /\ \A i \in LinkIds(run.link) : kind[i] = KindOf(run.link)
      /\ Idle \in RunRecord /\ Idle.link = NoLink
      /\ cancelled \subseteq DOMAIN kind /\ \A j \in cancelled \cap DOMAIN reg : reg[j].cancelled
  BY <1>1, RunFacts, LinkFacts
<1>3. \A i \in LinkIds(run.link) : kind[i] # "single"
  BY <1>1, <1>2 DEF KindOf, Singles
<1>4. /\ turns' = {} /\ \A i \in late' : i \in DOMAIN kind /\ kind[i] # "single"
      /\ replied' = replied \cup LinkIds(run.link)
  BY <1>1, <1>2, <1>3, ReplyWord
<1>5. \A k \in DOMAIN subs' : subs'[k].id \in DOMAIN kind /\ kind[subs'[k].id] \in Listens
  BY <1>1, SubWord
<1>6. RegType'
  BY <1>1, <1>2 DEF RegType
<1> QED BY <1>1, <1>2, <1>4, <1>5, <1>6, RunInv

(* The link goes on, or what happens is not about it.                      *)
LEMMA GoesOnInv ==
  ASSUME ChainPart, UNCHANGED <<kind, queue, reg>>, cancelled' = cancelled,
         run' \in RunRecord, run'.link = run.link, run'.stage = "idle" => run' = Idle,
         replied' = replied, turns' = turns, \A i \in late' : i \in late \/ i \in {subs[k].id : k \in DOMAIN subs},
         \A k \in DOMAIN subs' : \E j \in DOMAIN subs : subs'[k] = subs[j]
  PROVE  ChainPart'
<1>1. /\ run.link \in {run.link, NoLink} /\ RegType
      /\ cancelled \subseteq DOMAIN kind /\ \A j \in cancelled \cap DOMAIN reg : reg[j].cancelled
  BY RunFacts
<1>2. \A k \in DOMAIN subs : subs[k].id \in DOMAIN kind /\ kind[subs[k].id] \in Listens /\ kind[subs[k].id] # "single"
  BY DEF ChainPart, WordInv, Listens
<1>3. turns' = {} /\ \A i \in late' : i \in DOMAIN kind /\ kind[i] # "single"
  BY <1>2 DEF ChainPart, ChainType, WordInv
<1>4. \A k \in DOMAIN subs' : subs'[k].id \in DOMAIN kind /\ kind[subs'[k].id] \in Listens
  BY <1>2
<1>5. RegType'
  BY <1>1 DEF RegType
<1> QED BY <1>1, <1>3, <1>4, <1>5, RunInv

LEMMA StagesInv ==
  ASSUME ChainPart, RestType, GateAllows \/ Send \/ NextMember
  PROVE  ChainPart'
<1>1. run \in RunRecord
  BY RunFacts
<1>2. run' \in RunRecord /\ run'.link = run.link /\ run'.stage # "idle"
  <2>1. CASE GateAllows \/ Send
    <3>1. PICK stage \in {"dial", "tool", "rpc"} : run' = [run EXCEPT !.stage = stage]
      BY <2>1 DEF GateAllows, Send
    <3> QED BY <1>1, <3>1 DEF RunRecord, Stages
  <2>2. CASE NextMember
    <3>1. run' = [run EXCEPT !.at = 1, !.pt = wrap, !.stage = "dial"]
      BY <2>2 DEF NextMember
    <3>2. wrap \in Targets \cup {NoWrap}
      BY DEF RestType
    <3>3. /\ run.link \in Link
          /\ run = [link |-> run.link, stage |-> run.stage, pt |-> run.pt, at |-> run.at]
      BY <1>1 DEF RunRecord
    <3>4. run' = [link |-> run.link, stage |-> "dial", pt |-> wrap, at |-> 1]
      BY <3>1, <3>3
    <3> QED BY <3>2, <3>3, <3>4 DEF RunRecord, Stages
  <2> QED BY <2>1, <2>2
<1>3. UNCHANGED <<kind, queue, reg, cancelled, replied, turns, late, subs>>
  BY DEF GateAllows, Send, NextMember, Fixed, NoReply, outVars, subVars
<1> QED BY <1>2, <1>3, GoesOnInv

LEMMA RemoveFacts ==
  ASSUME NEW S, NEW q \in Seq(S), NEW i \in DOMAIN q, NEW new, new = RemoveAt(q, i)
  PROVE  /\ new \in Seq(S) /\ DOMAIN new = 1..(Len(q) - 1)
         /\ \A k \in 1..(Len(q) - 1) : /\ k < i => new[k] = q[k]
                                       /\ k >= i => new[k] = q[k + 1]
<1> DEFINE front == SubSeq(q, 1, i - 1)
           back == SubSeq(q, i + 1, Len(q))
<1>1. Len(q) \in Nat /\ i \in 1..Len(q) /\ \A k \in 1..Len(q) : q[k] \in S
  BY SeqFacts
<1>2. /\ front \in Seq(S) /\ Len(front) = i - 1
      /\ \A k \in 1..(i - 1) : front[k] = q[k]
  <2>1. 1 \in Int /\ i - 1 \in Int /\ \A k \in 1..(i - 1) : q[k] \in S
    BY <1>1
  <2>2. /\ front \in Seq(S) /\ Len(front) = IF 1 <= i - 1 THEN (i - 1) - 1 + 1 ELSE 0
        /\ \A k \in 1..((i - 1) - 1 + 1) : front[k] = q[1 + k - 1]
    BY <2>1, SubSeqProperties
  <2> HIDE DEF front
  <2>3. \A k \in 1..(i - 1) : k \in 1..((i - 1) - 1 + 1) /\ 1 + k - 1 = k
    BY <1>1
  <2>4. Len(front) = i - 1
    BY <1>1, <2>2
  <2> QED BY <2>2, <2>3, <2>4
<1>3. /\ back \in Seq(S) /\ Len(back) = Len(q) - i
      /\ \A k \in 1..(Len(q) - i) : back[k] = q[i + k]
  <2>1. i + 1 \in Int /\ Len(q) \in Int /\ \A k \in (i + 1)..Len(q) : q[k] \in S
    BY <1>1
  <2>2. /\ back \in Seq(S) /\ Len(back) = IF i + 1 <= Len(q) THEN Len(q) - (i + 1) + 1 ELSE 0
        /\ \A k \in 1..(Len(q) - (i + 1) + 1) : back[k] = q[(i + 1) + k - 1]
    BY <2>1, SubSeqProperties
  <2> HIDE DEF back
  <2>3. \A k \in 1..(Len(q) - i) : k \in 1..(Len(q) - (i + 1) + 1) /\ (i + 1) + k - 1 = i + k
    BY <1>1
  <2>4. Len(back) = Len(q) - i
    BY <1>1, <2>2
  <2> QED BY <2>2, <2>3, <2>4
<1>4. new = front \o back
  BY DEF RemoveAt
<1> HIDE DEF front, back
<1>5. /\ new \in Seq(S) /\ Len(new) = Len(q) - 1
      /\ \A k \in 1..(Len(q) - 1) : new[k] = IF k <= i - 1 THEN front[k] ELSE back[k - (i - 1)]
  <2>1. /\ front \o back \in Seq(S) /\ Len(front \o back) = Len(front) + Len(back)
        /\ \A k \in 1..(Len(front) + Len(back)) : (front \o back)[k] =
             IF k <= Len(front) THEN front[k] ELSE back[k - Len(front)]
    BY <1>2, <1>3, ConcatProperties, Zenon
  <2>2. (i - 1) + (Len(q) - i) = Len(q) - 1
    BY <1>1
  <2> QED BY <1>2, <1>3, <1>4, <2>1, <2>2, Zenon
<1>6. DOMAIN new = 1..(Len(q) - 1)
  BY <1>5, SeqFacts
<1>7. \A k \in 1..(Len(q) - 1) : /\ k < i => new[k] = q[k]
                                 /\ k >= i => new[k] = q[k + 1]
  <2> SUFFICES ASSUME NEW k \in 1..(Len(q) - 1)
               PROVE  (k < i => new[k] = q[k]) /\ (k >= i => new[k] = q[k + 1])
    OBVIOUS
  <2>1. k < i => k <= i - 1 /\ k \in 1..(i - 1)
    BY <1>1
  <2>2. k >= i => ~(k <= i - 1) /\ k - (i - 1) \in 1..(Len(q) - i) /\ i + (k - (i - 1)) = k + 1
    BY <1>1
  <2>3. k >= i => back[k - (i - 1)] = q[k + 1]
    BY <1>3, <2>2
  <2>4. k < i => front[k] = q[k]
    BY <1>2, <2>1
  <2> QED BY <1>5, <2>1, <2>2, <2>3, <2>4, Zenon
<1> QED BY <1>5, <1>6, <1>7

LEMMA CancelInv ==
  ASSUME ChainPart, SubsPart, NEW i \in Ids, Cancel(i)
  PROVE  ChainPart'
<1>1. /\ UNCHANGED <<kind, queue, run, replied, turns, late>> /\ i \in DOMAIN kind
      /\ cancelled' \in {cancelled, cancelled \cup {i}}
      /\ IF \E k \in DOMAIN subs : subs[k].id = i THEN CancelListen(i) ELSE CancelRequest(i)
  BY DEF Cancel, outVars
<1>2. /\ run \in RunRecord /\ run.link \in {run.link, NoLink} /\ RegType
      /\ cancelled \subseteq DOMAIN kind /\ \A j \in cancelled \cap DOMAIN reg : reg[j].cancelled
      /\ run.stage = "idle" => run = Idle
  BY RunFacts
<1>3. /\ turns' = {} /\ \A j \in late' : j \in DOMAIN kind /\ kind[j] # "single"
      /\ \A k \in DOMAIN subs : subs[k].id \in DOMAIN kind /\ kind[subs[k].id] \in Listens
  BY <1>1 DEF ChainPart, ChainType, WordInv
<1>4. CASE \E k \in DOMAIN subs : subs[k].id = i
  <2>1. PICK k \in DOMAIN subs : subs[k].id = i /\ subs' = RemoveAt(subs, k) /\ reg' = reg
    <3>1. LET k == CHOOSE k \in DOMAIN subs : subs[k].id = i IN subs' = RemoveAt(subs, k) /\ reg' = reg
      BY <1>1, <1>4 DEF CancelListen
    <3> QED BY <1>4, <3>1
  <2>2. \A j \in DOMAIN subs' : \E h \in DOMAIN subs : subs'[j] = subs[h]
    <3>1. subs \in Seq(Sub)
      BY DEF SubsPart, SubsInv, Sub
    <3>2. /\ DOMAIN subs' = 1..(Len(subs) - 1) /\ DOMAIN subs = 1..Len(subs) /\ Len(subs) \in Nat
          /\ \A j \in 1..(Len(subs) - 1) : subs'[j] = subs[j] \/ subs'[j] = subs[j + 1]
      <4>1. /\ DOMAIN subs' = 1..(Len(subs) - 1)
            /\ \A j \in 1..(Len(subs) - 1) : /\ j < k => subs'[j] = subs[j]
                                             /\ j >= k => subs'[j] = subs[j + 1]
        BY <2>1, <3>1, RemoveFacts
      <4>2. DOMAIN subs = 1..Len(subs) /\ Len(subs) \in Nat
        BY <3>1, SeqFacts
      <4> QED BY <2>1, <4>1, <4>2
    <3> QED BY <3>2
  <2>3. i \notin DOMAIN reg
    <3>1. kind[i] \in Listens
      BY <1>3, <2>1
    <3> QED BY <3>1 DEF ChainPart, WordInv, Listens
  <2>4. RegType'
    BY <1>1, <1>2, <2>1 DEF RegType
  <2> QED BY <1>1, <1>2, <1>3, <2>1, <2>2, <2>3, <2>4, RunInv
<1>5. CASE ~ \E k \in DOMAIN subs : subs[k].id = i
  <2>1. subs' = subs /\ reg' = IF i \in DOMAIN reg THEN [reg EXCEPT ![i].cancelled = TRUE] ELSE reg
    BY <1>1, <1>5 DEF CancelRequest
  <2>2. /\ DOMAIN reg' = DOMAIN reg /\ \A j \in DOMAIN reg : j # i => reg'[j] = reg[j]
        /\ i \in DOMAIN reg => reg'[i] = [reg[i] EXCEPT !.cancelled = TRUE]
    BY <2>1
  <2>3. i \in DOMAIN reg => reg'[i] \in [started : BOOLEAN, cancelled : BOOLEAN] /\ reg'[i].cancelled = TRUE
    <3>1. i \in DOMAIN reg => reg[i] \in [started : BOOLEAN, cancelled : BOOLEAN]
      BY <1>2 DEF RegType
    <3> QED BY <2>2, <3>1
  <2>4. RegType' /\ \A j \in cancelled' \cap DOMAIN reg' : reg'[j].cancelled
    BY <1>1, <1>2, <2>2, <2>3 DEF RegType
  <2>5. DOMAIN reg \ DOMAIN reg' = {} /\ cancelled' \subseteq DOMAIN kind
    BY <1>1, <1>2, <2>2
  <2> QED BY <1>1, <1>2, <1>3, <2>1, <2>2, <2>4, <2>5, RunInv
<1> QED BY <1>4, <1>5

LEMMA OthersInv ==
  ASSUME ChainPart, Overflow \/ Exit \/ End \/ Notify \/ Retarget \/ UNCHANGED vars
  PROVE  ChainPart'
<1>1. run \in RunRecord /\ (run.stage = "idle" => run = Idle)
  BY RunFacts
<1>2. UNCHANGED <<kind, queue, run, reg, cancelled, replied, turns>>
  BY DEF Overflow, Exit, End, Notify, Retarget, vars, chainVars, outVars
<1>3. \A i \in late' : i \in late \/ i \in {subs[k].id : k \in DOMAIN subs}
  <2>1. CASE Notify
    <3>1. PICK ofResource \in BOOLEAN : Lines({subs[k].id : k \in {k \in DOMAIN subs : ofResource => subs[k].uri}})
      BY <2>1 DEF Notify
    <3> QED BY <3>1 DEF Lines
  <2>2. CASE ~Notify
    BY <2>2 DEF Overflow, Exit, End, Retarget, vars, outVars, Lines
  <2> QED BY <2>1, <2>2
<1>4. \A k \in DOMAIN subs' : \E j \in DOMAIN subs : subs'[k] = subs[j]
  <2>1. CASE End
    BY <2>1 DEF End
  <2>2. CASE ~End
    BY <2>2 DEF Overflow, Exit, Notify, Retarget, vars, subVars
  <2> QED BY <2>1, <2>2
<1> QED BY <1>1, <1>2, <1>3, <1>4, GoesOnInv

-----------------------------------------------------------------------------
(* The forwards.                                                           *)
LEMMA WireFacts ==
  ASSUME ChainPart, WirePart
  PROVE  /\ run \in RunRecord /\ run.link \in Link /\ run.link.id \in Nat
         /\ run = Idle => run.stage = "idle"
         /\ run.stage # "rpc" => DOMAIN inflight = {}
         /\ run.link.kind # "batch" => run.at = 0
         /\ run.at \in 0..1
         /\ run.stage \in {"mirror", "gate", "tool"} => run.link.kind \in Singles
         /\ run.stage \in Upstream => run.pt \in Targets /\ run.link.kind \in Singles \cup {"batch"}
         /\ DOMAIN inflight \subseteq {run.link.id + run.at}
         /\ issued \in [Targets -> 0..MaxIds]
<1>1. run \in RunRecord
  BY RunFacts
<1>2. run.link \in Link /\ run.at \in 0..1
  BY <1>1 DEF RunRecord
<1>3. run.link.id \in Nat
  BY <1>2 DEF Link
<1> QED BY <1>1, <1>2, <1>3 DEF Idle, WirePart, WireType, WireInv

(* Neither the link under way nor a forward changes. *)
LEMMA WireKeeps ==
  ASSUME WirePart, UNCHANGED <<inflight, issued, run>>
  PROVE  WirePart'
<1>1. WireType'
  BY DEF WirePart, WireType
<1>2. WireInv'
  BY DEF WirePart, WireInv, Now
<1> QED BY <1>1, <1>2 DEF WirePart

(* A stage in which nothing is tracked.                                    *)
LEMMA WireQuiet ==
  ASSUME WirePart, DOMAIN inflight' = {}, UNCHANGED issued,
         \/ run' = Idle
         \/ run'.stage \in {"mirror", "gate", "tool"} /\ run'.link.kind \in Singles /\ run'.at = 0
         \/ /\ run'.stage = "dial" /\ run'.pt \in Targets /\ run'.link.kind \in Singles \cup {"batch"}
            /\ run'.at = 1 => run'.link.kind = "batch"
  PROVE  WirePart'
<1>1. /\ run'.stage # "rpc" /\ (run'.at = 1 => run'.link.kind = "batch")
      /\ run'.stage \in {"mirror", "gate", "tool"} => run'.link.kind \in Singles
      /\ run'.stage \in Upstream => run'.pt \in Targets /\ run'.link.kind \in Singles \cup {"batch"}
  <2>1. CASE run' = Idle
    BY <2>1 DEF Idle, Upstream
  <2>2. CASE run'.stage \in {"mirror", "gate", "tool"} /\ run'.link.kind \in Singles /\ run'.at = 0
    BY <2>2 DEF Upstream
  <2>3. CASE /\ run'.stage = "dial" /\ run'.pt \in Targets /\ run'.link.kind \in Singles \cup {"batch"}
             /\ run'.at = 1 => run'.link.kind = "batch"
    BY <2>3 DEF Upstream
  <2> QED BY <2>1, <2>2, <2>3
<1>2. WireType'
  BY DEF WirePart, WireType
<1>3. WireInv'
  BY <1>1 DEF WirePart, WireInv
<1> QED BY <1>2, <1>3 DEF WirePart

(* A forward is sent and tracked.                                          *)
LEMMA WireSends ==
  ASSUME ChainPart, WirePart, Send
  PROVE  WirePart'
<1>1. /\ run \in RunRecord /\ run.stage \in Upstream /\ run.pt \in Targets /\ DOMAIN inflight = {}
      /\ run.link.kind \in Singles \cup {"batch"} /\ issued \in [Targets -> 0..MaxIds]
      /\ run.link.kind # "batch" => run.at = 0
  BY WireFacts DEF Send, Upstream
<1>2. /\ run' = [run EXCEPT !.stage = "rpc"] /\ issued[run.pt] < MaxIds
      /\ issued' = [issued EXCEPT ![run.pt] = @ + 1]
      /\ inflight' = [i \in {Now} |-> [to |-> run.pt, no |-> issued'[run.pt]]]
  <2>1. inflight' = [i \in DOMAIN inflight \cup {Now} |->
                       IF i = Now THEN [to |-> run.pt, no |-> issued'[run.pt]] ELSE inflight[i]]
    BY DEF Send
  <2>2. inflight' = [i \in {Now} |-> [to |-> run.pt, no |-> issued'[run.pt]]]
    BY <1>1, <2>1
  <2> QED BY <2>2 DEF Send
<1>3. run'.link = run.link /\ run'.at = run.at /\ run'.pt = run.pt /\ run'.stage = "rpc"
  BY <1>1, <1>2 DEF RunRecord
<1>4. Now' = Now
  BY <1>3 DEF Now
<1>5. DOMAIN inflight' = {Now} /\ inflight'[Now] = [to |-> run.pt, no |-> issued'[run.pt]]
  BY <1>2
<1>6. issued' \in [Targets -> 0..MaxIds]
  BY <1>1, <1>2
<1>7. WireType'
  BY <1>4, <1>5, <1>6 DEF WireType, Now
<1>8. WireInv'
  BY <1>1, <1>3, <1>4, <1>5 DEF WireInv
<1> QED BY <1>7, <1>8 DEF WirePart

LEMMA WireStarts ==
  ASSUME ChainPart, WirePart, RestType, StartMirror \/ StartForward \/ StartCall \/ StartBatch
  PROVE  WirePart'
<1>1. PICK head : head = Head(queue)
  OBVIOUS
<1>2. queue # <<>> /\ run = Idle
  BY TakesFacts DEF StartMirror, StartForward, StartCall, StartBatch
<1>3. DOMAIN inflight = {} /\ UNCHANGED <<inflight, issued>>
  BY <1>2, WireFacts DEF StartMirror, StartForward, StartCall, StartBatch, wireVars
<1>4. CASE StartMirror \/ StartCall
  <2>1. head.kind \in Singles
    BY <1>1, <1>4 DEF StartMirror, StartCall, Takes, Singles
  <2>2. PICK stage \in {"mirror", "gate"} : Runs(stage)
    BY <1>4 DEF StartMirror, StartCall
  <2>3. run'.link = head /\ run'.stage = stage /\ run'.at = 0
    BY <1>1, <2>2 DEF Runs
  <2> QED BY <1>3, <2>1, <2>2, <2>3, WireQuiet
<1>5. CASE StartForward \/ StartBatch
  <2>1. head.kind \in Singles \cup {"batch"} /\ Runs("dial") /\ wrap # NoWrap
    BY <1>1, <1>5 DEF StartForward, StartBatch, Takes, Singles
  <2>2. run'.link = head /\ run'.stage = "dial" /\ run'.at = 0 /\ run'.pt = wrap
    BY <1>1, <2>1 DEF Runs
  <2>3. wrap \in Targets
    BY <2>1 DEF RestType
  <2> QED BY <1>3, <2>1, <2>2, <2>3, WireQuiet
<1> QED BY <1>4, <1>5

LEMMA WireSteps ==
  ASSUME ChainPart, WirePart, RestType, Steps
  PROVE  WirePart'
<1>1. CASE MirrorDone \/ GateDenies \/ ToolDone
  <2>1. run.stage # "rpc" /\ run' = Idle /\ UNCHANGED <<inflight, issued>>
    BY <1>1 DEF MirrorDone, GateDenies, ToolDone, wireVars
  <2> QED BY <2>1, WireFacts, WireQuiet
<1>2. CASE ForwardDone \/ BatchDone
  <2>1. run' = Idle /\ Untracks(run.link.id + run.at)
    <3>1. CASE ForwardDone
      <4>1. run' = Idle /\ Untracks(run.link.id) /\ run.link.kind # "batch"
        BY <3>1 DEF ForwardDone
      <4>2. run.link.id + run.at = run.link.id
        BY <4>1, WireFacts
      <4> QED BY <4>1, <4>2
    <3>2. CASE BatchDone
      BY <3>2 DEF BatchDone, Now
    <3> QED BY <1>2, <3>1, <3>2
  <2>2. DOMAIN inflight' = {} /\ UNCHANGED issued
    BY <2>1, WireFacts DEF Untracks
  <2> QED BY <2>1, <2>2, WireQuiet
<1>3. CASE GateAllows
  <2>1. run.stage = "gate" /\ UNCHANGED <<inflight, issued>>
    BY <1>3 DEF GateAllows, wireVars
  <2>2. run \in RunRecord /\ run.link.kind \in Singles /\ DOMAIN inflight = {}
    BY <2>1, WireFacts
  <2>3. run.at = 0
    BY <2>2, WireFacts DEF Singles
  <2>4. CASE run.pt # NoWrap
    <3>1. run' = [run EXCEPT !.stage = "dial"]
      BY <1>3, <2>4 DEF GateAllows
    <3>2. run'.pt \in Targets /\ run'.link = run.link /\ run'.stage = "dial" /\ run'.at = 0
      BY <2>2, <2>3, <2>4, <3>1 DEF RunRecord
    <3> QED BY <2>1, <2>2, <3>2, WireQuiet
  <2>5. CASE run.pt = NoWrap
    <3>1. run' = [run EXCEPT !.stage = "tool"]
      BY <1>3, <2>5 DEF GateAllows
    <3>2. run'.stage = "tool" /\ run'.link = run.link /\ run'.at = 0
      BY <2>2, <2>3, <3>1 DEF RunRecord
    <3> QED BY <2>1, <2>2, <3>2, WireQuiet
  <2> QED BY <2>4, <2>5
<1>4. CASE NextMember
  <2>1. /\ run.link.kind = "batch" /\ run' = [run EXCEPT !.at = 1, !.pt = wrap, !.stage = "dial"]
        /\ wrap # NoWrap /\ run.at = 0 /\ Untracks(run.link.id)
    BY <1>4 DEF NextMember
  <2>2. wrap \in Targets /\ run \in RunRecord
    BY <2>1, WireFacts DEF RestType
  <2>3. run'.link = run.link /\ run'.stage = "dial" /\ run'.at = 1 /\ run'.pt = wrap
    <3>1. run = [link |-> run.link, stage |-> run.stage, pt |-> run.pt, at |-> run.at]
      BY <2>2 DEF RunRecord
    <3>2. run' = [link |-> run.link, stage |-> "dial", pt |-> wrap, at |-> 1]
      BY <2>1, <3>1
    <3> QED BY <3>2
  <2>4. run.link.id + run.at = run.link.id
    BY <2>1, WireFacts
  <2>5. DOMAIN inflight' = {} /\ UNCHANGED issued
    BY <2>1, <2>4, WireFacts DEF Untracks
  <2> QED BY <2>1, <2>2, <2>3, <2>5, WireQuiet
<1> QED BY <1>1, <1>2, <1>3, <1>4, WireSends DEF Steps

-----------------------------------------------------------------------------
(* The subscriptions.                                                      *)
Match(n) == n <= Cardinality(Holders) /\ (QuietRetarget => n = Cardinality(Holders))

LEMMA SubsFacts ==
  ASSUME SubsPart
  PROVE  /\ subs \in Seq(Sub) /\ OncePerId /\ \A k \in DOMAIN subs : subs[k] \in Sub
         /\ IsFiniteSet(HolderIds) /\ HolderIds \subseteq Ids
         /\ Cardinality(HolderIds) = Cardinality(Holders) /\ Cardinality(Holders) \in Nat
         /\ refs \in Nat /\ Match(refs) /\ Armed \in Nat /\ Match(Armed)
<1>1. subs \in Seq(Sub) /\ OncePerId /\ refs \in Nat
  BY DEF SubsPart, SubsInv, Sub, OncePerId
<1>2. /\ IsFiniteSet(HolderIds) /\ HolderIds \subseteq Ids
      /\ Cardinality(HolderIds) = Cardinality(Holders) /\ Cardinality(Holders) \in Nat
  BY <1>1, HoldersFacts
<1>3. \A k \in DOMAIN subs : subs[k] \in Sub
  BY <1>1, SeqFacts
<1>4. Match(refs)
  BY DEF Match, SubsPart, SubsInv
<1>5. Armed \in Nat /\ Match(Armed)
  <2>1. CASE wrap = scope
    BY <1>1, <1>4, <2>1 DEF Armed
  <2>2. CASE wrap # scope
    BY <1>2, <2>2 DEF Armed, Match, SubsPart, SubsInv
  <2> QED BY <2>1, <2>2
<1> QED BY <1>1, <1>2, <1>3, <1>4, <1>5

(* The next state of the subscriptions, by their ids and the count.        *)
LEMMA SubsNext ==
  ASSUME subs' \in Seq(Sub), OncePerId', refs' \in Nat, refs' <= Cardinality(HolderIds)',
         QuietRetarget => refs' = Cardinality(HolderIds)' /\ (wrap' # scope' => refs' = 0)
  PROVE  SubsPart'
<1>1. (subs \in Seq(Sub) /\ OncePerId => Cardinality(Holders) = Cardinality(HolderIds))'
  BY HoldersFacts, PTL
<1>2. Cardinality(Holders)' = Cardinality(HolderIds)'
  BY <1>1
<1> QED BY <1>2 DEF SubsPart, SubsInv, Sub, OncePerId

LEMMA SubsKeeps ==
  ASSUME SubsPart, UNCHANGED <<subs, refs, scope, wrap>>
  PROVE  SubsPart'
  BY DEF SubsPart, SubsInv, Holders

LEMMA SubsArms ==
  ASSUME SubsPart, Arms, UNCHANGED <<subs, wrap>>
  PROVE  SubsPart'
<1>1. /\ subs \in Seq(Sub) /\ OncePerId /\ Cardinality(HolderIds) = Cardinality(Holders)
      /\ Armed \in Nat /\ Match(Armed)
  BY SubsFacts
<1>2. refs' = Armed /\ scope' = wrap
  BY DEF Arms
<1>3. HolderIds' = HolderIds /\ OncePerId' /\ subs' = subs
  BY <1>1 DEF HolderIds, Holders, OncePerId
<1> QED BY <1>1, <1>2, <1>3, SubsNext DEF Match

LEMMA SubsEnd ==
  ASSUME SubsPart, End
  PROVE  SubsPart'
<1>1. subs' = <<>> /\ refs' = Less(refs, Cardinality(Holders)) /\ UNCHANGED <<scope, wrap>>
  BY DEF End, wrapVars
<1>2. refs' = 0
  BY <1>1, SubsFacts DEF Match, Less
<1>3. HolderIds' = {} /\ OncePerId' /\ subs' \in Seq(Sub)
  BY <1>1 DEF HolderIds, Holders, OncePerId
<1>4. Cardinality(HolderIds)' = 0
  BY <1>3, FS_EmptySet
<1> QED BY <1>1, <1>2, <1>3, <1>4, SubsNext

(* One subscription less, or one more: the count of the resources held     *)
(* follows the ids.                                                        *)
LEMMA DropsOne ==
  ASSUME SubsPart, NEW i, NEW ids, ids = HolderIds \ {i}, NEW n \in Nat, Match(n)
  PROVE  /\ Less(n, 1) \in Nat /\ Cardinality(ids) \in Nat
         /\ i \in HolderIds => /\ Less(n, 1) <= Cardinality(ids)
                               /\ QuietRetarget => Less(n, 1) = Cardinality(ids)
         /\ i \notin HolderIds => ids = HolderIds
<1>1. IsFiniteSet(HolderIds) /\ Cardinality(HolderIds) = Cardinality(Holders) /\ Cardinality(Holders) \in Nat
  BY SubsFacts
<1>2. /\ IsFiniteSet(ids)
      /\ Cardinality(ids) = IF i \in HolderIds THEN Cardinality(HolderIds) - 1 ELSE Cardinality(HolderIds)
  BY <1>1, FS_RemoveElement
<1>3. i \in HolderIds => Cardinality(HolderIds) # 0
  BY <1>1, FS_EmptySet
<1>4. /\ Less(n, 1) \in Nat
      /\ i \in HolderIds => /\ Less(n, 1) <= Cardinality(ids)
                            /\ QuietRetarget => Less(n, 1) = Cardinality(ids)
  BY <1>1, <1>2, <1>3 DEF Less, Match
<1> QED BY <1>1, <1>2, <1>3, <1>4

LEMMA SubsCancel ==
  ASSUME SubsPart, NEW i \in Ids, Cancel(i)
  PROVE  SubsPart'
<1>1. UNCHANGED <<wrap, retargets>>
  BY DEF Cancel, wrapVars
<1>2. CASE ~ \E k \in DOMAIN subs : subs[k].id = i
  <2>1. CancelRequest(i)
    BY <1>2 DEF Cancel
  <2>2. subs' = subs /\ (Arms \/ UNCHANGED <<refs, scope>>)
    BY <2>1 DEF CancelRequest
  <2> QED BY <1>1, <2>2, SubsKeeps, SubsArms
<1>3. CASE \E k \in DOMAIN subs : subs[k].id = i
  <2>1. PICK k \in DOMAIN subs : /\ subs[k].id = i /\ subs' = RemoveAt(subs, k)
                                 /\ refs' = Released(refs, subs[k]) /\ scope' = scope
    <3>1. LET k == CHOOSE k \in DOMAIN subs : subs[k].id = i
          IN subs' = RemoveAt(subs, k) /\ refs' = Released(refs, subs[k]) /\ scope' = scope
      BY <1>3 DEF Cancel, CancelListen
    <3> QED BY <1>3, <3>1
  <2>2. /\ subs \in Seq(Sub) /\ OncePerId /\ refs \in Nat /\ Match(refs)
        /\ IsFiniteSet(HolderIds) /\ Cardinality(HolderIds) = Cardinality(Holders)
        /\ Cardinality(Holders) \in Nat
    BY SubsFacts
  <2>3. DOMAIN subs = 1..Len(subs) /\ Len(subs) \in Nat /\ subs[k] \in Sub
    BY <2>2, SeqFacts
  <2>4. /\ subs' \in Seq(Sub) /\ DOMAIN subs' = 1..(Len(subs) - 1)
        /\ \A j \in 1..(Len(subs) - 1) : /\ j < k => subs'[j] = subs[j]
                                         /\ j >= k => subs'[j] = subs[j + 1]
    BY <2>1, <2>2, RemoveFacts
  <2> DEFINE from(j) == IF j < k THEN j ELSE j + 1
  <2>5. \A j \in DOMAIN subs' : from(j) \in DOMAIN subs \ {k} /\ subs'[j] = subs[from(j)]
    BY <2>3, <2>4
  <2>6. \A h \in DOMAIN subs \ {k} : \E j \in DOMAIN subs' : from(j) = h
    <3> SUFFICES ASSUME NEW h \in DOMAIN subs, h # k PROVE \E j \in DOMAIN subs' : from(j) = h
      OBVIOUS
    <3>1. CASE h < k
      BY <2>3, <2>4, <3>1
    <3>2. CASE h > k
      <4>1. h - 1 \in DOMAIN subs' /\ from(h - 1) = h
        BY <2>3, <2>4, <3>2
      <4> QED BY <4>1
    <3> QED BY <2>3, <3>1, <3>2
  <2>7. \A h, j \in DOMAIN subs' : from(h) = from(j) => h = j
    BY <2>3, <2>4
  <2> HIDE DEF from
  <2>8. OncePerId'
    BY <2>2, <2>5, <2>7 DEF OncePerId
  <2>9. HolderIds' = HolderIds \ {i}
    <3>1. HolderIds' \subseteq HolderIds \ {i}
      BY <2>1, <2>2, <2>5 DEF HolderIds, Holders, OncePerId
    <3>2. HolderIds \ {i} \subseteq HolderIds'
      BY <2>1, <2>5, <2>6 DEF HolderIds, Holders
    <3> QED BY <3>1, <3>2
  <2>10. i \in HolderIds <=> subs[k].uri
    BY <2>1, <2>2 DEF HolderIds, Holders, OncePerId
  <2>11. PICK ids : ids = HolderIds'
    OBVIOUS
  <2>12. refs' \in Nat /\ refs' <= Cardinality(ids) /\ (QuietRetarget => refs' = Cardinality(ids))
    <3>1. /\ Less(refs, 1) \in Nat
          /\ i \in HolderIds => /\ Less(refs, 1) <= Cardinality(ids)
                                /\ QuietRetarget => Less(refs, 1) = Cardinality(ids)
          /\ i \notin HolderIds => ids = HolderIds
      BY <2>2, <2>9, <2>11, DropsOne
    <3>2. CASE i \in HolderIds
      BY <2>1, <2>10, <3>1, <3>2 DEF Released
    <3>3. CASE i \notin HolderIds
      BY <2>1, <2>2, <2>10, <3>1, <3>3 DEF Released, Match
    <3> QED BY <3>2, <3>3
  <2>13. QuietRetarget => (wrap' # scope' => refs' = 0)
    <3>1. QuietRetarget /\ wrap # scope => refs = 0
      BY DEF SubsPart, SubsInv
    <3> QED BY <1>1, <2>1, <3>1 DEF Released, Less
  <2> QED BY <2>4, <2>8, <2>11, <2>12, <2>13, SubsNext
<1> QED BY <1>2, <1>3

LEMMA SubsListen ==
  ASSUME ChainPart, SubsPart, Listen
  PROVE  SubsPart'
<1>1. PICK head : head = Head(queue)
  OBVIOUS
<1>2. PICK uri \in BOOLEAN : /\ uri => head.kind = "watch"
                             /\ refs' = AfterRelease(Held(uri), head.id)
                             /\ subs' = Registered([id |-> head.id, uri |-> uri])
  BY <1>1 DEF Listen
<1>3. PICK k \in Listens : Takes(k) /\ Fixed
  BY DEF Listen
<1>4. scope' = wrap /\ wrap' = wrap
  BY DEF Listen, Fixed, wrapVars
<1>5. head.id \in Ids
  <2>1. queue # <<>> /\ run = Idle /\ head.kind = k
    BY <1>1, <1>3, TakesFacts
  <2>2. head \in Link /\ LinkIds(head) \subseteq DOMAIN kind /\ DOMAIN kind \subseteq Ids
    BY <1>1, <2>1, HeadFacts DEF ChainPart, ChainType
  <2> QED BY <1>3, <2>1, <2>2, LinkFacts
<1>6. PICK new : new = [id |-> head.id, uri |-> uri]
  OBVIOUS
<1>7. new \in Sub /\ new.id = head.id /\ new.uri = uri
  BY <1>5, <1>6 DEF Sub
<1>8. /\ subs \in Seq(Sub) /\ OncePerId /\ Armed \in Nat /\ Match(Armed)
      /\ \A j \in DOMAIN subs : subs[j] \in Sub
      /\ IsFiniteSet(HolderIds) /\ Cardinality(HolderIds) = Cardinality(Holders)
      /\ Cardinality(Holders) \in Nat
  BY SubsFacts
<1>9. DOMAIN subs = 1..Len(subs) /\ Len(subs) \in Nat
  BY <1>8, SeqFacts
<1>10. /\ subs' \in Seq(Sub) /\ OncePerId'
       /\ HolderIds' = IF uri THEN HolderIds \cup {head.id} ELSE HolderIds \ {head.id}
  <2>1. CASE {j \in DOMAIN subs : subs[j].id = new.id} = {}
    <3>1. subs' = Append(subs, new)
      BY <1>2, <1>6, <2>1 DEF Registered
    <3>2. /\ subs' \in Seq(Sub) /\ Len(subs') = Len(subs) + 1
          /\ \A j \in DOMAIN subs' : \/ j \in DOMAIN subs /\ subs'[j] = subs[j]
                                     \/ j \notin DOMAIN subs /\ subs'[j] = new
          /\ \A j \in DOMAIN subs : j \in DOMAIN subs' /\ subs'[j] = subs[j]
      BY <1>7, <1>8, <3>1, AppendFacts
    <3>3. /\ DOMAIN subs' = DOMAIN subs \cup {Len(subs) + 1} /\ Len(subs) + 1 \notin DOMAIN subs
          /\ subs'[Len(subs) + 1] = new
      <4>1. DOMAIN subs' = 1..Len(subs')
        BY <3>2, SeqFacts
      <4> QED BY <1>9, <3>2, <4>1
    <3>4. OncePerId'
      BY <1>8, <2>1, <3>2, <3>3 DEF OncePerId
    <3>5. HolderIds' = IF uri THEN HolderIds \cup {head.id} ELSE HolderIds \ {head.id}
      <4>1. head.id \notin HolderIds
        BY <1>7, <2>1 DEF HolderIds, Holders
      <4>2. HolderIds' = HolderIds \cup (IF uri THEN {head.id} ELSE {})
        BY <1>7, <3>2, <3>3 DEF HolderIds, Holders
      <4> QED BY <4>1, <4>2
    <3> QED BY <3>2, <3>4, <3>5
  <2>2. CASE {j \in DOMAIN subs : subs[j].id = new.id} # {}
    <3>1. subs' = [j \in DOMAIN subs |-> IF j \in {h \in DOMAIN subs : subs[h].id = new.id} THEN new ELSE subs[j]]
      BY <1>2, <1>6, <2>2 DEF Registered
    <3>2. /\ DOMAIN subs' = DOMAIN subs
          /\ \A j \in DOMAIN subs : subs'[j] = IF subs[j].id = new.id THEN new ELSE subs[j]
      BY <3>1
    <3>3. \A j \in DOMAIN subs : subs'[j] \in Sub /\ subs'[j].id = subs[j].id
      BY <1>7, <1>8, <3>2
    <3>4. subs' \in Seq(Sub)
      BY <1>9, <3>1, <3>2, <3>3
    <3>5. OncePerId'
      BY <1>8, <3>2, <3>3 DEF OncePerId
    <3>6. HolderIds' = IF uri THEN HolderIds \cup {head.id} ELSE HolderIds \ {head.id}
      BY <1>7, <2>2, <3>2 DEF HolderIds, Holders
    <3> QED BY <3>4, <3>5, <3>6
  <2> QED BY <2>1, <2>2
<1>11. PICK ids : ids = HolderIds'
  OBVIOUS
<1>12. refs' \in Nat /\ refs' <= Cardinality(ids) /\ (QuietRetarget => refs' = Cardinality(ids))
  <2>1. (\E j \in Holders : subs[j].id = head.id) <=> head.id \in HolderIds
    BY DEF HolderIds
  <2>2. refs' = IF head.id \in HolderIds THEN Less(Held(uri), 1) ELSE Held(uri)
    BY <1>2, <2>1 DEF AfterRelease
  <2>3. CASE uri
    <3>1. ids = HolderIds \cup {head.id} /\ Held(uri) = Armed + 1
      BY <1>10, <1>11, <2>3 DEF Held
    <3>2. Cardinality(ids) = IF head.id \in HolderIds THEN Cardinality(HolderIds) ELSE Cardinality(HolderIds) + 1
      BY <1>8, <3>1, FS_AddElement
    <3>3. Less(Armed + 1, 1) = Armed
      BY <1>8 DEF Less
    <3> QED BY <1>8, <2>2, <3>1, <3>2, <3>3 DEF Match
  <2>4. CASE ~uri
    <3>1. ids = HolderIds \ {head.id} /\ Held(uri) = Armed
      BY <1>10, <1>11, <2>4 DEF Held
    <3>2. /\ Less(Armed, 1) \in Nat
          /\ head.id \in HolderIds => /\ Less(Armed, 1) <= Cardinality(ids)
                                      /\ QuietRetarget => Less(Armed, 1) = Cardinality(ids)
          /\ head.id \notin HolderIds => ids = HolderIds
      BY <1>8, <3>1, DropsOne
    <3> QED BY <1>8, <2>2, <3>1, <3>2 DEF Match
  <2> QED BY <2>3, <2>4
<1> QED BY <1>4, <1>10, <1>11, <1>12, SubsNext

LEMMA SubsRetarget ==
  ASSUME SubsPart, Retarget
  PROVE  SubsPart'
<1>1. UNCHANGED <<subs, refs, scope>> /\ (QuietRetarget => \A k \in DOMAIN subs : ~subs[k].uri)
  BY DEF Retarget, subVars
<1>2. QuietRetarget => refs = 0
  <2>1. QuietRetarget => Holders = {}
    BY <1>1 DEF Holders
  <2> QED BY <2>1, SubsFacts, FS_EmptySet DEF Match
<1>3. Holders' = Holders
  BY <1>1 DEF Holders
<1> QED BY <1>1, <1>2, <1>3 DEF SubsPart, SubsInv

-----------------------------------------------------------------------------
(* Every step keeps every part.                                            *)
LEMMA RestNext ==
  ASSUME ChainPart, RestType, Next
  PROVE  RestType'
<1> USE DEF RestType
<1>1. ASSUME NEW k \in Singles \cup Listens, SendRequest(k) \/ SendListen(k) PROVE RestType'
  <2>1. UNCHANGED <<ended, dying, exited, negotiated, wrap, scope, retargets, refused>>
    BY <1>1, Zenon DEF SendRequest, SendListen, Queue, subVars, wrapVars, endVars, outVars
  <2>2. DOMAIN kind \subseteq DOMAIN kind'
    BY <1>1 DEF SendRequest, SendListen, Names
  <2> QED BY <2>1, <2>2
<1>2. CASE SendBatch \/ SendNote
  <2>1. UNCHANGED <<ended, dying, exited, negotiated, wrap, scope, retargets, refused>>
    BY <1>2, Zenon DEF SendBatch, SendNote, Queue, subVars, wrapVars, endVars, outVars
  <2>2. DOMAIN kind \subseteq DOMAIN kind'
    BY <1>2 DEF SendBatch, SendNote, Names
  <2> QED BY <2>1, <2>2
<1>3. CASE Overflow \/ Exit \/ End \/ Notify
  BY <1>3 DEF Overflow, Exit, End, Notify, subVars, wrapVars, endVars, outVars
<1>4. CASE Retarget
  BY <1>4 DEF Retarget, subVars, wrapVars, endVars, outVars
<1>5. ASSUME NEW i \in Ids, Cancel(i) PROVE RestType'
  BY <1>5, Zenon DEF Cancel, CancelListen, CancelRequest, Arms, wrapVars, endVars, outVars
<1>6. CASE Starts \/ Steps
  <2>1. UNCHANGED <<wrap, retargets, ended, dying, exited, kind>>
    BY <1>6, Zenon
       DEF Starts, Steps, SkipLink, StartAndAnswer, StartNote, StartMirror, StartForward, StartCall, StartBatch,
           AnswerBatch, RefuseBatch, Listen, RefuseListen, MirrorDone, GateAllows, GateDenies, ToolDone, Send,
           ForwardDone, NextMember, BatchDone, Fixed, wrapVars, endVars
  <2>2. scope' \in {scope, wrap} /\ negotiated' \in Versions \cup {negotiated}
    BY <1>6, Zenon
       DEF Starts, Steps, SkipLink, StartAndAnswer, StartNote, StartMirror, StartForward, StartCall, StartBatch,
           AnswerBatch, RefuseBatch, Listen, RefuseListen, MirrorDone, GateAllows, GateDenies, ToolDone, Send,
           ForwardDone, NextMember, BatchDone, Arms, subVars
  <2>3. CASE RefuseBatch
    <3>1. Takes("batch") /\ refused' = refused \cup {Head(queue).id, Head(queue).id + 1} /\ Fixed
      BY <2>3 DEF RefuseBatch
    <3>2. {Head(queue).id, Head(queue).id + 1} \subseteq DOMAIN kind
      BY <3>1, TakesFacts, HeadFacts, LinkFacts
    <3> QED BY <2>1, <2>2, <3>1, <3>2
  <2>4. CASE ~RefuseBatch
    <3>1. refused' = refused
      BY <1>6, <2>4, Zenon
         DEF Starts, Steps, SkipLink, StartAndAnswer, StartNote, StartMirror, StartForward, StartCall, StartBatch,
             AnswerBatch, Listen, RefuseListen, MirrorDone, GateAllows, GateDenies, ToolDone, Send,
             ForwardDone, NextMember, BatchDone, Answer, Reply, NoReply, outVars
    <3> QED BY <2>1, <2>2, <3>1
  <2> QED BY <2>3, <2>4
<1> QED BY <1>1, <1>2, <1>3, <1>4, <1>5, <1>6, Zenon DEF Next

(* What is queued changes neither the forwards nor the subscriptions.      *)
LEMMA QueueParts ==
  ASSUME ChainPart, WirePart, SubsPart, NEW link, Queue(link)
  PROVE  WirePart' /\ SubsPart'
<1>1. UNCHANGED <<run, inflight, issued, subs, refs, scope, wrap>>
  BY DEF Queue, wireVars, subVars, wrapVars
<1> QED BY <1>1, WireKeeps, SubsKeeps

LEMMA StartsParts ==
  ASSUME ChainPart, WirePart, SubsPart, RestType, Starts
  PROVE  ChainPart' /\ WirePart' /\ SubsPart'
<1>1. CASE SkipLink
  <2>1. UNCHANGED <<run, inflight, issued, subs, refs, scope, wrap>>
    BY <1>1 DEF SkipLink, Fixed, wireVars, subVars, wrapVars
  <2> QED BY <1>1, <2>1, SkipLinkInv, WireKeeps, SubsKeeps
<1>2. CASE StartAndAnswer
  <2>1. Arms /\ UNCHANGED <<run, inflight, issued, subs, wrap>>
    BY <1>2 DEF StartAndAnswer, Fixed, wireVars, wrapVars
  <2> QED BY <1>2, <2>1, StartAndAnswerInv, WireKeeps, SubsArms
<1>3. CASE StartNote
  <2>1. Arms /\ UNCHANGED <<run, inflight, issued, subs, wrap>>
    BY <1>3 DEF StartNote, Fixed, wireVars, wrapVars
  <2> QED BY <1>3, <2>1, StartNoteInv, WireKeeps, SubsArms
<1>4. CASE StartMirror \/ StartForward \/ StartCall \/ StartBatch
  <2>1. Arms /\ UNCHANGED <<subs, wrap>>
    BY <1>4 DEF StartMirror, StartForward, StartCall, StartBatch, Fixed, wrapVars
  <2> QED BY <1>4, <2>1, StartsInv, WireStarts, SubsArms
<1>5. CASE AnswerBatch
  <2>1. Arms /\ UNCHANGED <<run, inflight, issued, subs, wrap>>
    BY <1>5 DEF AnswerBatch, Fixed, wireVars, wrapVars
  <2> QED BY <1>5, <2>1, AnswerBatchInv, WireKeeps, SubsArms
<1>6. CASE Listen
  <2>1. UNCHANGED <<run, inflight, issued>>
    BY <1>6 DEF Listen, wireVars
  <2> QED BY <1>6, <2>1, ListenInv, WireKeeps, SubsListen
<1>7. CASE RefuseBatch \/ RefuseListen
  <2>1. UNCHANGED <<run, inflight, issued, subs, refs, scope, wrap>>
    BY <1>7 DEF RefuseBatch, RefuseListen, Fixed, wireVars, subVars, wrapVars
  <2> QED BY <1>7, <2>1, RefuseBatchInv, RefuseListenInv, WireKeeps, SubsKeeps
<1> QED BY <1>1, <1>2, <1>3, <1>4, <1>5, <1>6, <1>7 DEF Starts

LEMMA StepsParts ==
  ASSUME ChainPart, WirePart, SubsPart, RestType, Steps
  PROVE  ChainPart' /\ WirePart' /\ SubsPart'
<1>1. ChainPart'
  BY AnswersInv, BatchDoneInv, StagesInv, Zenon DEF Steps
<1>2. WirePart'
  BY WireSteps
<1>3. SubsPart'
  <2>1. UNCHANGED <<subs, wrap>> /\ (Arms \/ UNCHANGED <<refs, scope>>)
    BY DEF Steps, MirrorDone, GateAllows, GateDenies, ToolDone, Send, ForwardDone, NextMember, BatchDone, Fixed, subVars, wrapVars
  <2> QED BY <2>1, SubsArms, SubsKeeps
<1> QED BY <1>1, <1>2, <1>3

LEMMA OthersParts ==
  ASSUME ChainPart, WirePart, SubsPart, Overflow \/ Exit \/ End \/ Notify \/ Retarget \/ UNCHANGED vars
  PROVE  ChainPart' /\ WirePart' /\ SubsPart'
<1>1. UNCHANGED <<run, inflight, issued>>
  BY DEF Overflow, Exit, End, Notify, Retarget, vars, chainVars, wireVars
<1>2. CASE Overflow \/ Exit \/ Notify \/ UNCHANGED vars
  <2>1. UNCHANGED <<subs, refs, scope, wrap>>
    BY <1>2 DEF Overflow, Exit, Notify, vars, subVars, wrapVars
  <2> QED BY <1>1, <1>2, <2>1, OthersInv, WireKeeps, SubsKeeps
<1>3. CASE End
  BY <1>1, <1>3, OthersInv, WireKeeps, SubsEnd
<1>4. CASE Retarget
  BY <1>1, <1>4, OthersInv, WireKeeps, SubsRetarget
<1> QED BY <1>2, <1>3, <1>4

LEMMA LoopInit == Init => LoopInv
<1> SUFFICES ASSUME Init PROVE LoopInv
  OBVIOUS
<1> USE DEF Init
<1>1. DOMAIN kind = {} /\ DOMAIN kind = 1..0 /\ 0 \in 0..MaxIds
  OBVIOUS
<1>2. Idle \in RunRecord /\ LinkIds(NoLink) = {} /\ NoLink.kind \notin Singles \cup Listens /\ Idle.link = NoLink
  BY DEF Idle, NoLink, RunRecord, Link, Stages, LinkIds, Singles, Listens
<1>3. ChainPart
  <2>1. ChainType
    BY <1>2 DEF ChainType, RegType
  <2>2. ChainInv
    BY <1>1, <1>2 DEF ChainInv, Fits, Before
  <2>3. WordInv
    BY DEF WordInv
  <2> QED BY <2>1, <2>2, <2>3 DEF ChainPart
<1>4. WirePart
  <2>1. WireType
    <3>1. DOMAIN inflight = {} /\ issued \in [Targets -> 0..MaxIds]
      OBVIOUS
    <3> QED BY <3>1 DEF WireType
  <2>2. WireInv
    BY DEF WireInv, Upstream, Idle, NoLink
  <2> QED BY <2>1, <2>2 DEF WirePart
<1>5. SubsPart
  <2>1. Holders = {} /\ subs \in Seq([id : Ids, uri : BOOLEAN])
    BY DEF Holders
  <2> QED BY <2>1, FS_EmptySet DEF SubsPart, SubsInv
<1>6. RestType
  <2>1. ended \in BOOLEAN /\ dying \in BOOLEAN /\ exited \in BOOLEAN
    BY Zenon
  <2>2. negotiated \in Versions /\ {wrap, scope} \subseteq Targets \cup {NoWrap}
        /\ retargets \in 0..MaxRetargets /\ refused \subseteq DOMAIN kind
    BY DEF Versions
  <2> QED BY <2>1, <2>2, Zenon DEF RestType
<1> QED BY <1>3, <1>4, <1>5, <1>6, Parts

LEMMA LoopNext == LoopInv /\ [Next]_vars => LoopInv'
<1> SUFFICES ASSUME ChainPart, WirePart, SubsPart, RestType, [Next]_vars
             PROVE  ChainPart' /\ WirePart' /\ SubsPart' /\ RestType'
  <2>1. LoopInv' <=> ChainPart' /\ WirePart' /\ SubsPart' /\ RestType'
    BY Parts, PTL
  <2> QED BY <2>1, Parts
<1>1. RestType'
  <2>1. CASE UNCHANGED vars
    BY <2>1 DEF vars, subVars, wrapVars, endVars, outVars, RestType
  <2> QED BY <2>1, RestNext
<1>2. ASSUME NEW k \in Singles, SendRequest(k) PROVE ChainPart' /\ WirePart' /\ SubsPart'
  BY <1>2, SendRequestInv, QueueParts DEF SendRequest
<1>3. ASSUME NEW k \in Listens, SendListen(k) PROVE ChainPart' /\ WirePart' /\ SubsPart'
  BY <1>3, SendListenInv, QueueParts DEF SendListen
<1>4. CASE SendBatch
  <2>1. PICK link : Queue(link)
    BY <1>4 DEF SendBatch
  <2> QED BY <1>1, <1>4, <2>1, SendBatchInv, QueueParts
<1>5. CASE SendNote
  <2>1. PICK link : Queue(link)
    BY <1>5 DEF SendNote
  <2> QED BY <1>1, <1>5, <2>1, SendNoteInv, QueueParts
<1>6. ASSUME NEW i \in Ids, Cancel(i) PROVE ChainPart' /\ WirePart' /\ SubsPart'
  <2>1. UNCHANGED <<inflight, issued, run>>
    BY <1>6 DEF Cancel
  <2> QED BY <1>6, <2>1, CancelInv, WireKeeps, SubsCancel
<1> QED BY <1>1, <1>2, <1>3, <1>4, <1>5, <1>6, StartsParts, StepsParts, OthersParts, Zenon DEF Next

(* The chain, the words, the forwards and the subscriptions of a session   *)
(* stay in order, whatever the client sends and whenever it cancels        *)
(* (createStdioLoop, handleMessage, forwardWrapped).                       *)
THEOREM LoopInvHolds == Spec => []LoopInv
<1>1. Init => LoopInv
  BY LoopInit
<1>2. LoopInv /\ [Next]_vars => LoopInv'
  BY LoopNext
<1> QED BY <1>1, <1>2, PTL DEF Spec

(* Among others: only a request under way is tracked for cancellation      *)
(* upstream (forwardWrapped's inflightForwards).                           *)
THEOREM LoopTypeCorrect == Spec => []TypeOK
<1>1. LoopInv => TypeOK
  BY DEF LoopInv
<1> QED BY <1>1, LoopInvHolds, PTL

(* Whatever the upstreams and the edits of the wrap: every request is      *)
(* replied to once and in the order it was sent, and one whose cancel was  *)
(* read before its reply is never written to (enqueue).                    *)
THEOREM AnswersInTurnHolds == Spec => []AnswersInTurn
<1>1. LoopInv => AnswersInTurn
  BY DEF LoopInv, WordInv, AnswersInTurn
<1> QED BY <1>1, LoopInvHolds, PTL

(* Among any number of upstreams: while the session is wrapped around the  *)
(* one a forward went to, a cancel of it is relayed there, under the number*)
(* of the request that was sent last (forwardWrapped, inflightForwards).   *)
THEOREM CancelNamesItsForwardHolds == Spec => []CancelNamesItsForward
<1>1. LoopInv => CancelNamesItsForward
  <2> SUFFICES ASSUME LoopInv, run.stage = "rpc", wrap = run.pt
               PROVE  Relayed(Now) = {[to |-> run.pt, no |-> issued[run.pt]]}
    BY DEF CancelNamesItsForward
  <2>1. /\ DOMAIN inflight = {Now} /\ inflight[Now] = [to |-> run.pt, no |-> issued[run.pt]]
        /\ run.pt \in Targets
    BY DEF LoopInv, WireInv, Upstream
  <2>2. wrap # NoWrap
    BY <2>1, NoWrapApart
  <2> QED BY <2>1, <2>2 DEF Relayed
<1> QED BY <1>1, LoopInvHolds, PTL

(* If the wrap is not edited while a subscription holds a resource, the    *)
(* gateway holds it upstream for exactly the subscriptions that agreed     *)
(* (subscribeResources, releaseResources).                                 *)
THEOREM RefsMatchSubsHolds ==
  ASSUME QuietRetarget
  PROVE  Spec => []RefsMatchSubs
<1>1. LoopInv => RefsMatchSubs
  BY DEF LoopInv, SubsInv, RefsMatchSubs
<1> QED BY <1>1, LoopInvHolds, PTL

(* Whatever is edited and when: nothing is held upstream that no           *)
(* subscription asks for, and a listen sent again has one subscription     *)
(* (setWrapChatterUpstream).                                               *)
THEOREM NothingLeaks ==
  Spec => [](/\ refs <= Cardinality(Holders)
             /\ \A i, j \in DOMAIN subs : subs[i].id = subs[j].id => i = j)
<1>1. LoopInv => /\ refs <= Cardinality(Holders)
                 /\ \A i, j \in DOMAIN subs : subs[i].id = subs[j].id => i = j
  BY DEF LoopInv, SubsInv
<1> QED BY <1>1, LoopInvHolds, PTL

-----------------------------------------------------------------------------
(* No request falls off the chain.                                         *)
LEMMA FlagKeeps ==
  ASSUME FlagInv, replied \subseteq replied', cancelled \subseteq cancelled',
         DOMAIN reg' \subseteq DOMAIN reg, \A j \in DOMAIN reg' : reg'[j].cancelled = reg[j].cancelled
  PROVE  FlagInv'
  BY DEF FlagInv

(* The chain goes on with the link it has.                                 *)
LEMMA WaitsOn ==
  ASSUME NobodySkipped, kind' = kind, queue' = queue, replied \subseteq replied', refused \subseteq refused', cancelled \subseteq cancelled',
         LinkIds(run.link) \subseteq replied' \cup refused' \cup cancelled' \cup LinkIds(run'.link)
  PROVE  NobodySkipped'
<1> SUFFICES ASSUME NEW i \in DOMAIN kind PROVE i \in replied' \cup refused' \cup cancelled' \/ Waits(i)'
  BY DEF NobodySkipped
<1> QED BY DEF NobodySkipped, Waits

(* It takes the link at the head.                                          *)
LEMMA WaitsTake ==
  ASSUME ChainPart, NobodySkipped, kind' = kind, queue # <<>>, run = Idle, queue' = Tail(queue),
         replied \subseteq replied', refused \subseteq refused', cancelled \subseteq cancelled',
         LinkIds(Head(queue)) \subseteq replied' \cup refused' \cup cancelled' \cup LinkIds(run'.link)
  PROVE  NobodySkipped'
<1> SUFFICES ASSUME NEW i \in DOMAIN kind PROVE i \in replied' \cup refused' \cup cancelled' \/ Waits(i)'
  BY DEF NobodySkipped
<1>1. queue \in Seq(Link)
  BY ChainFacts
<1>2. LinkIds(run.link) = {}
  BY DEF Idle, NoLink, LinkIds
<1>3. CASE i \in replied \cup refused \cup cancelled
  BY <1>3
<1>4. ASSUME NEW k \in DOMAIN queue, i \in LinkIds(queue[k]) PROVE i \in replied' \cup refused' \cup cancelled' \/ Waits(i)'
  <2>1. CASE k = 1
    <3>1. Head(queue) = queue[1]
      BY <1>1, TailFacts
    <3> QED BY <1>4, <2>1, <3>1 DEF Waits
  <2>2. CASE k # 1
    <3>1. k - 1 \in DOMAIN Tail(queue) /\ Tail(queue)[k - 1] = queue[k]
      BY <1>1, <2>2
    <3> QED BY <1>4, <3>1 DEF Waits
  <2> QED BY <2>1, <2>2
<1> QED BY <1>2, <1>3, <1>4 DEF NobodySkipped, Waits

(* A message is queued with the ids it brings.                             *)
LEMMA WaitsQueue ==
  ASSUME ChainPart, NobodySkipped, NEW link \in Link, Queue(link),
         DOMAIN kind' \subseteq DOMAIN kind \cup LinkIds(link)
  PROVE  NobodySkipped'
<1> SUFFICES ASSUME NEW i \in DOMAIN kind' PROVE i \in replied' \cup refused' \cup cancelled' \/ Waits(i)'
  BY DEF NobodySkipped
<1>1. queue \in Seq(Link) /\ queue' = Append(queue, link) /\ UNCHANGED <<run, replied, refused, cancelled>>
  BY ChainFacts DEF Queue, outVars
<1>2. /\ \A k \in DOMAIN queue : k \in DOMAIN queue' /\ queue'[k] = queue[k]
      /\ \E k \in DOMAIN queue' : queue'[k] = link
  BY <1>1
<1> QED BY <1>1, <1>2 DEF NobodySkipped, Waits

(* Whoever answers a request answers or withholds for a cancel.            *)
LEMMA AnswerServes ==
  ASSUME ChainPart, FlagInv, NEW i \in DOMAIN reg, Answer(i), UNCHANGED <<kind, cancelled>>
  PROVE  /\ FlagInv' /\ replied \subseteq replied' /\ refused' = refused
         /\ i \in replied' \cup cancelled'
<1>1. reg' = [j \in DOMAIN reg \ {i} |-> reg[j]]
  BY DEF Answer, Leaves
<1>2. replied \subseteq replied' /\ refused' = refused /\ i \in replied' \cup cancelled'
  BY DEF Answer, Reply, NoReply, outVars, FlagInv
<1> QED BY <1>1, <1>2, FlagKeeps

NobodyInv == NobodySkipped /\ FlagInv

LEMMA NobodySends ==
  ASSUME ChainPart, NobodyInv,
         \/ \E k \in Singles : SendRequest(k)
         \/ \E k \in Listens : SendListen(k)
         \/ SendBatch \/ SendNote
  PROVE  NobodyInv'
<1>1. PICK n \in 0..MaxIds : DOMAIN kind = 1..n /\ Fresh = n + 1
  BY FreshFacts
<1>2. FlagInv /\ NobodySkipped
  BY DEF NobodyInv
<1>3. ASSUME NEW k \in Singles, SendRequest(k) PROVE NobodyInv'
  <2> DEFINE link == [kind |-> k, id |-> Fresh]
  <2>1. /\ link \in Link /\ Queue(link) /\ LinkIds(link) = {Fresh} /\ DOMAIN kind' = DOMAIN kind \cup {Fresh}
    BY <1>1, <1>3 DEF SendRequest, Names, Link, LinkIds, Ids, Singles
  <2>2. NobodySkipped'
    BY <1>2, <2>1, WaitsQueue
  <2>3. FlagInv'
    <3>1. /\ DOMAIN reg' = DOMAIN reg \cup {Fresh} /\ ~reg'[Fresh].cancelled
          /\ \A j \in DOMAIN reg : j # Fresh => reg'[j] = reg[j]
      BY <1>3 DEF SendRequest
    <3>2. UNCHANGED <<replied, cancelled>>
      BY <2>1 DEF Queue, outVars
    <3> QED BY <1>2, <3>1, <3>2 DEF FlagInv
  <2> QED BY <2>2, <2>3 DEF NobodyInv
<1>4. ASSUME NEW k \in Listens, SendListen(k) PROVE NobodyInv'
  <2>1. PICK i \in DOMAIN kind \cup {Fresh} :
          /\ Queue([kind |-> k, id |-> i]) /\ DOMAIN kind' \subseteq DOMAIN kind \cup {i} /\ i \in 0..MaxIds
    <3>1. CASE Fresh \in Ids /\ Queue([kind |-> k, id |-> Fresh]) /\ Names({Fresh}, k)
      <4>1. DOMAIN kind' = DOMAIN kind \cup {Fresh}
        BY <3>1 DEF Names
      <4> QED BY <1>1, <3>1, <4>1 DEF Ids
    <3>2. ASSUME NEW i \in DOMAIN kind, Queue([kind |-> k, id |-> i]), UNCHANGED kind
          PROVE  \E j \in DOMAIN kind \cup {Fresh} :
                   /\ Queue([kind |-> k, id |-> j]) /\ DOMAIN kind' \subseteq DOMAIN kind \cup {j} /\ j \in 0..MaxIds
      BY <1>1, <3>2
    <3> QED BY <1>4, <3>1, <3>2 DEF SendListen
  <2>2. [kind |-> k, id |-> i] \in Link /\ LinkIds([kind |-> k, id |-> i]) = {i}
    BY <2>1 DEF Link, LinkIds, Listens
  <2>3. NobodySkipped'
    BY <1>2, <2>1, <2>2, WaitsQueue
  <2>4. UNCHANGED <<reg, replied, cancelled>>
    BY <1>4, <2>1 DEF SendListen, Queue, outVars
  <2> QED BY <1>2, <2>3, <2>4, FlagKeeps DEF NobodyInv
<1>5. CASE SendBatch
  <2> DEFINE link == [kind |-> "batch", id |-> Fresh]
  <2>1. /\ link \in Link /\ Queue(link) /\ LinkIds(link) = {Fresh, Fresh + 1}
        /\ DOMAIN kind' = DOMAIN kind \cup {Fresh, Fresh + 1}
    BY <1>1, <1>5 DEF SendBatch, Names, Link, LinkIds, Ids
  <2>2. NobodySkipped'
    BY <1>2, <2>1, WaitsQueue
  <2>3. UNCHANGED <<reg, replied, cancelled>>
    BY <1>5, <2>1 DEF SendBatch, Queue, outVars
  <2> QED BY <1>2, <2>2, <2>3, FlagKeeps DEF NobodyInv
<1>6. CASE SendNote
  <2>1. NoLink \in Link /\ Queue(NoLink) /\ UNCHANGED <<kind, reg>>
    BY <1>6 DEF SendNote, NoLink, Link
  <2>2. NobodySkipped'
    BY <1>2, <2>1, WaitsQueue
  <2>3. UNCHANGED <<replied, cancelled>>
    BY <2>1 DEF Queue, outVars
  <2> QED BY <1>2, <2>1, <2>2, <2>3, FlagKeeps DEF NobodyInv
<1> QED BY <1>3, <1>4, <1>5, <1>6

LEMMA NobodyStarts ==
  ASSUME ChainPart, NobodyInv, Starts
  PROVE  NobodyInv'
<1>1. PICK head : head = Head(queue)
  OBVIOUS
<1>2. /\ queue # <<>> /\ run = Idle /\ queue' = Tail(queue) /\ UNCHANGED <<kind, cancelled>>
  BY TakesFacts DEF Starts, SkipLink, StartAndAnswer, StartNote, StartMirror, StartForward, StartCall,
                    StartBatch, AnswerBatch, RefuseBatch, Listen, RefuseListen
<1>3. /\ head \in Link /\ RegType
      /\ head.kind \in Singles => head.id \in DOMAIN reg /\ LinkIds(head) = {head.id}
      /\ head.kind \in Listens => LinkIds(head) = {head.id}
      /\ head.kind = "batch" => LinkIds(head) = {head.id, head.id + 1}
      /\ head.kind = "note" => LinkIds(head) = {}
  BY <1>1, <1>2, HeadFacts, LinkFacts
<1>4. FlagInv /\ NobodySkipped
  BY DEF NobodyInv
<1> SUFFICES /\ FlagInv' /\ replied \subseteq replied' /\ refused \subseteq refused'
             /\ LinkIds(head) \subseteq replied' \cup refused' \cup cancelled' \cup LinkIds(run'.link)
  BY <1>1, <1>2, <1>4, WaitsTake DEF NobodyInv
<1>5. CASE SkipLink
  <2>1. /\ head.kind \in Singles /\ PreCancelled(head.id) /\ Leaves(head.id) /\ UNCHANGED <<replied, refused>>
    BY <1>1, <1>5, TakesFacts DEF SkipLink, NoReply, outVars
  <2>2. head.id \in replied \cup cancelled
    BY <1>4, <2>1 DEF PreCancelled, FlagInv
  <2>3. reg' = [j \in DOMAIN reg \ {head.id} |-> reg[j]]
    BY <2>1 DEF Leaves
  <2> QED BY <1>2, <1>3, <1>4, <2>1, <2>2, <2>3, FlagKeeps
<1>6. CASE StartAndAnswer
  <2>1. head.kind \in Singles /\ Answer(head.id)
    BY <1>1, <1>6, TakesFacts DEF StartAndAnswer
  <2> QED BY <1>2, <1>3, <1>4, <2>1, AnswerServes
<1>7. CASE StartNote
  <2>1. head.kind = "note" /\ UNCHANGED <<reg, replied, refused>>
    BY <1>1, <1>7, TakesFacts DEF StartNote, NoReply, outVars
  <2> QED BY <1>2, <1>3, <1>4, <2>1, FlagKeeps
<1>8. CASE StartMirror \/ StartForward \/ StartCall
  <2>1. head.kind \in Singles /\ Marks(head.id) /\ UNCHANGED <<replied, refused>> /\ \E stage \in Stages : Runs(stage)
    BY <1>1, <1>8, TakesFacts DEF StartMirror, StartForward, StartCall, NoReply, outVars, Singles, Stages
  <2>2. run'.link = head
    BY <1>1, <2>1 DEF Runs
  <2>3. DOMAIN reg' = DOMAIN reg /\ \A j \in DOMAIN reg' : reg'[j].cancelled = reg[j].cancelled
    BY <1>2, <1>3, <2>1, MarksFacts
  <2> QED BY <1>2, <1>4, <2>1, <2>2, <2>3, FlagKeeps
<1>9. CASE StartBatch
  <2>1. Runs("dial") /\ UNCHANGED <<reg, replied, refused>>
    BY <1>9 DEF StartBatch, NoReply, outVars
  <2>2. run'.link = head
    BY <1>1, <2>1 DEF Runs
  <2> QED BY <1>2, <1>4, <2>1, <2>2, FlagKeeps
<1>10. CASE AnswerBatch
  <2>1. head.kind = "batch" /\ Reply({head.id, head.id + 1}) /\ reg' = reg
    BY <1>1, <1>10, TakesFacts DEF AnswerBatch
  <2>2. replied' = replied \cup {head.id, head.id + 1} /\ refused' = refused
    BY <2>1 DEF Reply
  <2> QED BY <1>2, <1>3, <1>4, <2>1, <2>2, FlagKeeps
<1>11. CASE Listen \/ RefuseListen
  <2>1. /\ head.kind \in Listens /\ replied' = replied \cup {head.id}
        /\ UNCHANGED <<reg, refused>>
    BY <1>1, <1>11, TakesFacts DEF Listen, RefuseListen
  <2> QED BY <1>2, <1>3, <1>4, <2>1, FlagKeeps
<1>12. CASE RefuseBatch
  <2>1. /\ head.kind = "batch" /\ refused' = refused \cup {head.id, head.id + 1}
        /\ UNCHANGED <<reg, replied>>
    BY <1>1, <1>12, TakesFacts DEF RefuseBatch
  <2> QED BY <1>2, <1>3, <1>4, <2>1, FlagKeeps
<1> QED BY <1>5, <1>6, <1>7, <1>8, <1>9, <1>10, <1>11, <1>12 DEF Starts

LEMMA NobodySteps ==
  ASSUME ChainPart, WirePart, NobodyInv, Steps
  PROVE  NobodyInv'
<1>1. UNCHANGED <<kind, cancelled, queue>>
  BY DEF Steps, MirrorDone, GateAllows, GateDenies, ToolDone, Send, ForwardDone, NextMember, BatchDone, Fixed
<1>2. FlagInv /\ NobodySkipped /\ run \in RunRecord /\ run.link \in Link
  BY RunFacts DEF NobodyInv
<1> SUFFICES /\ FlagInv' /\ replied \subseteq replied' /\ refused \subseteq refused'
             /\ LinkIds(run.link) \subseteq replied' \cup refused' \cup cancelled' \cup LinkIds(run'.link)
  BY <1>1, <1>2, WaitsOn DEF NobodyInv
<1>3. CASE MirrorDone \/ GateDenies \/ ToolDone \/ ForwardDone
  <2>1. run.link.kind \in Singles /\ Answer(run.link.id)
    BY <1>3 DEF MirrorDone, GateDenies, ToolDone, ForwardDone, WirePart, WireInv
  <2>2. LinkIds(run.link) = {run.link.id} /\ run.link.id \in DOMAIN reg
    BY <1>2, <2>1, RunFacts, LinkFacts
  <2> QED BY <1>1, <1>2, <2>1, <2>2, AnswerServes
<1>4. CASE GateAllows \/ Send \/ NextMember
  <2>1. UNCHANGED <<reg, replied, refused>>
    BY <1>4 DEF GateAllows, Send, NextMember, NoReply, outVars
  <2>2. run'.link = run.link
    BY <1>2, <1>4 DEF GateAllows, Send, NextMember, RunRecord
  <2> QED BY <1>1, <1>2, <2>1, <2>2, FlagKeeps
<1>5. CASE BatchDone
  <2>1. run.link.kind = "batch" /\ Reply({run.link.id, run.link.id + 1}) /\ reg' = reg
    BY <1>5 DEF BatchDone
  <2>2. replied' = replied \cup {run.link.id, run.link.id + 1} /\ refused' = refused
    BY <2>1 DEF Reply
  <2>3. LinkIds(run.link) = {run.link.id, run.link.id + 1}
    BY <1>2, <2>1, LinkFacts
  <2> QED BY <1>1, <1>2, <2>1, <2>2, <2>3, FlagKeeps
<1> QED BY <1>3, <1>4, <1>5 DEF Steps

LEMMA NobodyCancels ==
  ASSUME ChainPart, SubsPart, NobodyInv, NEW i \in Ids, Cancel(i)
  PROVE  NobodyInv'
<1>1. /\ UNCHANGED <<kind, queue, run, replied, refused>> /\ cancelled \subseteq cancelled'
      /\ i \in DOMAIN kind /\ (i \in cancelled' \/ i \in replied')
      /\ IF \E k \in DOMAIN subs : subs[k].id = i THEN CancelListen(i) ELSE CancelRequest(i)
  BY DEF Cancel, outVars
<1>2. FlagInv /\ NobodySkipped
  BY DEF NobodyInv
<1>3. NobodySkipped'
  BY <1>1, <1>2, WaitsOn
<1>4. reg' = reg \/ (i \in DOMAIN reg /\ reg' = [reg EXCEPT ![i].cancelled = TRUE])
  BY <1>1 DEF CancelListen, CancelRequest
<1>5. DOMAIN reg' = DOMAIN reg /\ \A j \in DOMAIN reg : j # i => reg'[j] = reg[j]
  BY <1>4
<1> QED BY <1>1, <1>2, <1>3, <1>5 DEF NobodyInv, FlagInv

LEMMA NobodyOthers ==
  ASSUME NobodyInv, Overflow \/ Exit \/ End \/ Notify \/ Retarget \/ UNCHANGED vars
  PROVE  NobodyInv'
<1>1. UNCHANGED <<kind, queue, run, reg, cancelled, replied, refused>>
  BY DEF Overflow, Exit, End, Notify, Retarget, vars, chainVars, outVars
<1> QED BY <1>1, WaitsOn, FlagKeeps DEF NobodyInv

(* Whatever the client sends, cancels and batches, and whichever way the   *)
(* chain goes on: every request is replied to, cancelled, under way or in  *)
(* the queue, so none can be left without a reply while the chain moves    *)
(* (createStdioLoop's chain, handleMessage, handleBatch).                  *)
THEOREM NobodySkippedHolds == Spec => []NobodySkipped
<1>1. Init => NobodyInv
  <2>1. Init => DOMAIN kind = {} /\ DOMAIN reg = {}
    BY DEF Init
  <2> QED BY <2>1 DEF NobodyInv, NobodySkipped, FlagInv
<1>2. LoopInv /\ NobodyInv /\ [Next]_vars => NobodyInv'
  <2> SUFFICES ASSUME ChainPart, WirePart, SubsPart, RestType, NobodyInv, [Next]_vars
               PROVE  NobodyInv'
    BY Parts
  <2>1. ASSUME NEW i \in Ids, Cancel(i) PROVE NobodyInv'
    BY <2>1, NobodyCancels
  <2> QED BY <2>1, NobodySends, NobodyStarts, NobodySteps, NobodyOthers, Zenon DEF Next
<1>3. NobodyInv => NobodySkipped
  BY DEF NobodyInv
<1> QED BY <1>1, <1>2, <1>3, LoopInvHolds, PTL DEF Spec
=============================================================================
