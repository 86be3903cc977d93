-------------------------- MODULE McpClient_proofs --------------------------
(* Proofs about McpClient, for every cap, number of requests and messages, *)
(* and set of policies: answers are matched to the requests of the child   *)
(* that gave them, no request outlives its child, and the era is one that  *)
(* was observed.                                                           *)
EXTENDS McpClient, TLAPS, SequenceTheorems

USE ClientConfig

-----------------------------------------------------------------------------
(* Sequences, by what is in them.                                          *)
LEMMA RangeOfEmpty == Range(<<>>) = {}
  BY SMT DEF Range

LEMMA RangeOfOne == ASSUME NEW e PROVE Range(<<e>>) = {e}
  BY SMT DEF Range

LEMMA RangeOfAppend ==
  ASSUME NEW S, NEW s \in Seq(S), NEW e
  PROVE  Range(Append(s, e)) = Range(s) \cup {e}
<1> DEFINE t == Append(s, e)
<1>1. DOMAIN t = DOMAIN s \cup {Len(s) + 1} /\ t[Len(s) + 1] = e /\ \A i \in DOMAIN s : t[i] = s[i]
  BY SMT
<1> HIDE DEF t
<1> QED BY <1>1, Zenon DEF Range, t

LEMMA RangeOfConcat ==
  ASSUME NEW S, NEW s \in Seq(S), NEW t \in Seq(S)
  PROVE  Range(s \o t) \subseteq Range(s) \cup Range(t)
  BY SMT DEF Range

LEMMA RangeOfPrefix ==
  ASSUME NEW S, NEW s \in Seq(S), NEW n \in 0..Len(s)
  PROVE  Range(SubSeq(s, 1, n)) \subseteq Range(s) /\ SubSeq(s, 1, n) \in Seq(S)
  BY SMT DEF Range

LEMMA RangeOfSuffix ==
  ASSUME NEW S, NEW s \in Seq(S), NEW n \in 0..Len(s)
  PROVE  /\ SubSeq(s, n + 1, Len(s)) \in Seq(S) /\ Range(SubSeq(s, n + 1, Len(s))) \subseteq Range(s)
         /\ Len(SubSeq(s, n + 1, Len(s))) = Len(s) - n
         /\ \A i \in 1..(Len(s) - n) : SubSeq(s, n + 1, Len(s))[i] = s[i + n]
  BY SMT DEF Range

LEMMA SliceFacts ==
  ASSUME NEW S, NEW s \in Seq(S), NEW a \in Nat, NEW b \in Nat, a <= b, b <= Len(s)
  PROVE  /\ SubSeq(s, a + 1, b) \in Seq(S) /\ Range(SubSeq(s, a + 1, b)) \subseteq Range(s)
         /\ Len(SubSeq(s, a + 1, b)) = b - a
         /\ \A i \in 1..(b - a) : SubSeq(s, a + 1, b)[i] = s[i + a]
  BY SMT DEF Range

-----------------------------------------------------------------------------
(* The type invariant in four parts.                                       *)
ConnType ==
  /\ policy \in Policies
  /\ phase \in {"new", "probe", "init", "up", "failed"}
  /\ spawned \in 0..2 /\ child \in {NoKid, spawned}
WireType ==
  /\ alive \subseteq Kids /\ exits \subseteq Kids \ alive
  /\ pipe \in [Kids -> Seq(Chunk)] /\ heard \in [Kids -> SUBSET Ids]
  /\ sent \in [Kids -> 0..MaxSent] /\ wrote \in Seq(Ways) /\ got \in Seq(1..MaxSent)
ReadType == buf \in Seq(Chunk) /\ skip \in 0..(Cap + 1) /\ draining \in BOOLEAN
WaitType ==
  /\ nextId \in 1..(MaxIds + 1)
  /\ DOMAIN waiters \subseteq Ids /\ \A i \in DOMAIN waiters : waiters[i] \in Waiter
  /\ cont \in Outcomes \cup {"none"} /\ probed \in Outcomes \cup {"none"}
FlagType == {closed, connected, ever, told, modern, definitive, crossed} \subseteq BOOLEAN

LEMMA TypeParts == TypeOK <=> ConnType /\ WireType /\ ReadType /\ WaitType /\ FlagType
<1>1. Range(waiters) \subseteq Waiter <=> \A i \in DOMAIN waiters : waiters[i] \in Waiter
  BY DEF Range
<1> QED BY <1>1, Zenon DEF TypeOK, ConnType, WireType, ReadType, WaitType, FlagType

-----------------------------------------------------------------------------
(* What the operations share.                                              *)

(* A step that takes waiters away, or adds one with a new number, leaves   *)
(* every owned number owned.                                               *)
LEMMA OwnMono ==
  ASSUME WaitType, NEW i, NEW k, Owned(i, k), i \in Nat,
         nextId' \in Nat, nextId' >= nextId,
         \A j \in DOMAIN waiters' : (j \in DOMAIN waiters /\ waiters'[j] = waiters[j]) \/ j = nextId
  PROVE  Owned(i, k)'
  BY SMT DEF Owned, WaitType

LEMMA OwnKeeps ==
  ASSUME WaitType, WireType, ReadType, OwnShape,
         nextId' \in Nat, nextId' >= nextId,
         \A j \in DOMAIN waiters' : (j \in DOMAIN waiters /\ waiters'[j] = waiters[j]) \/ j = nextId
  PROVE  /\ \A k \in Kids : \A i \in heard[k] : Owned(i, k)'
         /\ \A k \in Kids : \A c \in Range(pipe[k]) : (Owned(c.msg.id, c.msg.from))'
         /\ \A c \in Range(buf) : (Owned(c.msg.id, c.msg.from))'
<1>1. \A i \in Ids : i \in Nat
  BY SMT, ClientConfig DEF Ids
<1>2. \A k \in Kids : Range(pipe[k]) \subseteq Chunk
  BY DEF WireType, Range
<1>3. Range(buf) \subseteq Chunk
  BY DEF ReadType, Range
<1>4. \A c \in Chunk : c.msg.id \in Nat
  BY SMT, ClientConfig DEF Chunk, Msg
<1>5. \A k \in Kids : heard[k] \subseteq Ids
  BY DEF WireType
<1> QED BY <1>1, <1>2, <1>3, <1>4, <1>5, OwnMono DEF OwnShape

(* Waiters settle, because of a message of child by or of none. *)
LEMMA SettleFacts ==
  ASSUME WaitType, FlagType, NEW ids, ids \subseteq DOMAIN waiters,
         NEW how \in Outcomes, NEW by \in {NoKid} \cup Kids, Settle(ids, how, by)
  PROVE  /\ DOMAIN waiters' = DOMAIN waiters \ ids
         /\ \A i \in DOMAIN waiters' : waiters'[i] = waiters[i]
         /\ cont' = IF \E i \in ids : waiters[i].method # "ask" THEN how ELSE cont
         /\ probed' = IF \E i \in ids : waiters[i].method = "discover" THEN how ELSE probed
         /\ (\A i \in ids : by \in {NoKid, waiters[i].to}) => crossed' = crossed
         /\ crossed' \in BOOLEAN
<1>1. crossed \in BOOLEAN
  BY Zenon DEF FlagType
<1>2. crossed' = (crossed \/ \E i \in ids : by \notin {NoKid, waiters[i].to})
  BY Zenon DEF Settle
<1>3. crossed' \in BOOLEAN /\ ((\A i \in ids : by \in {NoKid, waiters[i].to}) => crossed' = crossed)
  BY <1>1, <1>2, Zenon
<1>4. DOMAIN waiters' = DOMAIN waiters \ ids /\ \A i \in DOMAIN waiters' : waiters'[i] = waiters[i]
  BY DEF Settle
<1>5. /\ cont' = IF \E i \in ids : waiters[i].method # "ask" THEN how ELSE cont
  BY DEF Settle, WaitType
<1>6. probed' = IF \E i \in ids : waiters[i].method = "discover" THEN how ELSE probed
  BY DEF Settle
<1> QED BY <1>3, <1>4, <1>5, <1>6

(* A request is sent, under a number of its own. *)
LEMMA RequestFacts ==
  ASSUME WaitType, WireType, OwnShape, NEW k \in Kids, NEW method \in {"discover", "initialize", "ask"},
         Requests(k, method)
  PROVE  /\ nextId \in Ids /\ nextId \notin DOMAIN waiters /\ nextId' = nextId + 1
         /\ nextId' \in 1..(MaxIds + 1)
         /\ DOMAIN waiters' = DOMAIN waiters \cup {nextId}
         /\ waiters'[nextId] = [method |-> method, to |-> k]
         /\ \A i \in DOMAIN waiters : waiters'[i] = waiters[i]
         /\ \A i \in DOMAIN waiters' : waiters'[i] \in Waiter /\ i < nextId'
         /\ heard' \in [Kids -> SUBSET Ids]
         /\ heard'[k] \subseteq heard[k] \cup {nextId}
         /\ \A l \in Kids \ {k} : heard'[l] = heard[l]
<1>1. /\ nextId \in Ids /\ nextId \notin DOMAIN waiters /\ nextId' = nextId + 1
      /\ nextId' \in 1..(MaxIds + 1)
  BY SMT DEF Requests, WaitType, OwnShape, Ids
<1>2. /\ DOMAIN waiters' = DOMAIN waiters \cup {nextId}
      /\ waiters'[nextId] = [method |-> method, to |-> k]
      /\ \A i \in DOMAIN waiters : waiters'[i] = waiters[i]
  BY <1>1, Zenon DEF Requests
<1>3. \A i \in DOMAIN waiters' : waiters'[i] \in Waiter
  <2>1. [method |-> method, to |-> k] \in Waiter
    BY SMT DEF Waiter
  <2> QED BY <1>2, <2>1, Zenon DEF WaitType
<1>4. \A i \in DOMAIN waiters' : i < nextId'
  BY <1>1, <1>2, SMT DEF OwnShape, WaitType, Ids
<1>5. /\ heard' \in [Kids -> SUBSET Ids]
      /\ heard'[k] \subseteq heard[k] \cup {nextId}
      /\ \A l \in Kids \ {k} : heard'[l] = heard[l]
  BY <1>1, SMT DEF Requests, WireType
<1> QED BY <1>1, <1>2, <1>3, <1>4, <1>5

(* The conjuncts of the inductive invariant that its operations share.     *)
ConnShape == HandshakeShape /\ ChildShape /\ EraShape /\ ReplyIsOwn /\ GoneIsSettled /\ EraIsObserved

LEMMA InvParts ==
  ClientInv <=> /\ ConnType /\ WireType /\ ReadType /\ WaitType /\ FlagType
                /\ ConnShape /\ OwnShape /\ Bounded
  BY TypeParts DEF ClientInv, ConnShape

LEMMA InvNext ==
  ASSUME ConnType', WireType', ReadType', WaitType', FlagType',
         HandshakeShape', ChildShape', EraShape', ReplyIsOwn', GoneIsSettled', EraIsObserved',
         OwnShape', Bounded'
  PROVE  ClientInv'
<1>1. Range(waiters') \subseteq Waiter
  BY DEF Range, WaitType
<1>2. TypeOK'
  BY <1>1, Zenon DEF TypeOK, ConnType, WireType, ReadType, WaitType, FlagType
<1> QED BY <1>2 DEF ClientInv

LEMMA InitInv == Init => ClientInv
<1> SUFFICES ASSUME Init PROVE ClientInv
  OBVIOUS
<1> USE DEF Init
<1>1. ConnType
  BY DEF ConnType, NoKid
<1>2. WireType
  BY SMT DEF WireType, Kids, Ids
<1>3. ReadType /\ Bounded
  <2>1. buf \in Seq(Chunk) /\ skip \in 0..(Cap + 1) /\ Len(buf) <= Cap
    BY SMT, ClientConfig
  <2>2. draining = FALSE
    OBVIOUS
  <2> QED BY <2>1, <2>2, Zenon DEF ReadType, Bounded
<1>4. WaitType
  BY SMT, ClientConfig DEF WaitType, Outcomes, NoKid
<1>5. FlagType
  BY Zenon DEF FlagType
<1>6. OwnShape
  BY SMT DEF OwnShape, Range
<1>7. HandshakeShape /\ ChildShape /\ EraShape
  BY SMT DEF HandshakeShape, ChildShape, EraShape
<1>8. ReplyIsOwn /\ GoneIsSettled /\ EraIsObserved
  BY SMT DEF ReplyIsOwn, GoneIsSettled, EraIsObserved
<1> QED BY <1>1, <1>2, <1>3, <1>4, <1>5, <1>6, <1>7, <1>8, InvParts DEF ConnShape

LEMMA ConnectInv ==
  ASSUME ClientInv, NEW memo \in BOOLEAN, Connect(memo)
  PROVE  ClientInv'
<1> USE DEF Connect, readVars
<1>0. /\ ConnType /\ WireType /\ ReadType /\ WaitType /\ FlagType /\ ConnShape /\ OwnShape
      /\ Bounded
      /\ phase = "new" /\ ~closed /\ DOMAIN waiters = {} /\ cont = "none" /\ spawned = 0
      /\ alive = {} /\ exits = {} /\ ~ever /\ ~told /\ probed = "none" /\ ~modern /\ ~definitive
  BY InvParts, SMT DEF ConnShape, HandshakeShape, ChildShape, EraShape, ConnType, Kids
<1> DEFINE method == IF SkipProbe(memo) THEN "initialize" ELSE "discover"
<1>1. CASE Spawns(1) /\ phase' = (IF SkipProbe(memo) THEN "init" ELSE "probe") /\ Requests(1, method)
  <2>1. /\ nextId \in Ids /\ nextId \notin DOMAIN waiters /\ nextId' = nextId + 1
        /\ nextId' \in 1..(MaxIds + 1)
        /\ DOMAIN waiters' = {nextId}
        /\ waiters'[nextId] = [method |-> method, to |-> 1]
        /\ \A i \in DOMAIN waiters' : waiters'[i] \in Waiter /\ i < nextId'
        /\ heard' \in [Kids -> SUBSET Ids]
        /\ heard'[1] \subseteq heard[1] \cup {nextId}
        /\ \A l \in Kids \ {1} : heard'[l] = heard[l]
    BY <1>0, <1>1, RequestFacts DEF Kids
  <2>2. child' = 1 /\ spawned' = 1 /\ alive' = {1}
    BY <1>0, <1>1 DEF Spawns
  <2>3. ConnType' /\ WireType' /\ ReadType' /\ WaitType' /\ FlagType'
    <3>1. ConnType' /\ ReadType'
      BY <1>0, <1>1, <2>2, SMT DEF ConnType, ReadType
    <3>2. WireType'
      BY <1>0, <2>1, <2>2, SMT DEF WireType, Kids
    <3>3. WaitType'
      BY <1>0, <2>1, Zenon DEF WaitType
    <3>4. FlagType'
      BY <1>0, Zenon DEF FlagType
    <3> QED BY <3>1, <3>2, <3>3, <3>4
  <2>4. OwnShape'
    <3>1. /\ \A k \in Kids : \A i \in heard[k] : Owned(i, k)'
          /\ \A k \in Kids : \A c \in Range(pipe[k]) : (Owned(c.msg.id, c.msg.from))'
          /\ \A c \in Range(buf) : (Owned(c.msg.id, c.msg.from))'
      <4>1. nextId' \in Nat /\ nextId' >= nextId
        BY <1>0, <2>1, SMT DEF WaitType
      <4> QED BY <1>0, <2>1, <4>1, OwnKeeps
    <3>2. \A i \in {nextId} : Owned(i, 1)'
      BY <2>1 DEF Owned
    <3> QED BY <1>0, <2>1, <3>1, <3>2 DEF OwnShape
  <2>5. HandshakeShape'
    BY <1>0, <1>1, <2>1, <2>2 DEF HandshakeShape
  <2>6. ChildShape' /\ EraShape'
    BY <1>0, <1>1, <2>2, SMT DEF ChildShape, EraShape, SkipProbe
  <2>7. ReplyIsOwn' /\ GoneIsSettled' /\ EraIsObserved'
    BY <1>0, <1>1, <2>1, <2>2 DEF ReplyIsOwn, GoneIsSettled, EraIsObserved, ConnShape, NoKid
  <2>8. Bounded'
    BY <1>0, Zenon DEF Bounded
  <2> QED BY <2>3, <2>4, <2>5, <2>6, <2>7, <2>8, InvNext
<1>2. CASE phase' = "failed" /\ UNCHANGED <<child, spawned, alive, nextId, waiters, heard>>
  <2>1. ConnType' /\ WireType' /\ ReadType' /\ WaitType' /\ FlagType' /\ OwnShape'
    BY <1>0, <1>2, Zenon DEF ConnType, WireType, ReadType, WaitType, FlagType, OwnShape, Owned
  <2>2. HandshakeShape' /\ ChildShape' /\ EraShape'
    <3>1. child = NoKid
      BY <1>0, SMT DEF ConnType, NoKid
    <3> QED BY <1>0, <1>2, <3>1 DEF HandshakeShape, ChildShape, EraShape
  <2>3. ReplyIsOwn' /\ GoneIsSettled' /\ EraIsObserved'
    BY <1>0, <1>2 DEF ReplyIsOwn, GoneIsSettled, EraIsObserved, ConnShape
  <2>4. Bounded'
    BY <1>0, Zenon DEF Bounded
  <2> QED BY <2>1, <2>2, <2>3, <2>4, InvNext
<1> QED BY <1>1, <1>2

-----------------------------------------------------------------------------
(* The code that awaits a handshake request, and the requests it sends.    *)

(* A request goes out while the pipes and the buffer stay as they are. *)
LEMMA RequestOwn ==
  ASSUME WaitType, WireType, ReadType, OwnShape, NEW k \in Kids,
         NEW method \in {"discover", "initialize", "ask"},
         Requests(k, method), pipe' = pipe, buf' = buf
  PROVE  OwnShape'
<1>1. /\ nextId \in Ids /\ nextId' = nextId + 1
      /\ DOMAIN waiters' = DOMAIN waiters \cup {nextId}
      /\ waiters'[nextId] = [method |-> method, to |-> k]
      /\ \A i \in DOMAIN waiters : waiters'[i] = waiters[i]
      /\ \A i \in DOMAIN waiters' : i < nextId'
      /\ heard' \in [Kids -> SUBSET Ids]
      /\ heard'[k] \subseteq heard[k] \cup {nextId}
      /\ \A l \in Kids \ {k} : heard'[l] = heard[l]
  BY RequestFacts
<1>2. nextId' \in Nat /\ nextId' >= nextId /\ nextId < nextId'
  BY <1>1, SMT DEF WaitType, Ids
<1>3. /\ \A l \in Kids : \A i \in heard[l] : Owned(i, l)'
      /\ \A l \in Kids : \A c \in Range(pipe[l]) : (Owned(c.msg.id, c.msg.from))'
      /\ \A c \in Range(buf) : (Owned(c.msg.id, c.msg.from))'
  BY <1>1, <1>2, OwnKeeps
<1>4. \A i \in {nextId} : Owned(i, k)'
  BY <1>1, <1>2 DEF Owned
<1> QED BY <1>1, <1>3, <1>4 DEF OwnShape

(* What a handshake outcome that is still to be taken says of the rest. *)
LEMMA ContFacts ==
  ASSUME ClientInv, cont # "none"
  PROVE  /\ ConnType /\ WireType /\ ReadType /\ WaitType /\ FlagType /\ OwnShape /\ Bounded
         /\ phase \in {"probe", "init"} /\ (\A i \in DOMAIN waiters : Asks(i))
         /\ \A i \in DOMAIN waiters : ~closed /\ waiters[i].to = child
         /\ ~ever /\ ~told /\ ~modern
         /\ cont \in {"good", "bad", "timeout"} => ~closed /\ child # NoKid
         /\ alive \cup exits \subseteq 1..spawned
         /\ ~closed => alive \cup exits \subseteq {child}
         /\ connected => child # NoKid /\ ~closed
         /\ ReplyIsOwn /\ EraIsObserved
         /\ phase = "probe" => spawned = 1 /\ probed = cont /\ policy # "pin" /\ ~definitive
         /\ phase = "init" => policy # "modernOnly"
<1>1. /\ ConnType /\ WireType /\ ReadType /\ WaitType /\ FlagType /\ ConnShape /\ OwnShape
      /\ Bounded
  BY InvParts
<1>2. phase \in {"probe", "init"}
  BY <1>1, SMT DEF ConnShape, HandshakeShape, ConnType
<1>3. /\ \A i \in DOMAIN waiters : Asks(i)
      /\ \A i \in DOMAIN waiters : ~closed /\ waiters[i].to = child
      /\ ~ever /\ ~told /\ ~modern
      /\ cont \in {"good", "bad", "timeout"} => ~closed /\ child # NoKid
      /\ alive \cup exits \subseteq 1..spawned
      /\ ~closed => alive \cup exits \subseteq {child}
      /\ connected => child # NoKid /\ ~closed
      /\ ReplyIsOwn /\ EraIsObserved
  BY <1>1, <1>2, SMT DEF ConnShape, HandshakeShape, ChildShape, EraShape, GoneIsSettled
<1>4. /\ phase = "probe" => spawned = 1 /\ probed = cont /\ policy # "pin" /\ ~definitive
      /\ phase = "init" => policy # "modernOnly"
  BY <1>1, <1>2 DEF ConnShape, ChildShape, EraShape
<1> QED BY <1>1, <1>2, <1>3, <1>4

(* A child is killed; its exit event is to come. *)
LEMMA KillsFacts ==
  ASSUME WireType, NEW k \in {NoKid} \cup Kids, Kills(k)
  PROVE  /\ alive' \subseteq alive /\ exits' \subseteq exits \cup alive
         /\ alive' \cup exits' = alive \cup exits
         /\ alive' \subseteq Kids /\ exits' \subseteq Kids \ alive'
         /\ wrote' \in Seq(Ways) /\ got' \in Seq(1..MaxSent)
<1>1. alive' = alive \ {k} /\ exits' = exits \cup ({k} \cap alive)
  BY DEF Kills
<1>2. alive \subseteq Kids /\ exits \subseteq Kids \ alive
  BY DEF WireType
<1>3. wrote' \in Seq(Ways) /\ got' \in Seq(1..MaxSent)
  <2>1. wrote' \in {<<>>, wrote} /\ got' \in {<<>>, got}
    BY DEF Kills
  <2>2. wrote \in Seq(Ways) /\ got \in Seq(1..MaxSent)
    BY DEF WireType
  <2>3. <<>> \in Seq(1..MaxSent) /\ <<>> \in Seq(Ways)
    BY SMT
  <2> QED BY <2>1, <2>2, <2>3, Zenon
<1> QED BY <1>1, <1>2, <1>3, Zenon

(* The numbers stay owned when nothing is added to what is under way. *)
LEMMA OwnStays ==
  ASSUME WaitType, WireType, ReadType, OwnShape,
         nextId' = nextId, DOMAIN waiters' \subseteq DOMAIN waiters,
         \A i \in DOMAIN waiters' : waiters'[i] = waiters[i],
         \A k \in Kids : heard'[k] \subseteq heard[k] /\ Range(pipe'[k]) \subseteq Range(pipe[k]),
         \A c \in Range(buf') : \/ \E e \in Range(buf) : e.msg = c.msg
                                \/ \E k \in Kids : \E e \in Range(pipe[k]) : e.msg = c.msg
  PROVE  OwnShape'
<1>1. nextId' \in Nat /\ nextId' >= nextId
  BY SMT DEF WaitType
<1>2. /\ \A l \in Kids : \A i \in heard[l] : Owned(i, l)'
      /\ \A l \in Kids : \A c \in Range(pipe[l]) : (Owned(c.msg.id, c.msg.from))'
      /\ \A c \in Range(buf) : (Owned(c.msg.id, c.msg.from))'
  BY <1>1, OwnKeeps
<1>3. \A i \in DOMAIN waiters' : i < nextId'
  BY DEF OwnShape
<1>4. \A c \in Range(buf') : (\A m \in {c.msg} : Owned(m.id, m.from)')
  BY <1>2 
<1> QED BY <1>2, <1>3, <1>4 DEF OwnShape

(* A client closes on behalf of awaiting code: nothing waits any more.     *)
LEMMA ClosesInv ==
  ASSUME ClientInv, cont # "none", Closes, spawned' = spawned, phase' = "failed", cont' = "none",
         definitive' \in BOOLEAN, definitive' => probed \in {"good", "bad"},
         UNCHANGED <<policy, ever, modern, heard, nextId, told, pipe, sent, buf, skip, draining,
                     crossed, probed>>
  PROVE  ClientInv'
<1>0. /\ ConnType /\ WireType /\ ReadType /\ WaitType /\ FlagType /\ OwnShape /\ Bounded
      /\ ~ever /\ ~told /\ ~modern /\ alive \cup exits \subseteq 1..spawned
      /\ phase \in {"probe", "init"} /\ ReplyIsOwn /\ EraIsObserved
  BY ContFacts
<1>1. /\ closed' = TRUE /\ connected' = FALSE /\ waiters' = <<>> /\ Kills(child) /\ child' = NoKid
  BY DEF Closes
<1>2. /\ alive' \cup exits' = alive \cup exits
      /\ alive' \subseteq Kids /\ exits' \subseteq Kids \ alive'
      /\ wrote' \in Seq(Ways) /\ got' \in Seq(1..MaxSent)
  <2>1. child \in {NoKid} \cup Kids
    <3>1. child \in {NoKid, spawned} /\ spawned \in 0..2
      BY <1>0 DEF ConnType
    <3> QED BY <3>1, SMT DEF NoKid, Kids
  <2> QED BY <1>0, <1>1, <2>1, KillsFacts
<1>3. DOMAIN waiters' = {}
  BY <1>1, SMT
<1>4. ConnType' /\ ReadType' /\ Bounded'
  BY <1>0, <1>1 DEF ConnType, ReadType, Bounded
<1>5. WireType'
  BY <1>0, <1>2, Zenon DEF WireType
<1>6. WaitType'
  <2>1. \A i \in DOMAIN waiters' : waiters'[i] \in Waiter
    BY <1>3
  <2> QED BY <1>0, <1>3, <2>1, Zenon DEF WaitType
<1>7. FlagType'
  BY <1>0, <1>1, Zenon DEF FlagType
<1>8. OwnShape'
  BY <1>0, <1>3, OwnStays
<1>9. HandshakeShape' /\ ChildShape' /\ EraShape'
  BY <1>0, <1>1, <1>2, <1>3 DEF HandshakeShape, ChildShape, EraShape
<1>10. ReplyIsOwn' /\ GoneIsSettled' /\ EraIsObserved'
  BY <1>0, <1>1, <1>3 DEF ReplyIsOwn, GoneIsSettled, EraIsObserved
<1> QED BY <1>4, <1>5, <1>6, <1>7, <1>8, <1>9, <1>10, InvNext

LEMMA ProbeDoneInv ==
  ASSUME ClientInv, ProbeDone
  PROVE  ClientInv'
<1> USE DEF readVars
<1>0. /\ ConnType /\ WireType /\ ReadType /\ WaitType /\ FlagType /\ OwnShape /\ Bounded
      /\ phase = "probe" /\ cont # "none" /\ cont' = "none"
      /\ \A i \in DOMAIN waiters : Asks(i)
      /\ \A i \in DOMAIN waiters : ~closed /\ waiters[i].to = child
      /\ ~ever /\ ~told /\ ~modern
      /\ cont \in {"good", "bad", "timeout"} => ~closed /\ child # NoKid
      /\ alive \cup exits \subseteq 1..spawned
      /\ ~closed => alive \cup exits \subseteq {child}
      /\ connected => child # NoKid /\ ~closed
      /\ ReplyIsOwn /\ EraIsObserved /\ spawned = 1 /\ probed = cont /\ policy # "pin" /\ ~definitive
  BY ContFacts DEF ProbeDone
<1>1. UNCHANGED <<policy, told, pipe, sent, buf, skip, draining, crossed, probed>>
  BY DEF ProbeDone
<1>2. ReplyIsOwn'
  BY <1>0, <1>1 DEF ReplyIsOwn
<1>a. definitive' = Observed(cont) /\ definitive' \in BOOLEAN /\ (definitive' => probed' \in {"good", "bad"})
  <2>1. definitive' = Observed(cont)
    BY DEF ProbeDone
  <2>2. Observed(cont) = (cont \in {"good", "bad"})
    BY DEF Observed
  <2>3. probed' = cont
    BY <1>0, <1>1
  <2>4. CASE cont \in {"good", "bad"}
    <3>1. definitive' = TRUE
      BY <2>1, <2>2, <2>4
    <3> QED BY <2>1, <2>3, <2>4, <3>1
  <2>5. CASE cont \notin {"good", "bad"}
    <3>1. (cont \in {"good", "bad"}) = FALSE
      BY <2>5
    <3>2. definitive' = FALSE
      BY <2>1, <2>2, <3>1
    <3> QED BY <2>1, <3>2
  <2> QED BY <2>4, <2>5
<1>3. CASE ProbeModern
  <2> USE DEF ProbeModern
  <2>1. ConnType' /\ ReadType' /\ Bounded'
    BY <1>0, <1>1, <1>3 DEF ConnType, ReadType, Bounded
  <2>2. WireType' /\ WaitType'
    BY <1>0, <1>1, <1>3, Zenon DEF WireType, WaitType
  <2>3. FlagType'
    BY <1>0, <1>1, <1>a, <1>3, Zenon DEF FlagType
  <2>4. OwnShape'
    BY <1>0, <1>1, <1>3, Zenon DEF OwnShape, Owned
  <2>5. HandshakeShape' /\ ChildShape' /\ EraShape'
    BY <1>0, <1>1, <1>3 DEF HandshakeShape, ChildShape, EraShape, Asks
  <2>6. GoneIsSettled' /\ EraIsObserved'
    BY <1>0, <1>1, <1>a, <1>3 DEF GoneIsSettled, EraIsObserved
  <2> QED BY <1>2, <2>1, <2>2, <2>3, <2>4, <2>5, <2>6, InvNext
<1>4. CASE ProbeAborted
  <2>0. /\ cont = "gone" /\ phase' = "failed" /\ (closed \/ child = NoKid)
        /\ UNCHANGED <<child, spawned, closed, connected, ever, modern, alive, exits, wrote, got,
                       heard, nextId, waiters>>
    BY <1>0, <1>4, SMT DEF ProbeAborted, WaitType, Outcomes
  <2>1. DOMAIN waiters = {}
    <3>1. ASSUME NEW i \in DOMAIN waiters PROVE FALSE
      <4>1. child = NoKid /\ waiters[i] \in Waiter /\ waiters[i].to = child
        BY <1>0, <2>0 DEF WaitType
      <4> QED BY <4>1, SMT DEF Waiter, Kids, NoKid
    <3> QED BY <3>1
  <2>2. ConnType' /\ ReadType' /\ Bounded'
    BY <1>0, <1>1, <2>0 DEF ConnType, ReadType, Bounded
  <2>3. WireType' /\ WaitType'
    BY <1>0, <1>1, <2>0, Zenon DEF WireType, WaitType
  <2>4. FlagType'
    BY <1>0, <1>1, <1>a, <2>0, Zenon DEF FlagType
  <2>5. OwnShape'
    BY <1>0, <1>1, <2>0, Zenon DEF OwnShape, Owned
  <2>6. HandshakeShape' /\ ChildShape' /\ EraShape'
    BY <1>0, <1>1, <2>0, <2>1 DEF HandshakeShape, ChildShape, EraShape
  <2>7. GoneIsSettled' /\ EraIsObserved'
    BY <1>0, <1>1, <1>a, <2>0, <2>1 DEF GoneIsSettled, EraIsObserved
  <2> QED BY <1>2, <2>2, <2>3, <2>4, <2>5, <2>6, <2>7, InvNext
<1>5. CASE ProbeRefused /\ child # NoKid
  <2>1. phase' = "failed" /\ Closes /\ UNCHANGED <<spawned, ever, modern, heard, nextId>>
    BY <1>5 DEF ProbeRefused
  <2>2. definitive' => probed \in {"good", "bad"}
    BY <1>1, <1>a
  <2> QED BY <1>0, <1>1, <1>a, <2>1, <2>2, ClosesInv
<1>6. CASE ProbeRefused /\ child = NoKid
  <2>1. /\ phase' = "failed" /\ spawned' = 2 /\ exits' = exits \cup {2} /\ closed' = TRUE
        /\ connected' = FALSE /\ waiters' = <<>>
        /\ UNCHANGED <<child, alive, wrote, got, ever, modern, heard, nextId>> /\ ~closed
    BY <1>6 DEF ProbeRefused
  <2>2. alive = {} /\ exits = {} /\ DOMAIN waiters' = {}
    BY <1>0, <1>6, <2>1, SMT DEF NoKid
  <2>3. ConnType' /\ ReadType' /\ Bounded'
    BY <1>0, <1>1, <1>6, <2>1, SMT DEF ConnType, ReadType, Bounded, NoKid
  <2>4. WireType'
    <3>1. alive' \subseteq Kids /\ exits' \subseteq Kids \ alive'
      BY <2>1, <2>2, SMT DEF Kids
    <3> QED BY <1>0, <1>1, <2>1, <3>1, Zenon DEF WireType
  <2>5. WaitType'
    BY <1>0, <1>1, <2>1, <2>2, Zenon DEF WaitType
  <2>6. FlagType'
    BY <1>0, <1>1, <1>a, <2>1, Zenon DEF FlagType
  <2>7. OwnShape'
    BY <1>0, <1>1, <2>1, <2>2, OwnStays
  <2>8. HandshakeShape' /\ EraShape'
    BY <1>0, <1>1, <2>1, <2>2 DEF HandshakeShape, EraShape
  <2>9. ChildShape'
    <3>1. alive' \cup exits' \subseteq 1..spawned'
      BY <2>1, <2>2, SMT
    <3> QED BY <1>0, <1>1, <2>1, <3>1 DEF ChildShape
  <2>10. GoneIsSettled' /\ EraIsObserved'
    BY <1>0, <1>1, <1>a, <2>1, <2>2 DEF GoneIsSettled, EraIsObserved
  <2> QED BY <1>2, <2>3, <2>4, <2>5, <2>6, <2>7, <2>8, <2>9, <2>10, InvNext
<1>7. CASE ProbeFallsBack
  <2> USE DEF ProbeFallsBack
  <2>1. /\ child' \in Kids /\ child' = spawned' /\ spawned' \in 1..2 /\ alive' \subseteq Kids
        /\ alive' \subseteq alive \cup {child'} /\ alive' \cup exits' \subseteq {child'}
        /\ exits' \subseteq Kids \ alive' /\ exits' = exits
        /\ child \in {NoKid, child'}
    <3>1. CASE child = NoKid
      <4>1. exits = {} /\ alive = {}
        BY <1>0, <1>7, <3>1, SMT DEF NoKid
      <4> QED BY <1>0, <1>7, <3>1, <4>1, SMT DEF Spawns, Kids
    <3>2. CASE child # NoKid
      <4>1. child \in Kids /\ child = spawned /\ spawned \in 1..2
        BY <1>0, <3>2, SMT DEF ConnType, Kids
      <4>2. child' = child /\ spawned' = spawned /\ alive' = alive /\ exits' = exits
        BY <1>7, <3>2
      <4>3. alive \subseteq Kids /\ exits \subseteq Kids \ alive
        BY <1>0 DEF WireType
      <4>4. ~closed
        BY <1>7
      <4> HIDE DEF ProbeFallsBack
      <4> QED BY <1>0, <4>1, <4>2, <4>3, <4>4, Zenon
    <3> QED BY <3>1, <3>2
  <2>2. Requests(child', "initialize")
    BY <1>7
  <2>3. /\ phase' = "init" /\ UNCHANGED <<connected, ever, closed, modern, exits, wrote, got>>
        /\ ~closed /\ policy # "modernOnly"
    BY <1>7
  <2> HIDE DEF ProbeFallsBack
  <2>4. /\ nextId \in Ids /\ nextId \notin DOMAIN waiters /\ nextId' = nextId + 1
        /\ nextId' \in 1..(MaxIds + 1)
        /\ DOMAIN waiters' = DOMAIN waiters \cup {nextId}
        /\ waiters'[nextId] = [method |-> "initialize", to |-> child']
        /\ \A i \in DOMAIN waiters : waiters'[i] = waiters[i]
        /\ \A i \in DOMAIN waiters' : waiters'[i] \in Waiter /\ i < nextId'
        /\ heard' \in [Kids -> SUBSET Ids]
    BY <1>0, <2>1, <2>2, RequestFacts
  <2>5. ConnType' /\ ReadType' /\ Bounded'
    BY <1>0, <1>1, <2>1, <2>3, SMT DEF ConnType, ReadType, Bounded
  <2>6. WireType' /\ WaitType'
    <3>1. DOMAIN waiters' \subseteq Ids
      BY <1>0, <2>4 DEF WaitType
    <3> QED BY <1>0, <1>1, <2>1, <2>3, <2>4, <3>1, Zenon DEF WireType, WaitType
  <2>7. FlagType'
    BY <1>0, <1>1, <1>a, <2>3, Zenon DEF FlagType
  <2>8. OwnShape'
    BY <1>0, <1>1, <2>1, <2>2, RequestOwn
  <2>9. HandshakeShape'
    BY <1>0, <2>3, <2>4 DEF HandshakeShape, Asks
  <2>10. ChildShape' /\ EraShape'
    BY <1>0, <1>1, <2>1, <2>3, SMT DEF ChildShape, EraShape, Kids
  <2>11. GoneIsSettled'
    <3>1. child' # NoKid
      BY <2>1, SMT DEF NoKid, Kids
    <3>2. \A i \in DOMAIN waiters : waiters[i].to = child'
      <4>1. \A i \in DOMAIN waiters : waiters[i].to \in Kids
        BY <1>0, SMT DEF WaitType, Waiter
      <4> QED BY <1>0, <2>1, <4>1, SMT DEF NoKid, Kids
    <3>3. \A i \in DOMAIN waiters' : waiters'[i].to = child'
      BY <2>4, <3>2
    <3> QED BY <1>0, <2>3, <3>1, <3>3 DEF GoneIsSettled
  <2>12. EraIsObserved'
    BY <1>0, <1>1, <1>a, <2>3 DEF EraIsObserved
  <2> QED BY <1>2, <2>5, <2>6, <2>7, <2>8, <2>9, <2>10, <2>11, <2>12, InvNext
<1> QED BY <1>3, <1>4, <1>5, <1>6, <1>7 DEF ProbeDone

LEMMA InitDoneInv ==
  ASSUME ClientInv, InitDone
  PROVE  ClientInv'
<1> USE DEF readVars
<1>0. /\ ConnType /\ WireType /\ ReadType /\ WaitType /\ FlagType /\ OwnShape /\ Bounded
      /\ phase = "init" /\ cont # "none" /\ cont' = "none"
      /\ \A i \in DOMAIN waiters : Asks(i)
      /\ \A i \in DOMAIN waiters : ~closed /\ waiters[i].to = child
      /\ ~ever /\ ~told /\ ~modern
      /\ cont \in {"good", "bad", "timeout"} => ~closed /\ child # NoKid
      /\ alive \cup exits \subseteq 1..spawned
      /\ ~closed => alive \cup exits \subseteq {child}
      /\ ReplyIsOwn /\ EraIsObserved /\ policy # "modernOnly"
  BY ContFacts DEF InitDone
<1>1. UNCHANGED <<policy, spawned, told, modern, definitive, pipe, heard, sent, buf, skip, draining,
                  nextId, crossed, probed>>
  BY DEF InitDone
<1>2. CASE cont = "good"
  <2>1. /\ phase' = "up" /\ connected' = TRUE /\ ever' = TRUE
        /\ UNCHANGED <<closed, child, alive, exits, wrote, got, waiters>>
    BY <1>2 DEF InitDone
  <2>2. ConnType' /\ ReadType' /\ Bounded'
    BY <1>0, <1>1, <2>1 DEF ConnType, ReadType, Bounded
  <2>3. WireType' /\ WaitType'
    BY <1>0, <1>1, <2>1, Zenon DEF WireType, WaitType
  <2>4. FlagType'
    BY <1>0, <1>1, <2>1, Zenon DEF FlagType
  <2>5. OwnShape'
    BY <1>0, <1>1, <2>1, Zenon DEF OwnShape, Owned
  <2>6. HandshakeShape' /\ ChildShape' /\ EraShape'
    BY <1>0, <1>1, <2>1 DEF HandshakeShape, ChildShape, EraShape, Asks
  <2>7. ReplyIsOwn' /\ GoneIsSettled' /\ EraIsObserved'
    BY <1>0, <1>1, <1>2, <2>1 DEF ReplyIsOwn, GoneIsSettled, EraIsObserved
  <2> QED BY <2>2, <2>3, <2>4, <2>5, <2>6, <2>7, InvNext
<1>3. CASE cont # "good"
  <2>1. phase' = "failed" /\ Closes /\ UNCHANGED ever
    BY <1>3 DEF InitDone
  <2>2. definitive' \in BOOLEAN /\ (definitive' => probed \in {"good", "bad"})
    <3>1. definitive \in BOOLEAN /\ (definitive => probed \in {"good", "bad"})
      BY <1>0, Zenon DEF FlagType, EraIsObserved
    <3> QED BY <1>1, <3>1
  <2> QED BY <1>0, <1>1, <2>1, <2>2, ClosesInv
<1> QED BY <1>2, <1>3

LEMMA AskInv ==
  ASSUME ClientInv, Ask
  PROVE  ClientInv'
<1> USE DEF readVars, connVars
<1>0. /\ ConnType /\ WireType /\ ReadType /\ WaitType /\ FlagType /\ ConnShape /\ OwnShape
      /\ Bounded /\ cont = "none" /\ ~closed /\ child # NoKid
      /\ UNCHANGED <<policy, phase, child, spawned, closed, connected, ever, told, modern,
                     definitive, alive, exits, wrote, got, pipe, sent, buf, skip, draining, cont,
                     crossed, probed>>
      /\ Requests(child, "ask")
  BY InvParts DEF Ask, Event
<1>1. child \in Kids
  BY <1>0, SMT DEF ConnType, Kids, NoKid
<1>2. /\ nextId \in Ids /\ nextId \notin DOMAIN waiters /\ nextId' = nextId + 1
      /\ nextId' \in 1..(MaxIds + 1)
      /\ DOMAIN waiters' = DOMAIN waiters \cup {nextId}
      /\ waiters'[nextId] = [method |-> "ask", to |-> child]
      /\ \A i \in DOMAIN waiters : waiters'[i] = waiters[i]
      /\ \A i \in DOMAIN waiters' : waiters'[i] \in Waiter
      /\ heard' \in [Kids -> SUBSET Ids]
  BY <1>0, <1>1, RequestFacts
<1>3. ConnType' /\ ReadType' /\ Bounded'
  BY <1>0 DEF ConnType, ReadType, Bounded
<1>4. WireType'
  BY <1>0, <1>2, Zenon DEF WireType
<1>5. WaitType'
  <2>1. DOMAIN waiters' \subseteq Ids
    BY <1>0, <1>2 DEF WaitType
  <2> QED BY <1>0, <1>2, <2>1, Zenon DEF WaitType
<1>6. FlagType'
  BY <1>0, Zenon DEF FlagType
<1>7. OwnShape'
  BY <1>0, <1>1, RequestOwn
<1>8. HandshakeShape'
  <2>1. phase \notin {"new", "failed"}
    <3>1. phase = "new" => child = NoKid
      BY <1>0 DEF ConnShape, ChildShape, ConnType, NoKid
    <3> QED BY <1>0, <3>1 DEF ConnShape, ChildShape
  <2> QED BY <1>0, <1>2, <2>1 DEF HandshakeShape, ConnShape, Asks
<1>9. ChildShape' /\ EraShape' /\ ReplyIsOwn' /\ EraIsObserved'
  BY <1>0, Zenon DEF ChildShape, EraShape, ReplyIsOwn, EraIsObserved, ConnShape
<1>10. GoneIsSettled'
  BY <1>0, <1>2 DEF GoneIsSettled, ConnShape
<1> QED BY <1>3, <1>4, <1>5, <1>6, <1>7, <1>8, <1>9, <1>10, InvNext

-----------------------------------------------------------------------------
(* The steps that settle waiters.                                          *)

(* Between steps of awaiting code: what the invariant says. *)
LEMMA EventFacts ==
  ASSUME ClientInv, Event
  PROVE  /\ ConnType /\ WireType /\ ReadType /\ WaitType /\ FlagType /\ OwnShape /\ Bounded
         /\ HandshakeShape /\ ChildShape /\ EraShape /\ ReplyIsOwn /\ GoneIsSettled /\ EraIsObserved
         /\ cont = "none"
  BY InvParts DEF ConnShape, Event

(* Whatever settles the handshake request, for whatever reason, leaves     *)
(* awaiting code to resume with that outcome; the era is what it was.      *)
LEMMA SettleShapes ==
  ASSUME ConnType, WaitType, FlagType, HandshakeShape, EraShape, EraIsObserved,
         NEW ids, ids \subseteq DOMAIN waiters,
         NEW how \in Outcomes, NEW by \in {NoKid} \cup Kids, Settle(ids, how, by),
         UNCHANGED <<policy, phase, nextId, modern, definitive>>,
         how = "gone" \/ ids = {} \/ (~closed' /\ child' # NoKid),
         cont = "none" \/ UNCHANGED <<closed, child>>
  PROVE  HandshakeShape' /\ EraShape' /\ WaitType' /\ EraIsObserved'
<1>0. /\ DOMAIN waiters' = DOMAIN waiters \ ids
      /\ \A i \in DOMAIN waiters' : waiters'[i] = waiters[i]
      /\ cont' = IF \E i \in ids : waiters[i].method # "ask" THEN how ELSE cont
      /\ probed' = IF \E i \in ids : waiters[i].method = "discover" THEN how ELSE probed
  BY SettleFacts
<1>1. how \in Outcomes /\ how # "none"
  BY DEF Outcomes
<1>2. WaitType'
  BY <1>0, Zenon DEF WaitType
<1>3. CASE \A i \in ids : Asks(i)
  <2>1. cont' = cont /\ probed' = probed
    BY <1>0, <1>3 DEF Asks
  <2>2. \A i \in DOMAIN waiters' : (Asks(i))' <=> Asks(i)
    BY <1>0 DEF Asks
  <2>3. phase \in {"probe", "init"} /\ cont' = "none" =>
          \E i \in DOMAIN waiters' :
            /\ waiters'[i].method = IF phase = "probe" THEN "discover" ELSE "initialize"
            /\ \A j \in DOMAIN waiters' \ {i} : (Asks(j))'
    <3> HAVE phase \in {"probe", "init"} /\ cont' = "none"
    <3>1. PICK i \in DOMAIN waiters :
            /\ waiters[i].method = IF phase = "probe" THEN "discover" ELSE "initialize"
            /\ \A j \in DOMAIN waiters \ {i} : Asks(j)
      BY <2>1 DEF HandshakeShape
    <3>2. i \in DOMAIN waiters'
      BY <1>0, <1>3, <3>1 DEF Asks
    <3> QED BY <1>0, <2>2, <3>1, <3>2
  <2>4. HandshakeShape'
    <3>1. phase \in {"new", "failed"} => DOMAIN waiters' = {}
      BY <1>0 DEF HandshakeShape
    <3>2. cont' \in {"good", "bad", "timeout"} => ~closed' /\ child' # NoKid
      BY <2>1 DEF HandshakeShape
    <3>3. phase = "up" \/ cont' # "none" => \A i \in DOMAIN waiters' : (Asks(i))'
      BY <1>0, <2>1, <2>2 DEF HandshakeShape
    <3> QED BY <2>1, <2>3, <3>1, <3>2, <3>3 DEF HandshakeShape
  <2>5. EraShape' /\ EraIsObserved'
    BY <2>1 DEF EraShape, EraIsObserved
  <2> QED BY <1>2, <2>4, <2>5
<1>4. CASE \E i \in ids : ~Asks(i)
  <2>1. PICK i \in ids : ~Asks(i)
    BY <1>4
  <2>2. phase \in {"probe", "init"} /\ cont = "none"
    BY <2>1 DEF HandshakeShape, ConnType
  <2>3. PICK h \in DOMAIN waiters :
          /\ waiters[h].method = IF phase = "probe" THEN "discover" ELSE "initialize"
          /\ \A j \in DOMAIN waiters \ {h} : Asks(j)
    BY <2>2 DEF HandshakeShape
  <2>4. i = h
    BY <2>1, <2>3
  <2>5. /\ cont' = how /\ \A j \in DOMAIN waiters' : (Asks(j))'
        /\ probed' = IF phase = "probe" THEN how ELSE probed
    <3>1. cont' = how
      BY <1>0, <2>1 DEF Asks
    <3>2. \A j \in DOMAIN waiters' : (Asks(j))'
      BY <1>0, <2>1, <2>3, <2>4 DEF Asks
    <3>3. probed' = IF phase = "probe" THEN how ELSE probed
      <4>1. phase = "probe" => waiters[h].method = "discover" /\ h \in ids
        BY <2>1, <2>3, <2>4
      <4>2. phase # "probe" => \A j \in ids : waiters[j].method # "discover"
        BY <2>2, <2>3 DEF Asks
      <4> QED BY <1>0, <4>1, <4>2
    <3> QED BY <3>1, <3>2, <3>3
  <2>6. HandshakeShape'
    BY <1>1, <2>1, <2>2, <2>5 DEF HandshakeShape
  <2>7. EraShape'
    BY <2>2, <2>5 DEF EraShape
  <2>8. EraIsObserved'
    BY <2>2, <2>5 DEF EraIsObserved, EraShape
  <2> QED BY <1>2, <2>6, <2>7, <2>8
<1> QED BY <1>3, <1>4

(* The window of a request, or its write to a dead child. *)
LEMMA WaiterInv ==
  ASSUME ClientInv, NEW i \in Ids, NEW how \in Outcomes, Event, i \in DOMAIN waiters,
         Settle({i}, how, NoKid), UNCHANGED <<policy, connVars, wireVars, readVars, nextId>>
  PROVE  ClientInv'
<1>0. /\ ConnType /\ WireType /\ ReadType /\ WaitType /\ FlagType /\ OwnShape /\ Bounded
      /\ HandshakeShape /\ ChildShape /\ EraShape /\ ReplyIsOwn /\ GoneIsSettled /\ EraIsObserved
      /\ cont = "none"
  BY EventFacts
<1>1. /\ DOMAIN waiters' = DOMAIN waiters \ {i}
      /\ \A j \in DOMAIN waiters' : waiters'[j] = waiters[j]
      /\ crossed' = crossed
  <2>1. \A j \in {i} : NoKid \in {NoKid, waiters[j].to}
    OBVIOUS
  <2>2. {i} \subseteq DOMAIN waiters /\ NoKid \in {NoKid} \cup Kids
    OBVIOUS
  <2> QED BY <1>0, <2>1, <2>2, SettleFacts
<1>2. UNCHANGED <<policy, phase, child, spawned, closed, connected, ever, told, modern, definitive,
                  alive, exits, wrote, got, pipe, heard, sent, buf, skip, draining, nextId>>
  BY DEF connVars, wireVars, readVars
<1>3. ~closed /\ child # NoKid
  <2>1. waiters[i] \in Waiter /\ ~closed /\ waiters[i].to = child
    BY <1>0 DEF WaitType, GoneIsSettled
  <2> QED BY <2>1, SMT DEF Waiter, Kids, NoKid
<1>4. HandshakeShape' /\ EraShape' /\ WaitType' /\ EraIsObserved'
  BY <1>0, <1>2, <1>3, SettleShapes
<1>5. ConnType' /\ WireType' /\ ReadType' /\ Bounded'
  BY <1>0, <1>2, Zenon DEF ConnType, WireType, ReadType, Bounded
<1>6. FlagType'
  BY <1>0, <1>1, <1>2, Zenon DEF FlagType
<1>7. OwnShape'
  BY <1>0, <1>1, <1>2, OwnStays
<1>8. ChildShape' /\ ReplyIsOwn' /\ GoneIsSettled'
  BY <1>0, <1>1, <1>2 DEF ChildShape, ReplyIsOwn, GoneIsSettled
<1> QED BY <1>4, <1>5, <1>6, <1>7, <1>8, InvNext

(* Everything that waits is rejected. *)
LEMMA AllSettled ==
  ASSUME WaitType, FlagType, ReplyIsOwn, Settle(DOMAIN waiters, "gone", NoKid)
  PROVE  DOMAIN waiters' = {} /\ crossed' = crossed
<1>1. \A j \in DOMAIN waiters : NoKid \in {NoKid, waiters[j].to}
  OBVIOUS
<1>2. "gone" \in Outcomes /\ NoKid \in {NoKid} \cup Kids
  BY DEF Outcomes
<1> QED BY <1>1, <1>2, SettleFacts

LEMMA CloseInv ==
  ASSUME ClientInv, Close
  PROVE  ClientInv'
<1>0. /\ ConnType /\ WireType /\ ReadType /\ WaitType /\ FlagType /\ OwnShape /\ Bounded
      /\ HandshakeShape /\ ChildShape /\ EraShape /\ ReplyIsOwn /\ GoneIsSettled /\ EraIsObserved
      /\ cont = "none" /\ Event
  BY EventFacts DEF Close
<1>1. /\ closed' = TRUE /\ connected' = FALSE /\ child' = NoKid
      /\ Settle(DOMAIN waiters, "gone", NoKid) /\ Kills(child)
      /\ UNCHANGED <<policy, phase, spawned, ever, told, modern, definitive, pipe, heard,
                     sent, buf, skip, draining, nextId>>
  BY DEF Close, readVars
<1>2. DOMAIN waiters' = {} /\ crossed' = crossed
  BY <1>0, <1>1, AllSettled
<1>3. /\ alive' \cup exits' = alive \cup exits
      /\ alive' \subseteq Kids /\ exits' \subseteq Kids \ alive' /\ wrote' \in Seq(Ways) /\ got' \in Seq(1..MaxSent)
  <2>1. child \in {NoKid} \cup Kids
    <3>1. child \in {NoKid, spawned} /\ spawned \in 0..2
      BY <1>0 DEF ConnType
    <3> QED BY <3>1, SMT DEF NoKid, Kids
  <2> QED BY <1>0, <1>1, <2>1, KillsFacts
<1>4. HandshakeShape' /\ EraShape' /\ WaitType' /\ EraIsObserved'
  <2>1. "gone" \in Outcomes /\ NoKid \in {NoKid} \cup Kids
    BY DEF Outcomes
  <2> QED BY <1>0, <1>1, <2>1, SettleShapes
<1>5. ConnType' /\ ReadType' /\ Bounded'
  BY <1>0, <1>1, Zenon DEF ConnType, ReadType, Bounded
<1>6. WireType'
  BY <1>0, <1>1, <1>3, Zenon DEF WireType
<1>7. FlagType'
  BY <1>0, <1>1, <1>2, Zenon DEF FlagType
<1>8. OwnShape'
  BY <1>0, <1>1, <1>2, OwnStays
<1>9. ChildShape' /\ ReplyIsOwn' /\ GoneIsSettled'
  BY <1>0, <1>1, <1>2, <1>3 DEF ChildShape, ReplyIsOwn, GoneIsSettled
<1> QED BY <1>4, <1>5, <1>6, <1>7, <1>8, <1>9, InvNext

LEMMA OnExitInv ==
  ASSUME ClientInv, NEW k \in Kids, OnExit(k)
  PROVE  ClientInv'
<1>0. /\ ConnType /\ WireType /\ ReadType /\ WaitType /\ FlagType /\ OwnShape /\ Bounded
      /\ HandshakeShape /\ ChildShape /\ EraShape /\ ReplyIsOwn /\ GoneIsSettled /\ EraIsObserved
      /\ cont = "none" /\ Event
  BY EventFacts DEF OnExit
<1>1. /\ k \in exits /\ exits' = exits \ {k} /\ connected' = FALSE
      /\ child' = IF child = k THEN NoKid ELSE child
      /\ Settle(DOMAIN waiters, "gone", NoKid)
      /\ told' = (told \/ (ever /\ ~closed))
      /\ UNCHANGED <<policy, phase, spawned, closed, ever, modern, definitive, alive, wrote, got, pipe,
                     heard, sent, buf, skip, draining, nextId>>
  BY DEF OnExit, readVars
<1>2. DOMAIN waiters' = {} /\ crossed' = crossed
  BY <1>0, <1>1, AllSettled
<1>3. ~closed => child = k /\ child' = NoKid /\ alive' \cup exits' = {}
  <2>1. ~closed => alive \cup exits \subseteq {child}
    BY <1>0 DEF ChildShape
  <2>2. exits \subseteq Kids \ alive
    BY <1>0 DEF WireType
  <2> QED BY <1>1, <2>1, <2>2
<1>4. HandshakeShape' /\ EraShape' /\ WaitType' /\ EraIsObserved'
  <2>1. "gone" \in Outcomes /\ NoKid \in {NoKid} \cup Kids
    BY DEF Outcomes
  <2> QED BY <1>0, <1>1, <2>1, SettleShapes
<1>5. ConnType' /\ ReadType' /\ Bounded'
  BY <1>0, <1>1, Zenon DEF ConnType, ReadType, Bounded
<1>6. WireType'
  BY <1>0, <1>1, Zenon DEF WireType
<1>7. FlagType'
  <2>1. told' \in BOOLEAN
    BY <1>0, <1>1, SMT DEF FlagType
  <2> QED BY <1>0, <1>1, <1>2, <2>1, Zenon DEF FlagType
<1>8. OwnShape'
  BY <1>0, <1>1, <1>2, OwnStays
<1>9. ChildShape'
  <2>1. told' => ever'
    BY <1>0, <1>1, Zenon DEF ChildShape
  <2> QED BY <1>0, <1>1, <1>3, <2>1 DEF ChildShape
<1>10. ReplyIsOwn' /\ GoneIsSettled'
  <2>1. (ever /\ ~closed) => told'
    BY <1>1, Zenon
  <2> QED BY <1>0, <1>1, <1>2, <1>3, <2>1 DEF ReplyIsOwn, GoneIsSettled
<1> QED BY <1>4, <1>5, <1>6, <1>7, <1>8, <1>9, <1>10, InvNext

-----------------------------------------------------------------------------
(* The upstream writes, or dies.                                           *)

(* The chunks of a message are chunks, and of that message. *)
LEMMA ChunksFacts ==
  ASSUME NEW m \in Msg, NEW n \in {1, Cap, Cap + 1},
         NEW form \in {"line", "pieces", "endless", "framed", "split"}
  PROVE  /\ Chunks(m, form, n) \in Seq(Chunk)
         /\ \A c \in Range(Chunks(m, form, n)) : c.msg = m
<1> DEFINE C == {c \in Chunk : c.msg = m}
<1>1. \A part \in {"line", "piece", "end", "open", "rest", "head", "body"} :
        \A l \in {0, 1, Cap, Cap + 1} : ChunkOf(part, m, l) \in C
  <2> TAKE part \in {"line", "piece", "end", "open", "rest", "head", "body"}
  <2> TAKE l \in {0, 1, Cap, Cap + 1}
  <2>1. l \in 0..(Cap + 1)
    BY SMT, ClientConfig
  <2> QED BY <2>1 DEF ChunkOf, Chunk
<1> DEFINE end == ChunkOf("end", m, 0)
           piece == ChunkOf("piece", m, 0)
           body == ChunkOf("body", m, n)
           line == ChunkOf("line", m, 0)
           head == ChunkOf("head", m, n)
           open == ChunkOf("open", m, n)
           rest == ChunkOf("rest", m, n)
<1>2. end \in C /\ piece \in C /\ body \in C /\ line \in C /\ head \in C /\ open \in C /\ rest \in C
  BY <1>1
<1>3. \A c \in C : \A l \in Nat : Times(l, c) \in Seq(C)
  BY SMT DEF Times
<1>4. n \in Nat /\ Cap + 1 \in Nat
  BY SMT, ClientConfig
<1> HIDE DEF C, end, piece, body, line, head, open, rest
<1>5. /\ Times(n, body) \in Seq(C) /\ Times(Cap + 1, piece) \in Seq(C)
      /\ <<end>> \in Seq(C) /\ <<piece>> \in Seq(C) /\ <<line>> \in Seq(C)
      /\ <<head>> \in Seq(C) /\ <<open, rest>> \in Seq(C)
  BY <1>2, <1>3, <1>4, SMT
<1>6. \A s \in Seq(C) : \A t \in Seq(C) : s \o t \in Seq(C)
  BY SMT
<1>7. Chunks(m, form, n) \in Seq(C)
  BY <1>5, <1>6 DEF Chunks, end, piece, body, line, head, open, rest
<1>8. \A s \in Seq(C) : s \in Seq(Chunk) /\ \A c \in Range(s) : c.msg = m
  BY SMT DEF Range, C
<1> QED BY <1>7, <1>8

LEMMA WriteInv ==
  ASSUME ClientInv, NEW k \in Kids, NEW kind \in {"note", "good", "bad"}, NEW i \in {0} \cup heard[k],
         NEW n \in {1, Cap, Cap + 1}, NEW form \in {"line", "pieces", "endless", "framed", "split"},
         Write(k, kind, i, form, n)
  PROVE  ClientInv'
<1> DEFINE m == [from |-> k, nth |-> sent[k] + 1, id |-> i, kind |-> kind]
<1>0. /\ ConnType /\ WireType /\ ReadType /\ WaitType /\ FlagType /\ OwnShape /\ Bounded
      /\ HandshakeShape /\ ChildShape /\ EraShape /\ ReplyIsOwn /\ GoneIsSettled /\ EraIsObserved
  BY EventFacts DEF Write
<1>1. /\ sent[1] + sent[2] < MaxSent
      /\ sent' = [sent EXCEPT ![k] = @ + 1]
      /\ wrote' = IF k = 1 THEN Append(wrote, WayOf(form, n)) ELSE wrote
      /\ pipe' = [pipe EXCEPT ![k] = @ \o Chunks(m, form, n)]
      /\ heard' = [heard EXCEPT ![k] = @ \ {i}]
  BY DEF Write
<1>2. UNCHANGED <<policy, phase, child, spawned, closed, connected, ever, told, modern, definitive,
                  alive, exits, got, buf, skip, draining, nextId, waiters, cont, crossed, probed>>
  BY DEF Write, connVars, readVars, waitVars
<1>3. m \in Msg
  <2>1. sent[k] + 1 \in 1..MaxSent
    BY <1>0, <1>1, SMT, ClientConfig DEF WireType, Kids
  <2>2. i \in 0..MaxIds
    <3>1. heard[k] \subseteq Ids
      BY <1>0 DEF WireType
    <3> QED BY <3>1, SMT, ClientConfig DEF Ids
  <2> QED BY <2>1, <2>2, SMT DEF Msg
<1>4. m.nth = sent[k] + 1 /\ m.id = i /\ m.from = k
  OBVIOUS
<1> HIDE DEF m
<1>5. /\ Chunks(m, form, n) \in Seq(Chunk)
      /\ \A c \in Range(Chunks(m, form, n)) : c.msg = m
  BY <1>3, ChunksFacts
<1>6. /\ pipe' \in [Kids -> Seq(Chunk)]
      /\ pipe'[k] = pipe[k] \o Chunks(m, form, n)
      /\ \A l \in Kids \ {k} : pipe'[l] = pipe[l]
  <2>1. pipe \in [Kids -> Seq(Chunk)]
    BY <1>0 DEF WireType
  <2>2. pipe[k] \o Chunks(m, form, n) \in Seq(Chunk)
    BY <1>5, <2>1, SMT
  <2> QED BY <1>1, <2>1, <2>2, Zenon
<1>7. /\ heard' \in [Kids -> SUBSET Ids]
      /\ \A l \in Kids : heard'[l] \subseteq heard[l]
  BY <1>0, <1>1, SMT DEF WireType
<1>8. WireType'
  <2>1. sent' \in [Kids -> 0..MaxSent]
    BY <1>0, <1>1, SMT, ClientConfig DEF WireType, Kids
  <2>2. wrote' \in Seq(Ways) /\ got' \in Seq(1..MaxSent)
    <3>1. WayOf(form, n) \in Ways
      BY SMT DEF WayOf, Ways
    <3>2. wrote \in Seq(Ways) /\ got \in Seq(1..MaxSent) /\ got' = got
      BY <1>0, <1>2 DEF WireType
    <3>3. Append(wrote, WayOf(form, n)) \in Seq(Ways)
      BY <3>1, <3>2, SMT
    <3> QED BY <1>1, <3>2, <3>3
  <2> QED BY <1>0, <1>2, <1>6, <1>7, <2>1, <2>2, Zenon DEF WireType
<1>9. OwnShape'
  <2>1. Owned(i, k)
    <3>1. heard[k] \subseteq Ids /\ nextId \in 1..(MaxIds + 1) /\ DOMAIN waiters \subseteq Ids
      BY <1>0 DEF WireType, WaitType
    <3>2. CASE i = 0
      BY <3>1, <3>2, SMT, ClientConfig DEF Owned, Ids
    <3>3. CASE i \in heard[k]
      BY <1>0, <3>3 DEF OwnShape
    <3> QED BY <3>2, <3>3
  <2>2. \A l \in Kids : \A c \in Range(pipe'[l]) : Owned(c.msg.id, c.msg.from)
    <3> TAKE l \in Kids
    <3> TAKE c \in Range(pipe'[l])
    <3>1. CASE c \in Range(pipe[l])
      BY <1>0, <3>1 DEF OwnShape
    <3>2. CASE c \notin Range(pipe[l])
      <4>1. l = k
        BY <1>6, <3>2
      <4>2. pipe[k] \in Seq(Chunk)
        BY <1>0 DEF WireType
      <4>3. Range(pipe[k] \o Chunks(m, form, n)) \subseteq Range(pipe[k]) \cup Range(Chunks(m, form, n))
        BY <1>5, <4>2, RangeOfConcat
      <4>4. c \in Range(Chunks(m, form, n))
        BY <1>6, <3>2, <4>1, <4>3
      <4>5. c.msg = m
        BY <1>5, <4>4
      <4> QED BY <1>4, <2>1, <4>5
    <3> QED BY <3>1, <3>2
  <2>3. /\ \A l \in Kids : \A j \in heard'[l] : Owned(j, l)
        /\ \A j \in DOMAIN waiters : j < nextId
        /\ \A c \in Range(buf) : Owned(c.msg.id, c.msg.from)
    BY <1>0, <1>7 DEF OwnShape
  <2> QED BY <1>2, <2>2, <2>3, Zenon DEF OwnShape, Owned
<1>10. ConnType' /\ ReadType' /\ WaitType' /\ FlagType' /\ Bounded'
  BY <1>0, <1>2, Zenon DEF ConnType, ReadType, WaitType, FlagType, Bounded
<1>11. HandshakeShape' /\ ChildShape' /\ EraShape' /\ ReplyIsOwn' /\ GoneIsSettled' /\ EraIsObserved'
  BY <1>0, <1>2, Zenon DEF HandshakeShape, Asks, ChildShape, EraShape, ReplyIsOwn, GoneIsSettled, EraIsObserved
<1> QED BY <1>8, <1>9, <1>10, <1>11, InvNext

LEMMA UpstreamInv ==
  ASSUME ClientInv, NEW k \in Kids, Upstream(k)
  PROVE  ClientInv'
<1>1. PICK form \in {"line", "pieces", "endless", "framed", "split"}, n \in {1, Cap, Cap + 1} :
        \/ Write(k, "note", 0, form, n)
        \/ \E i \in heard[k], kind \in {"good", "bad"} : Write(k, kind, i, form, n)
  BY DEF Upstream
<1>2. CASE Write(k, "note", 0, form, n)
  BY <1>2, WriteInv
<1>3. ASSUME NEW i \in heard[k], NEW kind \in {"good", "bad"}, Write(k, kind, i, form, n)
      PROVE  ClientInv'
  BY <1>3, WriteInv
<1> QED BY <1>1, <1>2, <1>3

LEMMA DieInv ==
  ASSUME ClientInv, NEW k \in Kids, Die(k)
  PROVE  ClientInv'
<1>0. /\ ConnType /\ WireType /\ ReadType /\ WaitType /\ FlagType /\ OwnShape /\ Bounded
      /\ HandshakeShape /\ ChildShape /\ EraShape /\ ReplyIsOwn /\ GoneIsSettled /\ EraIsObserved
  BY EventFacts DEF Die
<1>1. UNCHANGED <<policy, phase, child, spawned, closed, connected, ever, told, modern, definitive,
                  heard, sent, buf, skip, draining, nextId, waiters, cont, crossed, probed>>
  BY DEF Die, connVars, readVars, waitVars
<1>2. /\ alive' \cup exits' = alive \cup exits
      /\ alive' \subseteq Kids /\ exits' \subseteq Kids \ alive' /\ wrote' \in Seq(Ways) /\ got' \in Seq(1..MaxSent)
  BY <1>0, KillsFacts DEF Die
<1>3. PICK n \in 0..Len(pipe[k]) : pipe' = [pipe EXCEPT ![k] = SubSeq(@, 1, n)]
  BY DEF Die
<1>4. pipe' \in [Kids -> Seq(Chunk)] /\ \A l \in Kids : Range(pipe'[l]) \subseteq Range(pipe[l])
  <2>1. pipe \in [Kids -> Seq(Chunk)]
    BY <1>0 DEF WireType
  <2>2. Range(SubSeq(pipe[k], 1, n)) \subseteq Range(pipe[k]) /\ SubSeq(pipe[k], 1, n) \in Seq(Chunk)
    BY <2>1, RangeOfPrefix
  <2> QED BY <1>3, <2>1, <2>2
<1>5. WireType'
  BY <1>0, <1>1, <1>2, <1>4, Zenon DEF WireType
<1>6. OwnShape'
  BY <1>0, <1>1, <1>4, OwnStays
<1>7. ConnType' /\ ReadType' /\ WaitType' /\ FlagType' /\ Bounded'
  BY <1>0, <1>1, Zenon DEF ConnType, ReadType, WaitType, FlagType, Bounded
<1>8. ChildShape'
  BY <1>0, <1>1, <1>2, Zenon DEF ChildShape
<1>9. HandshakeShape' /\ EraShape' /\ ReplyIsOwn' /\ GoneIsSettled' /\ EraIsObserved'
  BY <1>0, <1>1, Zenon DEF HandshakeShape, Asks, EraShape, ReplyIsOwn, GoneIsSettled, EraIsObserved
<1> QED BY <1>5, <1>6, <1>7, <1>8, <1>9, InvNext

-----------------------------------------------------------------------------
(* A read joins the buffer, which is drained.                              *)

LEMMA OnDataInv ==
  ASSUME ClientInv, NEW k \in Kids, OnData(k)
  PROVE  ClientInv'
<1>0. /\ ConnType /\ WireType /\ ReadType /\ WaitType /\ FlagType /\ OwnShape /\ Bounded
      /\ HandshakeShape /\ ChildShape /\ EraShape /\ ReplyIsOwn /\ GoneIsSettled /\ EraIsObserved
  BY EventFacts DEF OnData
<1>1. PICK n \in 1..Cap :
        /\ n <= Len(pipe[k])
        /\ buf' = buf \o SubSeq(pipe[k], 1, n)
        /\ pipe' = [pipe EXCEPT ![k] = SubSeq(@, n + 1, Len(@))]
  BY DEF OnData
<1>2. /\ draining' = TRUE
      /\ UNCHANGED <<policy, phase, child, spawned, closed, connected, ever, told, modern, definitive,
                     alive, exits, wrote, got, heard, sent, skip, nextId, waiters, cont, crossed, probed>>
  BY DEF OnData, connVars, waitVars
<1>3. pipe \in [Kids -> Seq(Chunk)] /\ pipe[k] \in Seq(Chunk) /\ buf \in Seq(Chunk)
  BY <1>0 DEF WireType, ReadType
<1>4. /\ SubSeq(pipe[k], 1, n) \in Seq(Chunk) /\ Range(SubSeq(pipe[k], 1, n)) \subseteq Range(pipe[k])
      /\ SubSeq(pipe[k], n + 1, Len(pipe[k])) \in Seq(Chunk)
      /\ Range(SubSeq(pipe[k], n + 1, Len(pipe[k]))) \subseteq Range(pipe[k])
  <2>1. n \in 0..Len(pipe[k])
    BY <1>1, <1>3, SMT, ClientConfig
  <2> QED BY <1>3, <2>1, RangeOfPrefix, RangeOfSuffix
<1>5. buf' \in Seq(Chunk) /\ Range(buf') \subseteq Range(buf) \cup Range(pipe[k])
  <2>1. buf \o SubSeq(pipe[k], 1, n) \in Seq(Chunk)
    BY <1>3, <1>4, SMT
  <2>2. Range(buf \o SubSeq(pipe[k], 1, n)) \subseteq Range(buf) \cup Range(SubSeq(pipe[k], 1, n))
    <3> DEFINE u == SubSeq(pipe[k], 1, n)
    <3>1. u \in Seq(Chunk)
      BY <1>4
    <3> HIDE DEF u
    <3>2. Range(buf \o u) \subseteq Range(buf) \cup Range(u)
      BY <1>3, <3>1, RangeOfConcat
    <3> QED BY <3>2 DEF u
  <2> QED BY <1>1, <1>4, <2>1, <2>2
<1>6. pipe' \in [Kids -> Seq(Chunk)] /\ \A l \in Kids : Range(pipe'[l]) \subseteq Range(pipe[l])
  BY <1>1, <1>3, <1>4
<1>7. ConnType' /\ WireType' /\ ReadType' /\ WaitType' /\ FlagType'
  BY <1>0, <1>2, <1>5, <1>6, Zenon DEF ConnType, WireType, ReadType, WaitType, FlagType
<1>8. Bounded'
  BY <1>2 DEF Bounded
<1>9. OwnShape'
  <2>1. \A c \in Range(buf') : \/ \E e \in Range(buf) : e.msg = c.msg
                               \/ \E l \in Kids : \E e \in Range(pipe[l]) : e.msg = c.msg
    BY <1>5
  <2> QED BY <1>0, <1>2, <1>6, <2>1, OwnStays
<1>10. HandshakeShape' /\ ChildShape' /\ EraShape' /\ ReplyIsOwn' /\ GoneIsSettled' /\ EraIsObserved'
  BY <1>0, <1>2, Zenon DEF HandshakeShape, Asks, ChildShape, EraShape, ReplyIsOwn, GoneIsSettled, EraIsObserved
<1> QED BY <1>7, <1>8, <1>9, <1>10, InvNext

(* An answer goes to the request of the child that gave it. *)
LEMMA RoutesFacts ==
  ASSUME ClientInv, NEW m \in Msg, Owned(m.id, m.from), Routes(m), UNCHANGED <<policy, connVars, nextId>>
  PROVE  /\ got' \in Seq(1..MaxSent)
         /\ DOMAIN waiters' \subseteq DOMAIN waiters
         /\ \A i \in DOMAIN waiters' : waiters'[i] = waiters[i]
         /\ crossed' = crossed
         /\ HandshakeShape' /\ EraShape' /\ WaitType' /\ EraIsObserved'
<1>0. /\ ConnType /\ WireType /\ ReadType /\ WaitType /\ FlagType /\ OwnShape
      /\ HandshakeShape /\ ChildShape /\ EraShape /\ ReplyIsOwn /\ GoneIsSettled /\ EraIsObserved
  BY InvParts DEF ConnShape
<1>1. UNCHANGED <<policy, phase, child, closed, modern, definitive, nextId>>
  BY DEF connVars
<1>2. got' \in Seq(1..MaxSent)
  <2>1. got' \in {got, Append(got, m.nth)}
    BY DEF Routes
  <2>2. m.nth \in 1..MaxSent
    BY DEF Msg
  <2>3. got \in Seq(1..MaxSent)
    BY <1>0 DEF WireType
  <2>4. Append(got, m.nth) \in Seq(1..MaxSent)
    BY <2>2, <2>3, SMT
  <2> QED BY <2>1, <2>3, <2>4, Zenon
<1>3. CASE m.kind # "note" /\ m.id \in DOMAIN waiters
  <2>1. Settle({m.id}, m.kind, m.from)
    BY <1>3 DEF Routes
  <2>2. m.kind \in Outcomes /\ m.from \in {NoKid} \cup Kids /\ {m.id} \subseteq DOMAIN waiters
    BY <1>3 DEF Msg, Outcomes
  <2>3. \A i \in {m.id} : m.from \in {NoKid, waiters[i].to}
    BY <1>3 DEF Owned
  <2>4. /\ DOMAIN waiters' \subseteq DOMAIN waiters
        /\ \A i \in DOMAIN waiters' : waiters'[i] = waiters[i]
        /\ crossed' = crossed
    <3> DEFINE ids == {m.id}
               how == m.kind
               by == m.from
    <3>1. WaitType /\ FlagType
      BY <1>0
    <3>2. /\ ids \subseteq DOMAIN waiters /\ how \in Outcomes /\ by \in {NoKid} \cup Kids
          /\ Settle(ids, how, by) /\ \A i \in ids : by \in {NoKid, waiters[i].to}
      BY <2>1, <2>2, <2>3
    <3> HIDE DEF ids, how, by
    <3> QED BY <3>1, <3>2, SettleFacts
  <2>5. ~closed' /\ child' # NoKid
    <3>1. waiters[m.id] \in Waiter /\ ~closed /\ waiters[m.id].to = child
      BY <1>0, <1>3 DEF WaitType, GoneIsSettled
    <3>2. child # NoKid
      BY <3>1, SMT DEF Waiter, Kids, NoKid
    <3> QED BY <1>1, <3>1, <3>2
  <2>6. HandshakeShape' /\ EraShape' /\ WaitType' /\ EraIsObserved'
    BY <1>0, <1>1, <2>1, <2>2, <2>5, SettleShapes
  <2> QED BY <1>2, <2>4, <2>6
<1>4. CASE ~(m.kind # "note" /\ m.id \in DOMAIN waiters)
  <2>1. UNCHANGED <<waiters, cont, crossed, probed>>
    BY <1>4, Zenon DEF Routes, waitVars
  <2>2. HandshakeShape' /\ EraShape' /\ WaitType' /\ EraIsObserved'
    BY <1>0, <1>1, <2>1, Zenon DEF HandshakeShape, Asks, EraShape, WaitType, EraIsObserved
  <2> QED BY <1>2, <2>1, <2>2
<1> QED BY <1>3, <1>4

LEMMA DispatchFacts ==
  ASSUME ClientInv, NEW b \in Seq(Chunk), Range(b) \subseteq Range(buf), Dispatches(b),
         UNCHANGED <<policy, connVars, nextId>>
  PROVE  /\ got' \in Seq(1..MaxSent)
         /\ DOMAIN waiters' \subseteq DOMAIN waiters
         /\ \A i \in DOMAIN waiters' : waiters'[i] = waiters[i]
         /\ crossed' = crossed
         /\ HandshakeShape' /\ EraShape' /\ WaitType' /\ EraIsObserved'
<1>0. /\ WireType /\ OwnShape /\ HandshakeShape /\ EraShape /\ WaitType /\ EraIsObserved
  BY InvParts DEF ConnShape
<1>1. CASE Parses(b)
  <2>1. Routes(b[1].msg)
    BY <1>1 DEF Dispatches
  <2>2. b[1] \in Chunk /\ b[1] \in Range(b)
    <3>1. b # <<>>
      BY <1>1 DEF Parses
    <3> QED BY <3>1, SMT DEF Range
  <2>3. b[1].msg \in Msg
    BY <2>2 DEF Chunk
  <2>4. Owned(b[1].msg.id, b[1].msg.from)
    BY <1>0, <2>2 DEF OwnShape
  <2> QED BY <2>1, <2>3, <2>4, RoutesFacts
<1>2. CASE ~Parses(b)
  <2>1. UNCHANGED <<got, waiters, cont, crossed, probed>>
    BY <1>2 DEF Dispatches, waitVars
  <2>2. UNCHANGED <<policy, phase, child, closed, modern, definitive, nextId>>
    BY DEF connVars
  <2>3. HandshakeShape' /\ EraShape' /\ WaitType' /\ EraIsObserved'
    BY <1>0, <2>1, <2>2, Zenon DEF HandshakeShape, Asks, EraShape, WaitType, EraIsObserved
  <2> QED BY <1>0, <2>1, <2>3, Zenon DEF WireType
<1> QED BY <1>1, <1>2

(* A round of the drain keeps part of the buffer. *)
LEMMA RoundInv ==
  ASSUME ClientInv, UNCHANGED <<policy, connVars, pipe, heard, sent, nextId>>,
         buf' \in Seq(Chunk), Range(buf') \subseteq Range(buf), skip' \in 0..(Cap + 1),
         draining' \in BOOLEAN, Bounded',
         alive' \cup exits' = alive \cup exits, alive' \subseteq Kids, exits' \subseteq Kids \ alive',
         wrote' \in Seq(Ways), got' \in Seq(1..MaxSent), DOMAIN waiters' \subseteq DOMAIN waiters,
         \A i \in DOMAIN waiters' : waiters'[i] = waiters[i], crossed' = crossed,
         HandshakeShape', EraShape', WaitType', EraIsObserved'
  PROVE  ClientInv'
<1>0. /\ ConnType /\ WireType /\ ReadType /\ WaitType /\ FlagType /\ OwnShape
      /\ ChildShape /\ ReplyIsOwn /\ GoneIsSettled
  BY InvParts DEF ConnShape
<1>1. UNCHANGED <<policy, phase, child, spawned, closed, connected, ever, told, modern, definitive,
                  pipe, heard, sent, nextId>>
  BY DEF connVars
<1>2. ConnType' /\ WireType' /\ ReadType' /\ FlagType'
  BY <1>0, <1>1, Zenon DEF ConnType, WireType, ReadType, FlagType
<1>3. OwnShape'
  <2>1. \A k \in Kids : heard'[k] \subseteq heard[k] /\ Range(pipe'[k]) \subseteq Range(pipe[k])
    BY <1>1
  <2> QED BY <1>0, <1>1, <2>1, OwnStays
<1>4. ChildShape' /\ ReplyIsOwn' /\ GoneIsSettled'
  BY <1>0, <1>1 DEF ChildShape, ReplyIsOwn, GoneIsSettled
<1> QED BY <1>2, <1>3, <1>4, InvNext

LEMMA DrainInv ==
  ASSUME ClientInv, Drain
  PROVE  ClientInv'
<1>0. /\ ConnType /\ WireType /\ ReadType /\ WaitType /\ FlagType /\ OwnShape /\ Bounded
      /\ HandshakeShape /\ ChildShape /\ EraShape /\ ReplyIsOwn /\ GoneIsSettled /\ EraIsObserved
      /\ buf \in Seq(Chunk) /\ Len(buf) \in Nat /\ skip \in 0..(Cap + 1)
  BY InvParts, SMT DEF ConnShape, ReadType
<1>1. draining /\ UNCHANGED <<policy, connVars, pipe, heard, sent, nextId>>
  BY DEF Drain
<1>2. ASSUME UNCHANGED waitVars
      PROVE  /\ DOMAIN waiters' \subseteq DOMAIN waiters
             /\ \A i \in DOMAIN waiters' : waiters'[i] = waiters[i]
             /\ crossed' = crossed
             /\ HandshakeShape' /\ EraShape' /\ WaitType' /\ EraIsObserved'
  <2>1. UNCHANGED <<policy, phase, child, closed, modern, definitive, nextId, waiters, cont, crossed,
                    probed>>
    BY <1>1, <1>2 DEF waitVars, connVars
  <2> QED BY <1>0, <2>1, Zenon DEF HandshakeShape, Asks, EraShape, WaitType, EraIsObserved
<1>3. ASSUME UNCHANGED <<alive, exits, wrote>>
      PROVE  /\ alive' \cup exits' = alive \cup exits
             /\ alive' \subseteq Kids /\ exits' \subseteq Kids \ alive'
             /\ wrote' \in Seq(Ways)
  BY <1>0, <1>3 DEF WireType
<1>4. ASSUME NEW n \in 0..Len(buf), Cut(n)
      PROVE  buf' \in Seq(Chunk) /\ Range(buf') \subseteq Range(buf) /\ Len(buf') = Len(buf) - n
  BY <1>0, <1>4, RangeOfSuffix DEF Cut
<1>5. UNCHANGED got => got' \in Seq(1..MaxSent)
  BY <1>0, Zenon DEF WireType
<1>6. draining' = TRUE => draining' \in BOOLEAN /\ Bounded'
  BY DEF Bounded
<1>7. UNCHANGED draining => draining' \in BOOLEAN /\ Bounded'
  BY <1>0, <1>1, <1>6 DEF ReadType
<1>8. \A i \in DOMAIN buf : i \in 1..Len(buf) /\ buf[i] \in Chunk /\ buf[i].len \in 0..(Cap + 1)
  <2>1. \A c \in Chunk : c.len \in 0..(Cap + 1)
    BY DEF Chunk
  <2> QED BY <1>0, <2>1, SMT
<1>9. CASE Discards
  <2> DEFINE eat == IF skip < Len(buf) THEN skip ELSE Len(buf)
  <2>1. /\ skip' = skip - eat /\ Cut(eat) /\ draining' = (skip' = 0)
        /\ UNCHANGED <<alive, exits, wrote>> /\ UNCHANGED got /\ UNCHANGED waitVars
    BY <1>9 DEF Discards
  <2>2. eat \in 0..Len(buf) /\ skip - eat \in 0..(Cap + 1) /\ (skip - eat = 0 \/ eat = Len(buf))
    BY <1>0, SMT, ClientConfig
  <2> HIDE DEF eat
  <2>3. buf' \in Seq(Chunk) /\ Range(buf') \subseteq Range(buf) /\ Len(buf') = Len(buf) - eat
    BY <1>4, <2>1, <2>2
  <2>4. draining' \in BOOLEAN /\ Bounded'
    <3>0. ~draining' => skip' # 0
      BY <2>1, Zenon
    <3>1. ~draining' => Len(buf') = 0
      BY <1>0, <2>1, <2>2, <2>3, <3>0, SMT
    <3>2. Len(buf') = 0 => Len(buf') <= Cap
      BY SMT, ClientConfig
    <3> QED BY <2>1, <3>1, <3>2 DEF Bounded
  <2> QED BY <1>1, <1>2, <1>3, <1>5, <2>1, <2>2, <2>3, <2>4, RoundInv
<1>10. CASE Refuses
  <2>1. PICK h \in DOMAIN buf, d \in DOMAIN buf : Cut(h) /\ skip' = buf[d].len
    BY <1>10 DEF Refuses
  <2>2. UNCHANGED <<alive, exits, wrote>> /\ UNCHANGED got /\ UNCHANGED waitVars /\ UNCHANGED draining
    BY <1>10 DEF Refuses
  <2>3. h \in 0..Len(buf) /\ skip' \in 0..(Cap + 1)
    BY <1>0, <1>8, <2>1, SMT
  <2>4. buf' \in Seq(Chunk) /\ Range(buf') \subseteq Range(buf)
    BY <1>4, <2>1, <2>3
  <2> QED BY <1>1, <1>2, <1>3, <1>5, <1>7, <2>2, <2>3, <2>4, RoundInv
<1>11. ASSUME NEW b, b \in Seq(Chunk), Range(b) \subseteq Range(buf), Dispatches(b),
              NEW n \in 0..Len(buf), Cut(n), UNCHANGED <<skip, draining, alive, exits, wrote>>
       PROVE  ClientInv'
  <2>1. /\ got' \in Seq(1..MaxSent)
        /\ DOMAIN waiters' \subseteq DOMAIN waiters
        /\ \A i \in DOMAIN waiters' : waiters'[i] = waiters[i]
        /\ crossed' = crossed
        /\ HandshakeShape' /\ EraShape' /\ WaitType' /\ EraIsObserved'
    BY <1>1, <1>11, DispatchFacts
  <2>2. buf' \in Seq(Chunk) /\ Range(buf') \subseteq Range(buf)
    BY <1>4, <1>11
  <2>3. skip' \in 0..(Cap + 1)
    BY <1>0, <1>11
  <2> QED BY <1>1, <1>3, <1>7, <1>11, <2>1, <2>2, <2>3, RoundInv
<1>12. CASE TakesBody
  <2>1. PICK h \in DOMAIN buf, d \in DOMAIN buf :
          /\ Header(h, d) /\ h + buf[d].len <= Len(buf)
          /\ Cut(h + buf[d].len) /\ Dispatches(SubSeq(buf, h + 1, h + buf[d].len))
    BY <1>12 DEF TakesBody
  <2> DEFINE end == h + buf[d].len
             b == SubSeq(buf, h + 1, end)
  <2>2. end \in 0..Len(buf) /\ end >= h /\ h \in Nat
    BY <1>0, <1>8, <2>1, SMT, ClientConfig
  <2>3. UNCHANGED <<skip, draining, alive, exits, wrote>> /\ Cut(end) /\ Dispatches(b)
    BY <1>12, <2>1 DEF TakesBody
  <2>4. b \in Seq(Chunk) /\ Range(b) \subseteq Range(buf)
    <3> HIDE DEF end
    <3> QED BY <1>0, <2>2, SliceFacts
  <2> HIDE DEF end, b
  <2> QED BY <1>11, <2>2, <2>3, <2>4
<1>13. CASE TakesLine
  <2>1. PICK l \in DOMAIN buf : Cut(l) /\ Dispatches(SubSeq(buf, 1, l))
    BY <1>13 DEF TakesLine
  <2>2. UNCHANGED <<skip, draining, alive, exits, wrote>>
    BY <1>13 DEF TakesLine
  <2>3. l \in 0..Len(buf) /\ l \in 1..Len(buf)
    BY <1>0, SMT
  <2> DEFINE b == SubSeq(buf, 1, l)
  <2>4. b \in Seq(Chunk) /\ Range(b) \subseteq Range(buf)
    BY <1>0, <2>3, RangeOfPrefix
  <2>5. Dispatches(b)
    BY <2>1
  <2> HIDE DEF b
  <2> QED BY <1>11, <2>1, <2>2, <2>3, <2>4, <2>5
<1>14. CASE Holds /\ draining' = FALSE /\ UNCHANGED <<skip, waitVars>>
  <2>1. /\ UNCHANGED <<alive, exits, wrote>> /\ UNCHANGED got /\ UNCHANGED waitVars
        /\ buf' = buf /\ skip' = skip /\ Len(buf) <= Cap /\ draining' = FALSE
    BY <1>14 DEF Holds
  <2>2. draining' \in BOOLEAN /\ Bounded'
    BY <2>1 DEF Bounded
  <2>3. buf' \in Seq(Chunk) /\ Range(buf') \subseteq Range(buf) /\ skip' \in 0..(Cap + 1)
    BY <1>0, <2>1
  <2> QED BY <1>1, <1>2, <1>3, <1>5, <2>1, <2>2, <2>3, RoundInv
<1>15. CASE Overflows /\ draining' = FALSE /\ UNCHANGED <<skip, waitVars>>
  <2>1. buf' = <<>> /\ Kills(child) /\ UNCHANGED waitVars /\ skip' = skip /\ draining' = FALSE
    BY <1>15 DEF Overflows
  <2>2. child \in {NoKid} \cup Kids
    <3>1. child \in {NoKid, spawned} /\ spawned \in 0..2
      BY <1>0 DEF ConnType
    <3> QED BY <3>1, SMT DEF NoKid, Kids
  <2>3. /\ alive' \cup exits' = alive \cup exits
        /\ alive' \subseteq Kids /\ exits' \subseteq Kids \ alive'
        /\ wrote' \in Seq(Ways) /\ got' \in Seq(1..MaxSent)
    BY <1>0, <2>1, <2>2, KillsFacts
  <2>4. draining' \in BOOLEAN /\ Bounded'
    <3>1. Len(buf') <= Cap
      BY <2>1, SMT, ClientConfig
    <3> QED BY <2>1, <3>1 DEF Bounded
  <2>5. buf' \in Seq(Chunk) /\ Range(buf') \subseteq Range(buf) /\ skip' \in 0..(Cap + 1)
    <3>1. <<>> \in Seq(Chunk) /\ Range(<<>>) = {}
      BY SMT, RangeOfEmpty
    <3> QED BY <1>0, <2>1, <3>1
  <2> QED BY <1>1, <1>2, <2>1, <2>3, <2>4, <2>5, RoundInv
<1> QED BY <1>9, <1>10, <1>12, <1>13, <1>14, <1>15 DEF Drain

-----------------------------------------------------------------------------
LEMMA NextInv == ClientInv /\ [Next]_vars => ClientInv'
<1> SUFFICES ASSUME ClientInv, [Next]_vars PROVE ClientInv'
  OBVIOUS
<1>1. ASSUME NEW memo \in BOOLEAN, Connect(memo) PROVE ClientInv'
  BY <1>1, ConnectInv
<1>2. CASE ProbeDone \/ InitDone
  BY <1>2, ProbeDoneInv, InitDoneInv
<1>3. CASE Ask
  BY <1>3, AskInv
<1>4. CASE Close
  BY <1>4, CloseInv
<1>5. ASSUME NEW i \in Ids, Timeout(i) \/ WriteFails(i) PROVE ClientInv'
  <2>1. "timeout" \in Outcomes /\ "gone" \in Outcomes
    BY DEF Outcomes
  <2> QED BY <1>5, <2>1, WaiterInv DEF Timeout, WriteFails
<1>6. ASSUME NEW k \in Kids, OnExit(k) \/ Upstream(k) \/ Die(k) \/ OnData(k) PROVE ClientInv'
  BY <1>6, OnExitInv, UpstreamInv, DieInv, OnDataInv
<1>7. CASE Drain
  BY <1>7, DrainInv
<1>8. CASE UNCHANGED vars
  <2>1. UNCHANGED <<policy, phase, child, spawned, closed, connected, ever, told, modern, definitive,
                    alive, exits, wrote, got, pipe, heard, sent, buf, skip, draining, nextId, waiters, cont,
                    crossed, probed>>
    BY <1>8 DEF vars, connVars, wireVars, readVars, waitVars
  <2>2. ConnType /\ WireType /\ ReadType /\ WaitType /\ FlagType /\ ConnShape /\ OwnShape /\ Bounded
    BY InvParts
  <2>3. ConnType' /\ WireType' /\ ReadType' /\ WaitType' /\ FlagType' /\ OwnShape' /\ Bounded'
    BY <2>1, <2>2, Zenon DEF ConnType, WireType, ReadType, WaitType, FlagType, OwnShape, Owned, Bounded
  <2>4. HandshakeShape' /\ ChildShape' /\ EraShape' /\ ReplyIsOwn' /\ GoneIsSettled' /\ EraIsObserved'
    BY <2>1, <2>2, Zenon DEF HandshakeShape, Asks, ChildShape, EraShape, ReplyIsOwn, GoneIsSettled,
                             EraIsObserved, ConnShape
  <2> QED BY <2>3, <2>4, InvNext
<1> QED BY <1>1, <1>2, <1>3, <1>4, <1>5, <1>6, <1>7, <1>8 DEF Next

(* The inductive invariant holds of every run of a client: its types, the  *)
(* shape of the handshake, which child runs, and whose number each answer  *)
(* under way carries.                                                      *)
THEOREM ClientInvHolds == Spec => []ClientInv
<1>1. Init => ClientInv
  BY InitInv
<1>2. ClientInv /\ [Next]_vars => ClientInv'
  BY NextInv
<1> QED BY <1>1, <1>2, PTL DEF Spec

(* No request is ever settled by an answer of another child than the one   *)
(* it was sent to: a late answer of the child that died on the probe       *)
(* answers nothing of its replacement (_request, _parseAndDispatch).       *)
THEOREM ReplyIsOwnHolds == Spec => []ReplyIsOwn
<1>1. ClientInv => ReplyIsOwn
  BY DEF ClientInv
<1> QED BY <1>1, ClientInvHolds, PTL

(* No request outlives its child or the client, and the owner is told of   *)
(* the loss of a connection that was up (close, _rejectAllWaiters,         *)
(* _fireOnClose).                                                          *)
THEOREM GoneIsSettledHolds == Spec => []GoneIsSettled
<1>1. ClientInv => GoneIsSettled
  BY DEF ClientInv
<1> QED BY <1>1, ClientInvHolds, PTL

(* The era is what was observed, under every policy (connect).             *)
THEOREM EraIsObservedHolds == Spec => []EraIsObserved
<1>1. ClientInv => EraIsObserved
  BY DEF ClientInv
<1> QED BY <1>1, ClientInvHolds, PTL

-----------------------------------------------------------------------------
(* The stream, cut and appended to.                                        *)

Drop(s, k) == SubSeq(s, k + 1, Len(s))

LEMMA DropFacts ==
  ASSUME NEW S, NEW s \in Seq(S), NEW k \in 0..Len(s)
  PROVE  /\ Drop(s, k) \in Seq(S) /\ Len(Drop(s, k)) = Len(s) - k
         /\ \A i \in 1..(Len(s) - k) : Drop(s, k)[i] = s[i + k]
  BY RangeOfSuffix DEF Drop

LEMMA ChunkFields ==
  ASSUME NEW c \in Chunk
  PROVE  /\ c.msg \in Msg /\ c.msg.nth \in 1..MaxSent /\ c.len \in 0..(Cap + 1)
         /\ c.part \in {"line", "piece", "end", "open", "rest", "head", "body"}
         /\ \A p : [c EXCEPT !.part = p].msg = c.msg
         /\ \A p : [c EXCEPT !.part = p].len = c.len
         /\ \A p : [c EXCEPT !.part = p].part = p
<1>1. PICK part \in {"line", "piece", "end", "open", "rest", "head", "body"}, m \in Msg,
           l \in 0..(Cap + 1) : c = [part |-> part, msg |-> m, len |-> l]
  BY DEF Chunk
<1>2. c.msg.nth \in 1..MaxSent
  BY <1>1 DEF Msg
<1> QED BY <1>1, <1>2

(* What the cut leaves is framed as it was. *)
LEMMA DropParts ==
  ASSUME NEW s \in Seq(Chunk), NEW k \in 0..Len(s), NEW i \in Nat \ {0}, NEW n \in Nat
  PROVE  /\ Begins(s, i + k, n) => Begins(Drop(s, k), i, n)
         /\ \A e \in DOMAIN s : i \in DOMAIN Drop(s, k) /\ LineTo(s, i + k, e) => LineTo(Drop(s, k), i, e - k)
         /\ \A e \in Nat, c \in Chunk : BodyTo(s, i + k, e, c) => BodyTo(Drop(s, k), i, e - k, c)
<1> DEFINE t == Drop(s, k)
<1>1. /\ t \in Seq(Chunk) /\ Len(t) = Len(s) - k
      /\ \A j \in 1..(Len(s) - k) : t[j] = s[j + k]
  BY DropFacts
<1> HIDE DEF t
<1>2. \A j \in Nat \ {0}, n2 \in Nat : Begins(s, j + k, n2) => Begins(t, j, n2)
  BY <1>1, SMT DEF Begins
<1>3. ASSUME NEW e \in DOMAIN s, i \in DOMAIN t, LineTo(s, i + k, e)
      PROVE  LineTo(t, i, e - k)
  <2>1. i + k < e /\ e \in DOMAIN s /\ i + k \in DOMAIN s
    BY <1>1, <1>3, SMT DEF LineTo, Begins
  <2>2. i < e - k /\ e - k \in DOMAIN t /\ t[e - k] = s[e] /\ t[i] = s[i + k] /\ e - k + 1 \in Nat \ {0}
        /\ (e - k + 1) + k = e + 1
    <3>1. e \in 1..Len(s) /\ i \in 1..(Len(s) - k) /\ i < e - k /\ Len(s) \in Nat
      BY <1>1, <1>3, <2>1, SMT
    <3>2. e - k \in 1..(Len(s) - k) /\ (e - k) + k = e /\ e - k + 1 \in Nat \ {0} /\ (e - k + 1) + k = e + 1
      BY <3>1, SMT
    <3>3. DOMAIN t = 1..(Len(s) - k)
      BY <1>1
    <3> QED BY <1>1, <3>1, <3>2, <3>3
  <2>3. \A j \in i..(e - k - 1) : t[j] = s[j + k] /\ j + k \in (i + k)..(e - 1)
    <3> TAKE j \in i..(e - k - 1)
    <3>1. j \in 1..(Len(s) - k) /\ j + k \in (i + k)..(e - 1)
      BY <2>1, SMT
    <3> QED BY <1>1, <3>1
  <2>4. s[i + k].msg.nth \in Nat
    BY <2>1, ChunkFields
  <2>5. Begins(t, e - k + 1, s[i + k].msg.nth)
    BY <1>2, <1>3, <2>2, <2>4 DEF LineTo
  <2> QED BY <1>3, <2>2, <2>3, <2>5 DEF LineTo
<1>4. ASSUME NEW e \in Nat, NEW c \in Chunk, BodyTo(s, i + k, e, c)
      PROVE  BodyTo(t, i, e - k, c)
  <2>1. i + k <= e /\ e <= Len(s)
    BY <1>4 DEF BodyTo
  <2>2. i <= e - k /\ e - k <= Len(t) /\ e - k + 1 \in Nat \ {0} /\ (e - k + 1) + k = e + 1
    BY <1>1, <2>1, SMT
  <2>3. \A j \in i..(e - k) : t[j] = s[j + k] /\ j + k \in (i + k)..e
    BY <1>1, <2>1, SMT
  <2>4. c.msg.nth \in Nat
    BY ChunkFields
  <2>5. Begins(t, e - k + 1, c.msg.nth)
    BY <1>2, <1>4, <2>2, <2>4 DEF BodyTo
  <2> QED BY <1>4, <2>2, <2>3, <2>5 DEF BodyTo
<1> QED BY <1>2, <1>3, <1>4 DEF t

LEMMA FramedDrop ==
  ASSUME NEW s \in Seq(Chunk), NEW k \in 0..Len(s), Framed(s),
         k < Len(s) => s[k + 1].part # "rest"
  PROVE  Framed(Drop(s, k))
<1> DEFINE t == Drop(s, k)
<1>1. /\ t \in Seq(Chunk) /\ Len(t) = Len(s) - k
      /\ \A j \in 1..(Len(s) - k) : t[j] = s[j + k]
  BY DropFacts
<1> SUFFICES ASSUME NEW i \in DOMAIN t
             PROVE  /\ t[i].part = "line" => Begins(t, i + 1, t[i].msg.nth)
                    /\ t[i].part = "piece" => \E e \in DOMAIN t : LineTo(t, i, e)
                    /\ t[i].part = "open" => i + 1 \in DOMAIN t /\ t[i + 1] = [t[i] EXCEPT !.part = "rest"]
                    /\ t[i].part = "rest" => i - 1 \in DOMAIN t /\ t[i - 1] = [t[i] EXCEPT !.part = "open"]
                    /\ t[i].part \in Headers => BodyTo(t, i + 1, i + t[i].len, t[i])
  BY DEF Framed
<1> HIDE DEF t
<1>2. i + k \in DOMAIN s /\ t[i] = s[i + k] /\ t[i] \in Chunk /\ i \in Nat \ {0}
  BY <1>1, SMT
<1>3. /\ s[i + k].part = "line" => Begins(s, i + k + 1, s[i + k].msg.nth)
      /\ s[i + k].part = "piece" => \E e \in DOMAIN s : LineTo(s, i + k, e)
      /\ s[i + k].part = "open" => i + k + 1 \in DOMAIN s /\ s[i + k + 1] = [s[i + k] EXCEPT !.part = "rest"]
      /\ s[i + k].part = "rest" => i + k - 1 \in DOMAIN s /\ s[i + k - 1] = [s[i + k] EXCEPT !.part = "open"]
      /\ s[i + k].part \in Headers => BodyTo(s, i + k + 1, i + k + s[i + k].len, s[i + k])
  BY <1>2 DEF Framed
<1>4. t[i].msg.nth \in Nat /\ t[i].len \in Nat
  BY <1>2, ChunkFields, SMT, ClientConfig
<1>5. i + k + 1 = (i + 1) + k /\ i + 1 \in Nat \ {0} /\ i + k + t[i].len \in Nat
      /\ (i + k + t[i].len) - k = i + t[i].len
  BY <1>2, <1>4, SMT
<1>6. t[i].part = "line" => Begins(t, i + 1, t[i].msg.nth)
  BY <1>2, <1>3, <1>4, <1>5, DropParts DEF t
<1>7. ASSUME t[i].part = "piece" PROVE \E e \in DOMAIN t : LineTo(t, i, e)
  <2>1. PICK e \in DOMAIN s : LineTo(s, i + k, e)
    BY <1>2, <1>3, <1>7
  <2>2. e \in Nat /\ LineTo(t, i, e - k)
    BY <1>2, <2>1, DropParts, SMT DEF t
  <2>3. e - k \in DOMAIN t
    BY <1>1, <1>2, <2>1, SMT DEF LineTo
  <2> QED BY <2>2, <2>3
<1>8. t[i].part = "open" => i + 1 \in DOMAIN t /\ t[i + 1] = [t[i] EXCEPT !.part = "rest"]
  BY <1>1, <1>2, <1>3, SMT
<1>9. ASSUME t[i].part = "rest" PROVE i - 1 \in DOMAIN t /\ t[i - 1] = [t[i] EXCEPT !.part = "open"]
  <2>1. i # 1
    BY <1>1, <1>2, <1>9, SMT
  <2>2. i - 1 \in DOMAIN t /\ t[i - 1] = s[i + k - 1]
    BY <1>1, <1>2, <2>1, SMT
  <2> QED BY <1>2, <1>3, <1>9, <2>2
<1>10. t[i].part \in Headers => BodyTo(t, i + 1, i + t[i].len, t[i])
  BY <1>2, <1>3, <1>5, DropParts DEF t
<1> QED BY <1>6, <1>7, <1>8, <1>9, <1>10

(* Of the messages of the stream, those cut off precede those that stay. *)
LEMMA InOrderDrop ==
  ASSUME NEW s \in Seq(Chunk), NEW w, NEW k \in 0..Len(s), NEW n \in Nat, NEW n2 \in Nat,
         InOrder(s, n, w), n <= k + n2,
         \A j \in 1..k, i \in DOMAIN s : i > k + n2 /\ s[j].part \in Headers => s[i].msg # s[j].msg
  PROVE  InOrder(Drop(s, k), n2, w)
<1> DEFINE t == Drop(s, k)
<1>1. /\ t \in Seq(Chunk) /\ Len(t) = Len(s) - k
      /\ \A j \in 1..(Len(s) - k) : t[j] = s[j + k]
  BY DropFacts
<1> HIDE DEF t
<1>2. \A i \in DOMAIN t : i + k \in DOMAIN s /\ t[i] = s[i + k] /\ i \in Nat
  BY <1>1, SMT
<1>3. \A i \in DOMAIN s : i > k => i - k \in DOMAIN t /\ t[i - k] = s[i]
  <2> SUFFICES ASSUME NEW i \in DOMAIN s, i > k PROVE i - k \in DOMAIN t /\ t[i - k] = s[i]
    OBVIOUS
  <2>1. i - k \in 1..(Len(s) - k) /\ (i - k) + k = i
    BY SMT
  <2> QED BY <1>1, <2>1
<1>4. \A i, j \in DOMAIN s : i < j => s[i].msg.nth <= s[j].msg.nth
  BY DEF InOrder
<1>5. \A i, j \in DOMAIN t : i < j => t[i].msg.nth <= t[j].msg.nth
  <2> SUFFICES ASSUME NEW i \in DOMAIN t, NEW j \in DOMAIN t, i < j
               PROVE  t[i].msg.nth <= t[j].msg.nth
    OBVIOUS
  <2>1. i + k < j + k
    BY <1>2, SMT
  <2> QED BY <1>2, <1>4, <2>1
<1>6. \A i \in DOMAIN t : t[i].msg.from = 1 /\ t[i].msg.nth \in DOMAIN w
  BY <1>2 DEF InOrder
<1>7. \A j \in DOMAIN w : Here(j, t) /\ j < Len(w) => Here(j + 1, t)
  <2> SUFFICES ASSUME NEW j \in DOMAIN w, Here(j, t), j < Len(w) PROVE Here(j + 1, t)
    OBVIOUS
  <2>1. PICK i \in DOMAIN t : t[i].msg.nth = j
    BY DEF Here
  <2>2. i + k \in DOMAIN s /\ s[i + k].msg.nth = j /\ j \in Nat
    BY <1>2, <2>1, ChunkFields, SMT
  <2>3. PICK e \in DOMAIN s : s[e].msg.nth = j + 1
    BY <2>2 DEF Here, InOrder
  <2>4. ~(e < i + k) /\ e # i + k
    <3>1. ~(j + 1 <= j) /\ j + 1 # j
      BY <2>2, SMT
    <3> QED BY <1>4, <2>2, <2>3, <3>1
  <2>5. e > k
    BY <1>2, <2>4, SMT
  <2>6. e - k \in DOMAIN t /\ t[e - k].msg.nth = j + 1
    BY <1>3, <2>3, <2>5
  <2> QED BY <2>6 DEF Here
<1>8. ASSUME NEW i \in DOMAIN t
      PROVE  /\ t[i].part \in {"line", "piece", "end"} <=> w[t[i].msg.nth] = "line"
             /\ t[i].part \in Headers => (t[i].len > Cap <=> w[t[i].msg.nth] = "refused")
             /\ t[i].part = "body" /\ i > n2 =>
                  \E j \in DOMAIN t : t[j].part \in Headers /\ t[j].msg = t[i].msg
  <2>1. /\ s[i + k].part \in {"line", "piece", "end"} <=> w[s[i + k].msg.nth] = "line"
        /\ s[i + k].part \in Headers => (s[i + k].len > Cap <=> w[s[i + k].msg.nth] = "refused")
        /\ s[i + k].part = "body" /\ i + k > n =>
             \E j \in DOMAIN s : s[j].part \in Headers /\ s[j].msg = s[i + k].msg
    BY <1>2, Zenon DEF InOrder
  <2>2. ASSUME t[i].part = "body", i > n2
        PROVE  \E j \in DOMAIN t : t[j].part \in Headers /\ t[j].msg = t[i].msg
    <3>1. i + k > n /\ i + k > k + n2
      BY <1>2, <2>2, SMT
    <3>2. PICK j \in DOMAIN s : s[j].part \in Headers /\ s[j].msg = s[i + k].msg
      BY <1>2, <2>1, <2>2, <3>1
    <3>3. j \notin 1..k
      BY <1>2, <3>1, <3>2
    <3>4. j > k
      BY <3>3, SMT
    <3> QED BY <1>2, <1>3, <3>2, <3>4
  <2> QED BY <1>2, <2>1, <2>2
<1>9. InOrder(t, n2, w)
  BY <1>5, <1>6, <1>7, <1>8, Zenon DEF InOrder
<1> QED BY <1>9 DEF t

(* A cut whose last message is dispatched, or was refused, loses only      *)
(* lines, and these as they may be lost.                                   *)
LEMMA AccountedCut ==
  ASSUME NEW s \in Seq(Chunk), NEW w \in Seq(Ways), NEW g \in Seq(1..MaxSent), NEW n \in Nat,
         NEW k \in 1..Len(s), NEW x \in DOMAIN w, NEW g2,
         InOrder(s, n, w), Accounted(s, w, g), s[k].msg.nth = x,
         \A i \in 1..k : \/ s[i].msg.nth = x
                         \/ s[i].msg.nth < x /\ w[s[i].msg.nth] = "line" /\ w[x] # "line",
         \/ g2 = g /\ w[x] = "refused"
         \/ g2 = Append(g, x) /\ \A i \in DOMAIN s : i > k => s[i].msg.nth > x
  PROVE  Accounted(Drop(s, k), w, g2)
<1> DEFINE t == Drop(s, k)
<1>1. /\ t \in Seq(Chunk) /\ Len(t) = Len(s) - k
      /\ \A j \in 1..(Len(s) - k) : t[j] = s[j + k]
  <2>1. k \in 0..Len(s)
    BY SMT
  <2> QED BY <2>1, DropFacts
<1> HIDE DEF t
<1>2. \A i \in DOMAIN t : i + k \in DOMAIN s /\ t[i] = s[i + k] /\ i \in Nat /\ i + k > k
  <2> TAKE i \in DOMAIN t
  <2>1. i \in 1..(Len(s) - k) /\ t[i] = s[i + k]
    BY <1>1
  <2>2. i + k \in 1..Len(s) /\ i \in Nat /\ i + k > k
    BY <2>1, SMT
  <2> QED BY <2>1, <2>2
<1>3. \A i \in DOMAIN s : i > k => i - k \in DOMAIN t /\ t[i - k] = s[i]
  <2> SUFFICES ASSUME NEW i \in DOMAIN s, i > k PROVE i - k \in DOMAIN t /\ t[i - k] = s[i]
    OBVIOUS
  <2>1. i - k \in 1..(Len(s) - k) /\ (i - k) + k = i
    BY SMT
  <2>2. DOMAIN t = 1..(Len(s) - k)
    BY <1>1
  <2> QED BY <1>1, <2>1, <2>2
<1>4. /\ \A i, j \in DOMAIN g : i < j => g[i] < g[j]
      /\ \A i \in DOMAIN g : g[i] \in DOMAIN w /\ \A j \in DOMAIN s : g[i] < s[j].msg.nth
      /\ \A j \in DOMAIN w : Gone(j, s, g) =>
           \/ w[j] = "refused"
           \/ w[j] = "line" /\ j < Len(w) /\ (w[j + 1] # "line" \/ Gone(j + 1, s, g))
  BY DEF Accounted
<1>5. x \in Nat /\ \A i \in DOMAIN s : s[i].msg.nth \in Nat
  <2>1. \A i \in DOMAIN s : s[i] \in Chunk
    OBVIOUS
  <2> QED BY <2>1, ChunkFields, SMT
<1>6. \A i \in DOMAIN g : g[i] < x
  BY <1>4
<1>7. (g2 = Append(g, x)) => /\ DOMAIN g2 = DOMAIN g \cup {Len(g) + 1} /\ g2[Len(g) + 1] = x
                             /\ \A i \in DOMAIN g : g2[i] = g[i] /\ i < Len(g) + 1
  BY <1>5, SMT
<1>8. Range(g) \subseteq Range(g2) /\ (g2 = Append(g, x) => x \in Range(g2)) /\ Range(g2) \subseteq Range(g) \cup {x}
  BY <1>7 DEF Range
<1>9. \A i, j \in DOMAIN g2 : i < j => g2[i] < g2[j]
  <2>1. CASE g2 = g
    BY <1>4, <2>1
  <2>2. CASE g2 = Append(g, x)
    <3> TAKE i, j \in DOMAIN g2
    <3> HAVE i < j
    <3>1. i \in DOMAIN g
      BY <1>7, <2>2, SMT
    <3> QED BY <1>4, <1>6, <1>7, <2>2, <3>1
  <2> QED BY <2>1, <2>2
<1>10. \A i \in DOMAIN g2 : g2[i] \in DOMAIN w /\ \A j \in DOMAIN t : g2[i] < t[j].msg.nth
  <2>1. \A i \in DOMAIN g : g[i] \in DOMAIN w /\ \A j \in DOMAIN t : g[i] < t[j].msg.nth
    BY <1>2, <1>4
  <2>2. CASE g2 = g
    BY <2>1, <2>2
  <2>3. CASE g2 # g
    <3>1. g2 = Append(g, x) /\ \A i \in DOMAIN t : t[i].msg.nth > x
      BY <1>2, <2>3
    <3>2. \A i \in DOMAIN t : t[i].msg.nth \in Nat
      BY <1>2, <1>5
    <3>3. \A i \in DOMAIN t : x < t[i].msg.nth
      BY <1>5, <3>1, <3>2, SMT
    <3> QED BY <1>7, <2>1, <3>1, <3>3
  <2> QED BY <2>2, <2>3
<1>11. ASSUME NEW j \in DOMAIN w, Gone(j, t, g2)
       PROVE  \/ w[j] = "refused"
              \/ w[j] = "line" /\ j < Len(w) /\ (w[j + 1] # "line" \/ Gone(j + 1, t, g2))
  <2>1. j \notin Range(g) /\ j \in Nat
    BY <1>8, <1>11 DEF Gone
  <2>2. CASE j = x
    BY <1>8, <1>11, <2>2 DEF Gone
  <2>3. CASE j # x /\ ~Here(j, s)
    <3>1. w[j] = "refused" \/ (w[j] = "line" /\ j < Len(w) /\ (w[j + 1] # "line" \/ Gone(j + 1, s, g)))
      BY <1>4, <2>1, <2>3 DEF Gone
    <3>2. ASSUME Gone(j + 1, s, g) PROVE Gone(j + 1, t, g2)
      <4>1. j + 1 # x
        <5>1. ~Here(j + 1, s)
          BY <3>2 DEF Gone
        <5>2. Here(x, s)
          BY SMT DEF Here
        <5> QED BY <5>1, <5>2
      <4>2. ~Here(j + 1, t)
        BY <1>2, <3>2 DEF Gone, Here
      <4> QED BY <1>8, <3>2, <4>1, <4>2 DEF Gone
    <3> QED BY <3>1, <3>2
  <2>4. CASE j # x /\ Here(j, s)
    <3>1. PICK i \in DOMAIN s : s[i].msg.nth = j
      BY <2>4 DEF Here
    <3>2. ~(i > k)
      <4>1. i > k => Here(j, t)
        BY <1>3, <3>1 DEF Here
      <4> QED BY <1>11, <4>1 DEF Gone
    <3>3. i \in 1..k
      BY <3>2, SMT
    <3>4. j < x /\ w[j] = "line" /\ w[x] # "line"
      BY <2>4, <3>1, <3>3
    <3>5. j < Len(w) /\ j + 1 <= x
      BY <1>5, <2>1, <3>4, SMT
    <3>6. CASE j + 1 = x
      BY <3>4, <3>5, <3>6
    <3>7. CASE j + 1 # x
      <4>1. ~Here(j + 1, t)
        <5> SUFFICES ASSUME Here(j + 1, t) PROVE FALSE
          OBVIOUS
        <5>1. PICK e \in DOMAIN s : e > k /\ s[e].msg.nth = j + 1
          BY <1>2 DEF Here
        <5>2. x <= j + 1
          BY <5>1 DEF InOrder
        <5> QED BY <1>5, <2>1, <3>5, <3>7, <5>2, SMT
      <4>2. j + 1 \notin Range(g2)
        <5>1. \A e \in DOMAIN g : g[e] < j
          BY <1>4, <3>1
        <5>2. j + 1 \notin Range(g)
          BY <2>1, <5>1, SMT DEF Range
        <5> QED BY <1>8, <3>7, <5>2
      <4> QED BY <3>4, <3>5, <4>1, <4>2 DEF Gone
    <3> QED BY <3>6, <3>7
  <2> QED BY <2>2, <2>3, <2>4
<1>12. Accounted(t, w, g2)
  BY <1>9, <1>10, <1>11, Zenon DEF Accounted
<1> QED BY <1>12 DEF t

-----------------------------------------------------------------------------
(* The rounds of the drain, on the stream.                                 *)

(* Some of the body that is being skipped goes. *)
LEMMA SkipShape ==
  ASSUME NEW s \in Seq(Chunk), NEW w \in Seq(Ways), NEW g \in Seq(1..MaxSent), NEW n \in Nat \ {0},
         StreamShape(s, n, w, g), NEW e \in 1..n
  PROVE  StreamShape(Drop(s, e), n - e, w, g)
<1> DEFINE t == Drop(s, e)
<1>1. PICK m \in Msg :
        /\ m.nth \in DOMAIN w /\ w[m.nth] = "refused" /\ n <= Len(s)
        /\ \A j \in 1..n : s[j].part = "body" /\ s[j].msg = m
        /\ Begins(s, n + 1, m.nth)
  <2>1. Started(s, n, w) /\ n > 0
    BY SMT DEF StreamShape
  <2> QED BY <2>1, Zenon DEF Started
<1>2. e \in 0..Len(s) /\ e \in 1..Len(s)
  BY <1>1, SMT
<1>3. /\ t \in Seq(Chunk) /\ Len(t) = Len(s) - e
      /\ \A j \in 1..(Len(s) - e) : t[j] = s[j + e]
  BY <1>2, DropFacts
<1>4. m.nth \in Nat
  BY <1>1 DEF Msg
<1> HIDE DEF t
<1>5. Framed(t)
  <2>1. ASSUME e < Len(s) PROVE s[e + 1].part # "rest"
    <3>1. CASE e < n
      <4>1. e + 1 \in 1..n
        BY <3>1, SMT
      <4> QED BY <1>1, <4>1
    <3>2. CASE e = n
      <4>1. n + 1 \in DOMAIN s
        BY <2>1, <3>2, SMT
      <4> QED BY <1>1, <3>2, <4>1 DEF Begins
    <3> QED BY <3>1, <3>2, SMT
  <2> QED BY <1>2, <2>1, FramedDrop DEF t, StreamShape
<1>6. Started(t, n - e, w)
  <2>1. (n - e + 1) + e = n + 1 /\ n - e + 1 \in Nat \ {0} /\ n - e \in Nat /\ n - e <= Len(t)
    BY <1>1, <1>3, SMT
  <2>2. Begins(t, n - e + 1, m.nth)
    BY <1>1, <1>2, <1>4, <2>1, DropParts DEF t
  <2>3. CASE n - e = 0
    <3>1. Begins(t, 1, 0)
      <4> SUFFICES ASSUME 1 \in DOMAIN t PROVE Begins(t, 1, 0)
        BY DEF Begins
      <4>1. t[1].part \in {"line", "piece", "open", "head"}
        BY <2>2, <2>3 DEF Begins
      <4>2. t[1].msg.nth > 0
        BY <1>3, ChunkFields, SMT
      <4> QED BY <4>1, <4>2 DEF Begins
    <3> QED BY <2>3, <3>1 DEF Started
  <2>4. CASE n - e > 0
    <3>1. \A j \in 1..(n - e) : t[j].part = "body" /\ t[j].msg = m
      <4> TAKE j \in 1..(n - e)
      <4>1. j \in 1..(Len(s) - e) /\ j + e \in 1..n
        BY <1>1, SMT
      <4> QED BY <1>1, <1>3, <4>1
    <3> QED BY <1>1, <2>1, <2>2, <2>4, <3>1 DEF Started
  <2> QED BY <2>1, <2>3, <2>4, SMT
<1>7. InOrder(t, n - e, w)
  <2>1. n - e \in Nat /\ n <= e + (n - e)
    BY SMT
  <2>2. \A j \in 1..e : s[j].part \notin Headers
    <3> TAKE j \in 1..e
    <3>1. j \in 1..n
      BY SMT
    <3> QED BY <1>1, <3>1 DEF Headers
  <2>3. InOrder(s, n, w)
    BY DEF StreamShape
  <2> QED BY <1>2, <2>1, <2>2, <2>3, InOrderDrop DEF t
<1>8. Accounted(t, w, g)
  <2>1. \A i \in 1..e : s[i].msg.nth = m.nth
    <3> TAKE i \in 1..e
    <3>1. i \in 1..n
      BY SMT
    <3> QED BY <1>1, <3>1
  <2>2. s[e].msg.nth = m.nth
    BY <2>1, SMT
  <2>3. InOrder(s, n, w) /\ Accounted(s, w, g)
    BY DEF StreamShape
  <2> QED BY <1>1, <1>2, <2>1, <2>2, <2>3, AccountedCut DEF t
<1> QED BY <1>5, <1>6, <1>7, <1>8 DEF t, StreamShape

(* The first header of s ends at h and declares its length at d. *)
Heads(s, h, d) ==
  /\ h \in DOMAIN s /\ s[h].part \in {"head", "rest"}
  /\ \A j \in 1..(h - 1) : s[j].part \notin {"head", "rest"}
  /\ d \in DOMAIN s /\ s[d].part \in {"head", "open"}
  /\ \A j \in 1..(d - 1) : s[j].part \notin {"head", "open"}
  /\ d <= h

(* The length is that header's own, and what precedes it are lines. *)
LEMMA HeadFacts ==
  ASSUME NEW s \in Seq(Chunk), NEW w \in Seq(Ways), NEW g, StreamShape(s, 0, w, g),
         NEW h, NEW d, Heads(s, h, d)
  PROVE  /\ s[d].len = s[h].len /\ s[h].len \in Nat /\ BodyTo(s, h + 1, h + s[h].len, s[h])
         /\ s[h].msg.nth \in DOMAIN w /\ w[s[h].msg.nth] # "line"
         /\ s[h].len > Cap <=> w[s[h].msg.nth] = "refused"
         /\ \A i \in 1..h : \/ s[i].msg.nth = s[h].msg.nth
                            \/ s[i].msg.nth < s[h].msg.nth /\ w[s[i].msg.nth] = "line"
<1>1. /\ h \in 1..Len(s) /\ d \in 1..Len(s) /\ s[h].part \in Headers
      /\ s[h].part \in {"head", "rest"} /\ s[d].part \in {"head", "open"} /\ d <= h
      /\ \A j \in 1..(h - 1) : s[j].part \notin {"head", "rest"}
      /\ \A j \in 1..(d - 1) : s[j].part \notin {"head", "open"}
  BY DEF Heads, Headers
<1>2. \A i \in DOMAIN s : /\ s[i] \in Chunk /\ s[i].msg.nth \in Nat /\ s[i].len \in Nat
                          /\ s[i].part \in {"line", "piece", "end", "open", "rest", "head", "body"}
  <2> TAKE i \in DOMAIN s
  <2>1. s[i] \in Chunk
    OBVIOUS
  <2> QED BY <2>1, ChunkFields, SMT, ClientConfig
<1>3. /\ \A i, j \in DOMAIN s : i < j => s[i].msg.nth <= s[j].msg.nth
      /\ \A i \in DOMAIN s : s[i].msg.nth \in DOMAIN w
  BY DEF StreamShape, InOrder
<1>4. \A i \in DOMAIN s :
        /\ s[i].part \in {"line", "piece", "end"} <=> w[s[i].msg.nth] = "line"
        /\ s[i].part \in Headers => (s[i].len > Cap <=> w[s[i].msg.nth] = "refused")
        /\ s[i].part = "body" /\ i > 0 =>
             \E j \in DOMAIN s : s[j].part \in Headers /\ s[j].msg = s[i].msg
  BY Zenon DEF StreamShape, InOrder
<1>5. \A i \in DOMAIN s : s[i].part = "open" =>
        i + 1 \in DOMAIN s /\ s[i + 1].part = "rest" /\ s[i + 1].msg = s[i].msg /\ s[i + 1].len = s[i].len
  <2> SUFFICES ASSUME NEW i \in DOMAIN s, s[i].part = "open"
               PROVE  i + 1 \in DOMAIN s /\ s[i + 1].part = "rest" /\ s[i + 1].msg = s[i].msg
                      /\ s[i + 1].len = s[i].len
    OBVIOUS
  <2>1. i + 1 \in DOMAIN s /\ s[i + 1] = [s[i] EXCEPT !.part = "rest"]
    BY DEF StreamShape, Framed
  <2>2. s[i] \in Chunk
    OBVIOUS
  <2> QED BY <2>1, <2>2, ChunkFields
<1>6. \A i \in 1..(h - 1) : s[i].part = "open" => i + 1 = h
  <2> SUFFICES ASSUME NEW i \in 1..(h - 1), s[i].part = "open", i + 1 # h PROVE FALSE
    OBVIOUS
  <2>1. i \in DOMAIN s /\ i + 1 \in 1..(h - 1)
    BY <1>1, SMT
  <2> QED BY <1>1, <1>5, <2>1
<1>7. s[d].len = s[h].len /\ s[h].len \in Nat
  <2>1. CASE d = h
    BY <1>1, <1>2, <2>1
  <2>2. CASE d # h
    <3>1. d \in 1..(h - 1)
      BY <1>1, <2>2, SMT
    <3>2. s[d].part = "open"
      BY <1>1, <3>1
    <3>3. d \in DOMAIN s /\ h \in DOMAIN s /\ d + 1 = h
      BY <1>1, <1>6, <3>1, <3>2
    <3>4. s[d + 1].len = s[d].len
      BY <1>5, <3>2, <3>3
    <3> QED BY <1>2, <3>3, <3>4
  <2> QED BY <2>1, <2>2
<1>8. BodyTo(s, h + 1, h + s[h].len, s[h])
  <2>1. h \in DOMAIN s
    BY <1>1
  <2> QED BY <1>1, <2>1, Zenon DEF StreamShape, Framed
<1>9. /\ s[h].msg.nth \in DOMAIN w /\ w[s[h].msg.nth] # "line"
      /\ s[h].len > Cap <=> w[s[h].msg.nth] = "refused"
  <2>1. h \in DOMAIN s /\ s[h].part \notin {"line", "piece", "end"}
    BY <1>1
  <2> QED BY <1>1, <1>3, <1>4, <2>1, Zenon
<1>10. ASSUME NEW i \in 1..h
       PROVE  \/ s[i].msg.nth = s[h].msg.nth
              \/ s[i].msg.nth < s[h].msg.nth /\ w[s[i].msg.nth] = "line"
  <2>1. i \in DOMAIN s /\ h \in DOMAIN s
    BY <1>1, SMT
  <2>2. i = h \/ i \in 1..(h - 1)
    BY SMT, <1>1
  <2>3. s[i].msg.nth = s[h].msg.nth \/ s[i].msg.nth < s[h].msg.nth
    <3>1. i < h => s[i].msg.nth <= s[h].msg.nth
      BY <1>3, <2>1
    <3>2. i = h \/ i < h
      BY <2>2, <1>1, SMT
    <3>3. s[i].msg.nth \in Nat /\ s[h].msg.nth \in Nat
      BY <1>2, <2>1
    <3> QED BY <3>1, <3>2, <3>3, SMT
  <2>4. CASE s[i].part \in {"line", "piece", "end"}
    BY <1>4, <2>1, <2>3, <2>4, Zenon
  <2>5. CASE s[i].part \in {"head", "rest"}
    BY <1>1, <2>2, <2>5
  <2>6. CASE s[i].part = "open"
    BY <1>1, <1>5, <1>6, <2>1, <2>2, <2>6
  <2>7. CASE s[i].part = "body"
    <3>1. i > 0
      BY SMT
    <3>2. PICK j \in DOMAIN s : s[j].part \in Headers /\ s[j].msg = s[i].msg
      BY <1>4, <2>1, <2>7, <3>1
    <3>3. j \notin 1..(h - 1)
      BY <1>1, <3>2 DEF Headers
    <3>4. j = h \/ h < j
      BY <1>1, <3>3, SMT
    <3>5. s[h].msg.nth <= s[j].msg.nth \/ s[h].msg.nth = s[j].msg.nth
      BY <1>3, <2>1, <3>2, <3>4
    <3>6. s[h].msg.nth \in Nat /\ s[j].msg.nth \in Nat
      BY <1>2, <2>1, <3>2
    <3> QED BY <2>3, <3>2, <3>5, <3>6, SMT
  <2> QED BY <1>2, <2>1, <2>4, <2>5, <2>6, <2>7
<1> QED BY <1>7, <1>8, <1>9, <1>10

(* What is left of a stream that begins at a frame once the message at x,  *)
(* whose last chunk is the k-th, is taken.                                 *)
LEMMA TakeShape ==
  ASSUME NEW s \in Seq(Chunk), NEW w \in Seq(Ways), NEW g \in Seq(1..MaxSent),
         StreamShape(s, 0, w, g), NEW x \in DOMAIN w, NEW k \in 1..Len(s), s[k].msg.nth = x,
         \A i \in 1..k : \/ s[i].msg.nth = x
                         \/ s[i].msg.nth < x /\ w[s[i].msg.nth] = "line" /\ w[x] # "line",
         Begins(s, k + 1, x)
  PROVE  StreamShape(Drop(s, k), 0, w, Append(g, x))
<1>1. k \in 0..Len(s) /\ k + 1 \in Nat \ {0} /\ (k + 1) - k = 1 /\ 1 + k = k + 1 /\ x \in Nat
  BY SMT
<1>2. InOrder(s, 0, w) /\ Accounted(s, w, g) /\ Framed(s)
  BY DEF StreamShape
<1>3. \A i \in DOMAIN s : i > k => s[i].msg.nth > x
  <2> SUFFICES ASSUME NEW i \in DOMAIN s, i > k PROVE s[i].msg.nth > x
    OBVIOUS
  <2>1. k + 1 \in DOMAIN s
    BY SMT
  <2>2. s[k + 1].msg.nth > x
    BY <2>1 DEF Begins
  <2>3. i = k + 1 \/ k + 1 < i
    BY SMT
  <2>4. i = k + 1 \/ s[k + 1].msg.nth <= s[i].msg.nth
    BY <1>2, <2>1, <2>3 DEF InOrder
  <2>5. s[k + 1].msg.nth \in Nat /\ s[i].msg.nth \in Nat
    <3>1. s[k + 1] \in Chunk /\ s[i] \in Chunk
      BY <2>1
    <3> QED BY <3>1, ChunkFields, SMT
  <2>6. \A a, b \in Nat : a > x /\ a <= b => b > x
    BY <1>1, SMT
  <2> QED BY <2>2, <2>4, <2>5, <2>6
<1>4. Framed(Drop(s, k))
  <2>1. k < Len(s) => s[k + 1].part # "rest"
    BY SMT DEF Begins
  <2> QED BY <1>1, <1>2, <2>1, FramedDrop
<1>5. Started(Drop(s, k), 0, w)
  <2>1. Begins(Drop(s, k), 1, x)
    BY <1>1, DropParts
  <2>2. ASSUME 1 \in DOMAIN Drop(s, k)
        PROVE  Drop(s, k)[1].msg.nth > 0
    <3>1. Drop(s, k) \in Seq(Chunk)
      BY <1>1, DropFacts
    <3>2. Drop(s, k)[1] \in Chunk
      BY <2>2, <3>1
    <3> QED BY <3>2, ChunkFields, SMT
  <2> QED BY <2>1, <2>2, SMT DEF Started, Begins
<1>6. InOrder(Drop(s, k), 0, w)
  <2>1. \A j \in 1..k, i \in DOMAIN s : i > k + 0 /\ s[j].part \in Headers => s[i].msg # s[j].msg
    <3> SUFFICES ASSUME NEW j \in 1..k, NEW i \in DOMAIN s, i > k + 0 PROVE s[i].msg.nth # s[j].msg.nth
      OBVIOUS
    <3>0. i > k
      BY SMT
    <3>1. s[i].msg.nth > x /\ (s[j].msg.nth = x \/ s[j].msg.nth < x)
      BY <1>3, <3>0
    <3>2. s[i] \in Chunk /\ s[j] \in Chunk
      BY SMT
    <3>3. s[i].msg.nth \in Nat /\ s[j].msg.nth \in Nat
      BY <3>2, ChunkFields, SMT
    <3>4. \A a, b \in Nat : a > x /\ (b = x \/ b < x) => a # b
      BY <1>1, SMT
    <3> QED BY <3>1, <3>3, <3>4
  <2>2. 0 \in Nat /\ 0 <= k + 0
    BY SMT
  <2> QED BY <1>1, <1>2, <2>1, <2>2, InOrderDrop
<1>7. Accounted(Drop(s, k), w, Append(g, x))
  <2> DEFINE g2 == Append(g, x)
  <2>1. g2 = Append(g, x) /\ \A i \in DOMAIN s : i > k => s[i].msg.nth > x
    BY <1>3
  <2> HIDE DEF g2
  <2>2. 0 \in Nat
    OBVIOUS
  <2>3. Accounted(Drop(s, k), w, g2)
    BY <1>2, <2>1, <2>2, AccountedCut
  <2> QED BY <2>3 DEF g2
<1> QED BY <1>4, <1>5, <1>6, <1>7 DEF StreamShape

(* A message that declares too much is refused, at its header. *)
LEMMA RefuseShape ==
  ASSUME NEW s \in Seq(Chunk), NEW w \in Seq(Ways), NEW g \in Seq(1..MaxSent),
         StreamShape(s, 0, w, g), NEW h, NEW d, Heads(s, h, d), s[d].len > Cap
  PROVE  StreamShape(Drop(s, h), s[d].len, w, g)
<1> DEFINE t == Drop(s, h)
           l == s[h].len
           x == s[h].msg.nth
<1>1. /\ s[d].len = l /\ l \in Nat /\ BodyTo(s, h + 1, h + l, s[h])
      /\ x \in DOMAIN w /\ w[x] # "line" /\ (l > Cap => w[x] = "refused")
      /\ \A i \in 1..h : s[i].msg.nth = x \/ (s[i].msg.nth < x /\ w[s[i].msg.nth] = "line")
  BY HeadFacts
<1>2. h \in 1..Len(s) /\ h \in 0..Len(s) /\ s[h] \in Chunk
  BY SMT DEF Heads
<1>3. l > 0 /\ h + l <= Len(s) /\ w[x] = "refused"
  <2>1. l > Cap /\ h + l <= Len(s)
    BY <1>1 DEF BodyTo
  <2>2. l > 0
    BY <1>1, <2>1, SMT, ClientConfig
  <2> QED BY <1>1, <2>1, <2>2
<1>4. InOrder(s, 0, w) /\ Accounted(s, w, g) /\ Framed(s)
  BY DEF StreamShape
<1>5. /\ \A p : [s[h] EXCEPT !.part = p].msg = s[h].msg
      /\ \A p : [s[h] EXCEPT !.part = p].part = p
      /\ s[h].msg \in Msg
  BY <1>2, ChunkFields
<1>6. \A j \in (h + 1)..(h + l) : s[j].part = "body" /\ s[j].msg = s[h].msg
  <2> DEFINE b == [s[h] EXCEPT !.part = "body"]
  <2>1. b.part = "body" /\ b.msg = s[h].msg
    BY <1>5
  <2>2. \A j \in (h + 1)..(h + l) : s[j] = b
    BY <1>1 DEF BodyTo
  <2> HIDE DEF b
  <2> QED BY <2>1, <2>2
<1>7. h + 1 \in (h + 1)..(h + l) /\ h + 1 \in DOMAIN s
  BY <1>1, <1>2, <1>3, SMT
<1>8. /\ t \in Seq(Chunk) /\ Len(t) = Len(s) - h
      /\ \A j \in 1..(Len(s) - h) : t[j] = s[j + h]
  BY <1>2, DropFacts
<1>9. Framed(t)
  BY <1>2, <1>4, <1>6, <1>7, FramedDrop
<1>10. Started(t, l, w)
  <2>1. \A j \in 1..l : t[j].part = "body" /\ t[j].msg = s[h].msg
    <3> TAKE j \in 1..l
    <3>1. j \in 1..(Len(s) - h) /\ j + h \in (h + 1)..(h + l)
      BY <1>1, <1>2, <1>3, SMT
    <3> QED BY <1>6, <1>8, <3>1
  <2>2. l <= Len(t) /\ l + 1 \in Nat \ {0} /\ (l + 1) + h = h + l + 1 /\ x \in Nat
    <3>1. h \in Nat /\ l \in Nat /\ Len(s) \in Nat /\ h + l <= Len(s) /\ Len(t) = Len(s) - h
      BY <1>1, <1>2, <1>3, <1>8
    <3>2. x \in Nat
      BY <1>1
    <3> HIDE DEF t, l, x
    <3>3. l <= Len(t)
      BY <3>1, SMT
    <3>4. l + 1 \in Nat \ {0} /\ (l + 1) + h = h + l + 1
      BY <3>1, SMT
    <3> QED BY <3>2, <3>3, <3>4
  <2>3. Begins(s, h + l + 1, x)
    BY <1>1 DEF BodyTo
  <2>4. Begins(t, l + 1, x)
    BY <1>2, <2>2, <2>3, DropParts
  <2> HIDE DEF t, l
  <2>5. l > 0 => \E m \in Msg : /\ m.nth \in DOMAIN w /\ w[m.nth] = "refused" /\ l <= Len(t)
                                /\ \A j \in 1..l : t[j].part = "body" /\ t[j].msg = m
                                /\ Begins(t, l + 1, m.nth)
    BY <1>1, <1>3, <1>5, <2>1, <2>2, <2>4
  <2>6. l # 0
    BY <1>1, <1>3, SMT
  <2> QED BY <2>5, <2>6 DEF Started
<1>11. InOrder(t, l, w)
  <2>1. \A j \in 1..h, i \in DOMAIN s : i > h + l /\ s[j].part \in Headers => s[i].msg # s[j].msg
    <3> SUFFICES ASSUME NEW j \in 1..h, NEW i \in DOMAIN s, i > h + l PROVE s[i].msg.nth # s[j].msg.nth
      OBVIOUS
    <3>1. h + l + 1 \in DOMAIN s /\ (i = h + l + 1 \/ h + l + 1 < i)
      BY <1>1, <1>2, SMT
    <3>2. s[h + l + 1].msg.nth > x
      BY <1>1, <3>1 DEF BodyTo, Begins
    <3>3. i = h + l + 1 \/ s[h + l + 1].msg.nth <= s[i].msg.nth
      BY <1>4, <3>1 DEF InOrder
    <3>4. s[i] \in Chunk /\ s[j] \in Chunk /\ s[h + l + 1] \in Chunk
      BY <1>2, <3>1, SMT
    <3>5. s[i].msg.nth \in Nat /\ s[j].msg.nth \in Nat /\ s[h + l + 1].msg.nth \in Nat /\ x \in Nat
      <4>1. \A c \in Chunk : c.msg.nth \in Nat
        BY ChunkFields, SMT
      <4> QED BY <1>2, <3>4, <4>1
    <3>6. s[j].msg.nth = x \/ s[j].msg.nth < x
      BY <1>1
    <3> HIDE DEF x
    <3> QED BY <3>2, <3>3, <3>5, <3>6, SMT
  <2>2. 0 \in Nat /\ 0 <= h + l
    BY <1>1, <1>2, SMT
  <2> QED BY <1>1, <1>2, <1>4, <2>1, <2>2, InOrderDrop
<1>12. Accounted(t, w, g)
  <2>1. 0 \in Nat
    OBVIOUS
  <2> HIDE DEF x
  <2>2. s[h].msg.nth = x
    BY DEF x
  <2> QED BY <1>1, <1>2, <1>3, <1>4, <2>1, <2>2, AccountedCut
<1> QED BY <1>1, <1>9, <1>10, <1>11, <1>12 DEF StreamShape

-----------------------------------------------------------------------------
(* The rounds of the drain, of the buffer and the stdout.                  *)

LEMMA SameSeq ==
  ASSUME NEW S, NEW s \in Seq(S), NEW t \in Seq(S), Len(s) = Len(t),
         \A i \in 1..Len(s) : s[i] = t[i]
  PROVE  s = t
  BY SMT

LEMMA PrefixFacts ==
  ASSUME NEW S, NEW s \in Seq(S), NEW n \in 0..Len(s)
  PROVE  /\ SubSeq(s, 1, n) \in Seq(S) /\ Len(SubSeq(s, 1, n)) = n
         /\ \A i \in 1..n : SubSeq(s, 1, n)[i] = s[i]
  BY SMT

LEMMA StreamFacts ==
  ASSUME NEW s \in Seq(Chunk), NEW p \in Seq(Chunk)
  PROVE  /\ s \o p \in Seq(Chunk) /\ Len(s \o p) = Len(s) + Len(p)
         /\ \A i \in DOMAIN s : (s \o p)[i] = s[i] /\ i \in DOMAIN (s \o p)
         /\ \A k \in 0..Len(s) : SubSeq(s, k + 1, Len(s)) \o p = Drop(s \o p, k)
<1>1. /\ s \o p \in Seq(Chunk) /\ Len(s \o p) = Len(s) + Len(p)
      /\ \A i \in DOMAIN s : (s \o p)[i] = s[i] /\ i \in DOMAIN (s \o p)
      /\ \A i \in DOMAIN p : (s \o p)[Len(s) + i] = p[i]
  BY SMT
<1>2. ASSUME NEW k \in 0..Len(s)
      PROVE  SubSeq(s, k + 1, Len(s)) \o p = Drop(s \o p, k)
  <2> DEFINE u == Drop(s, k)
             t == Drop(s \o p, k)
             q == s \o p
  <2>1. /\ u \in Seq(Chunk) /\ Len(u) = Len(s) - k
        /\ \A i \in 1..(Len(s) - k) : u[i] = s[i + k]
    BY DropFacts
  <2>2. q \in Seq(Chunk) /\ Len(q) = Len(s) + Len(p) /\ k \in 0..Len(q)
    BY <1>1, SMT
  <2>3. /\ t \in Seq(Chunk) /\ Len(t) = Len(q) - k
        /\ \A i \in 1..(Len(q) - k) : t[i] = q[i + k]
    BY <2>2, DropFacts
  <2> HIDE DEF u, t
  <2>4. /\ u \o p \in Seq(Chunk) /\ Len(u \o p) = Len(t)
        /\ \A i \in 1..Len(u) : (u \o p)[i] = u[i]
        /\ \A i \in 1..Len(p) : (u \o p)[Len(u) + i] = p[i]
    <3>1. /\ u \o p \in Seq(Chunk) /\ Len(u \o p) = Len(u) + Len(p)
          /\ \A i \in 1..Len(u) : (u \o p)[i] = u[i]
          /\ \A i \in 1..Len(p) : (u \o p)[Len(u) + i] = p[i]
      <4>1. u \in Seq(Chunk)
        BY <2>1
      <4>2. \A a \in Seq(Chunk) : /\ a \o p \in Seq(Chunk) /\ Len(a \o p) = Len(a) + Len(p)
                                  /\ \A i \in 1..Len(a) : (a \o p)[i] = a[i]
                                  /\ \A i \in 1..Len(p) : (a \o p)[Len(a) + i] = p[i]
        BY SMT
      <4> QED BY <4>1, <4>2
    <3>2. Len(u) + Len(p) = Len(t)
      BY <2>1, <2>2, <2>3, SMT
    <3> QED BY <3>1, <3>2
  <2>5. \A i \in 1..Len(u \o p) : (u \o p)[i] = t[i]
    <3> TAKE i \in 1..Len(u \o p)
    <3>1. i \in 1..(Len(q) - k) /\ t[i] = q[i + k]
      BY <2>3, <2>4
    <3>2. CASE i <= Len(u)
      <4>1. i \in 1..(Len(s) - k) /\ i + k \in 1..Len(s)
        BY <2>1, <3>1, <3>2, SMT
      <4> QED BY <1>1, <2>1, <2>4, <3>1, <4>1
    <3>3. CASE i > Len(u)
      <4>1. i - Len(u) \in 1..Len(p) /\ Len(u) + (i - Len(u)) = i /\ Len(s) + (i - Len(u)) = i + k
        BY <2>1, <2>2, <3>1, <3>3, SMT
      <4> QED BY <1>1, <2>4, <3>1, <4>1
    <3> QED BY <2>1, <3>2, <3>3, SMT
  <2>6. u \o p = t
    BY <2>3, <2>4, <2>5, SameSeq
  <2> QED BY <2>6 DEF u, t, Drop
<1> QED BY <1>1, <1>2

(* The first child's stream while it lives and no other was spawned. *)
LEMMA AliveFacts ==
  ASSUME ClientInv, FrameInv, spawned = 1, 1 \in alive
  PROVE  /\ buf \in Seq(Chunk) /\ pipe[1] \in Seq(Chunk) /\ Stream \in Seq(Chunk)
         /\ wrote \in Seq(Ways) /\ got \in Seq(1..MaxSent) /\ skip \in 0..(Cap + 1)
         /\ StreamShape(Stream, skip, wrote, got) /\ child = 1 /\ ~closed
         /\ Len(buf) <= Len(Stream)
         /\ \A i \in DOMAIN buf : Stream[i] = buf[i] /\ i \in DOMAIN Stream
<1>1. WireType /\ ReadType /\ ChildShape
  BY InvParts DEF ConnShape
<1>2. buf \in Seq(Chunk) /\ pipe[1] \in Seq(Chunk) /\ wrote \in Seq(Ways) /\ got \in Seq(1..MaxSent)
      /\ skip \in 0..(Cap + 1)
  BY <1>1 DEF WireType, ReadType, Kids
<1>3. ~closed /\ child = 1
  <2>1. ~closed
    BY DEF FrameInv
  <2> QED BY <1>1, <2>1 DEF ChildShape
<1>4. StreamShape(Stream, skip, wrote, got)
  BY DEF FrameInv
<1> QED BY <1>2, <1>3, <1>4, StreamFacts DEF Stream

(* A frame that parses is dispatched. *)
LEMMA TakeFrame ==
  ASSUME ClientInv, FrameInv, spawned = 1, 1 \in alive, skip = 0,
         NEW l \in 1..Len(buf), Cut(l), NEW b, Parses(b), Dispatches(b),
         UNCHANGED <<skip, pipe, wrote>>,
         NEW x \in DOMAIN wrote, b[1].msg.nth = x, b[1].msg.from = 1, Stream[l].msg.nth = x,
         \A i \in 1..l : \/ Stream[i].msg.nth = x
                         \/ Stream[i].msg.nth < x /\ wrote[Stream[i].msg.nth] = "line" /\ wrote[x] # "line",
         Begins(Stream, l + 1, x)
  PROVE  StreamShape(Stream', skip', wrote', got')
<1>1. got' = Append(got, x)
  BY DEF Dispatches, Routes
<1>2. Stream' = Drop(Stream, l)
  <2>1. l \in 0..Len(buf)
    BY SMT
  <2>2. buf \in Seq(Chunk) /\ pipe[1] \in Seq(Chunk)
    BY AliveFacts
  <2>3. SubSeq(buf, l + 1, Len(buf)) \o pipe[1] = Drop(buf \o pipe[1], l)
    <3>1. \A k \in 0..Len(buf) : SubSeq(buf, k + 1, Len(buf)) \o pipe[1] = Drop(buf \o pipe[1], k)
      BY <2>2, StreamFacts
    <3> QED BY <2>1, <3>1
  <2>4. Stream' = SubSeq(buf, l + 1, Len(buf)) \o pipe[1]
    BY DEF Cut, Stream
  <2> QED BY <2>3, <2>4 DEF Stream
<1>3. l \in 1..Len(Stream)
  BY AliveFacts, SMT
<1>4. StreamShape(Drop(Stream, l), 0, wrote, Append(got, x))
  <2> DEFINE s == Stream
  <2>1. /\ s \in Seq(Chunk) /\ wrote \in Seq(Ways) /\ got \in Seq(1..MaxSent) /\ StreamShape(s, 0, wrote, got)
        /\ l \in 1..Len(s) /\ s[l].msg.nth = x /\ Begins(s, l + 1, x)
        /\ \A i \in 1..l : \/ s[i].msg.nth = x
                           \/ s[i].msg.nth < x /\ wrote[s[i].msg.nth] = "line" /\ wrote[x] # "line"
    BY <1>3, AliveFacts
  <2> HIDE DEF s
  <2>2. StreamShape(Drop(s, l), 0, wrote, Append(got, x))
    BY <2>1, TakeShape
  <2> QED BY <2>2 DEF s
<1> QED BY <1>1, <1>2, <1>4

LEMMA HeaderHeads ==
  ASSUME ClientInv, FrameInv, spawned = 1, 1 \in alive, NEW h, NEW d, Header(h, d)
  PROVE  Heads(Stream, h, d)
<1>1. /\ h \in DOMAIN buf /\ d \in DOMAIN buf /\ d <= h
      /\ buf[h].part \in {"head", "rest"} /\ buf[d].part \in {"head", "open"}
      /\ \A j \in 1..(h - 1) : buf[j].part \notin {"head", "rest"}
      /\ \A j \in 1..(d - 1) : buf[j].part \notin {"head", "open"}
  BY DEF Header, First
<1>2. \A i \in DOMAIN buf : Stream[i] = buf[i] /\ i \in DOMAIN Stream
  BY AliveFacts
<1>3. buf \in Seq(Chunk)
  BY AliveFacts
<1>4. \A j \in 1..(h - 1) : j \in DOMAIN buf
  BY <1>1, <1>3, SMT
<1>5. \A j \in 1..(d - 1) : j \in DOMAIN buf
  BY <1>1, <1>3, SMT
<1> QED BY <1>1, <1>2, <1>4, <1>5, Zenon DEF Heads

LEMMA BodyFrame ==
  ASSUME ClientInv, FrameInv, spawned = 1, 1 \in alive, TakesBody, UNCHANGED pipe
  PROVE  StreamShape(Stream', skip', wrote', got')
<1>1. PICK h \in DOMAIN buf, d \in DOMAIN buf :
        /\ Header(h, d) /\ buf[d].len <= Cap /\ h + buf[d].len <= Len(buf)
        /\ Cut(h + buf[d].len) /\ Dispatches(SubSeq(buf, h + 1, h + buf[d].len))
  BY DEF TakesBody
<1>2. skip = 0 /\ UNCHANGED <<skip, pipe, wrote>>
  BY DEF TakesBody
<1> DEFINE s == Stream
           x == s[h].msg.nth
           l == s[h].len
<1>3. /\ s \in Seq(Chunk) /\ wrote \in Seq(Ways) /\ StreamShape(s, 0, wrote, got) /\ Heads(s, h, d)
      /\ \A i \in DOMAIN buf : s[i] = buf[i] /\ i \in DOMAIN s
      /\ buf \in Seq(Chunk)
  BY <1>1, <1>2, AliveFacts, HeaderHeads
<1> HIDE DEF s
<1>4. /\ s[d].len = l /\ l \in Nat /\ BodyTo(s, h + 1, h + l, s[h])
      /\ x \in DOMAIN wrote /\ wrote[x] # "line"
      /\ \A i \in 1..h : s[i].msg.nth = x \/ (s[i].msg.nth < x /\ wrote[s[i].msg.nth] = "line")
  BY <1>3, HeadFacts
<1>5. buf[d].len = l
  BY <1>3, <1>4
<1>6. /\ h + 1 <= h + l /\ h + l <= Len(buf) /\ Begins(s, h + l + 1, x)
      /\ \A j \in (h + 1)..(h + l) : s[j] = [s[h] EXCEPT !.part = "body"]
  BY <1>1, <1>4, <1>5 DEF BodyTo
<1>7. \A j \in (h + 1)..(h + l) : s[j].part = "body" /\ s[j].msg = s[h].msg /\ s[j].len = l /\ j \in DOMAIN buf
  <2> DEFINE c == [s[h] EXCEPT !.part = "body"]
  <2>1. s[h] \in Chunk
    BY <1>3 DEF Heads
  <2>2. c.part = "body" /\ c.msg = s[h].msg /\ c.len = l
    BY <2>1, ChunkFields
  <2>3. \A j \in (h + 1)..(h + l) : s[j] = c
    BY <1>6
  <2>4. \A j \in (h + 1)..(h + l) : j \in DOMAIN buf
    BY <1>3, <1>4, <1>6, SMT
  <2> HIDE DEF c
  <2> QED BY <2>2, <2>3, <2>4
<1> DEFINE b == SubSeq(buf, h + 1, h + l)
<1>8. /\ b \in Seq(Chunk) /\ Len(b) = l /\ \A i \in 1..l : b[i] = buf[i + h]
  <2> DEFINE e == h + l
  <2>1. h \in Nat /\ e \in Nat /\ h <= e /\ e - h = l /\ e <= Len(buf)
    BY <1>3, <1>4, <1>6, SMT
  <2>2. b = SubSeq(buf, h + 1, e)
    OBVIOUS
  <2> HIDE DEF b, e, l
  <2>3. b \in Seq(Chunk) /\ Len(b) = e - h /\ \A i \in 1..(e - h) : b[i] = buf[i + h]
    BY <1>3, <2>1, <2>2, SliceFacts
  <2> QED BY <2>1, <2>3
<1>9. 1 \in 1..l
  BY <1>3, <1>4, <1>6, SMT
<1>10. \A i \in 1..l : i + h \in (h + 1)..(h + l)
  BY <1>3, <1>4, SMT
<1> HIDE DEF l, b
<1>11. \A i \in 1..l : b[i].part = "body" /\ b[i].msg = s[h].msg /\ b[i].len = l
  BY <1>3, <1>7, <1>8, <1>10
<1>12. Parses(b) /\ b[1].msg = s[h].msg
  <2>1. DOMAIN b = 1..l
    BY <1>8
  <2>2. b # <<>>
    BY <1>8, <1>9, SMT
  <2>3. \A c \in Range(b) : c.part = "body" /\ c.len = Len(b) /\ c.msg = b[1].msg
    BY <1>8, <1>9, <1>11, <2>1 DEF Range
  <2> QED BY <1>9, <1>11, <2>2, <2>3 DEF Parses
<1>13. s[h].msg.from = 1
  <2>1. h \in DOMAIN s
    BY <1>3 DEF Heads
  <2> QED BY <1>3, <2>1 DEF StreamShape, InOrder
<1>14. \A i \in 1..(h + l) : s[i].msg.nth = x \/ (s[i].msg.nth < x /\ wrote[s[i].msg.nth] = "line" /\ wrote[x] # "line")
  <2> TAKE i \in 1..(h + l)
  <2>1. i \in 1..h \/ i \in (h + 1)..(h + l)
    BY <1>3, <1>4, SMT
  <2> QED BY <1>4, <1>7, <2>1
<1>15. h + l \in 1..Len(buf) /\ h + l \in (h + 1)..(h + l)
  BY <1>3, <1>4, <1>6, SMT
<1>16. Cut(h + l) /\ Dispatches(b) /\ s[h + l].msg.nth = x
  BY <1>1, <1>5, <1>7, <1>15 DEF b
<1> DEFINE k == h + l
<1>17. /\ k \in 1..Len(buf) /\ Cut(k) /\ Begins(s, k + 1, x) /\ s[k].msg.nth = x
       /\ \A i \in 1..k : s[i].msg.nth = x \/ (s[i].msg.nth < x /\ wrote[s[i].msg.nth] = "line" /\ wrote[x] # "line")
  BY <1>6, <1>14, <1>15, <1>16
<1> HIDE DEF k, x
<1>18. b[1].msg.nth = x /\ b[1].msg.from = 1
  BY <1>12, <1>13 DEF x
<1> QED BY <1>2, <1>4, <1>12, <1>16, <1>17, <1>18, TakeFrame DEF s

LEMMA LineFrame ==
  ASSUME ClientInv, FrameInv, spawned = 1, 1 \in alive, TakesLine, UNCHANGED pipe
  PROVE  StreamShape(Stream', skip', wrote', got')
<1>1. PICK l \in DOMAIN buf : First(l, Newline) /\ Cut(l) /\ Dispatches(SubSeq(buf, 1, l))
  BY DEF TakesLine
<1>2. skip = 0 /\ UNCHANGED <<skip, pipe, wrote>> /\ ~HasHeader /\ ~Opens
  BY DEF TakesLine
<1> DEFINE s == Stream
           x == s[1].msg.nth
           b == SubSeq(buf, 1, l)
<1>3. /\ s \in Seq(Chunk) /\ wrote \in Seq(Ways) /\ StreamShape(s, 0, wrote, got)
      /\ \A i \in DOMAIN buf : s[i] = buf[i] /\ i \in DOMAIN s
      /\ buf \in Seq(Chunk)
  BY <1>2, AliveFacts
<1> HIDE DEF s
<1>4. l \in 1..Len(buf) /\ 1 \in DOMAIN buf /\ 1 \in DOMAIN s /\ s[1] = buf[1]
  BY <1>1, <1>3, SMT
<1>5. /\ buf[l].part \in {"line", "end", "open", "rest"}
      /\ \A j \in 1..(l - 1) : buf[j].part \notin {"line", "end", "open", "rest"}
  BY <1>1 DEF First, Newline
<1>6. buf[1].part \in {"line", "piece"}
  <2>1. s[1].part \in {"line", "piece", "open", "head"}
    BY <1>3, <1>4 DEF StreamShape, Started, Begins
  <2>2. buf[1].part # "open"
    BY <1>2, <1>4, SMT DEF Opens
  <2>3. buf[1].part # "head"
    <3> SUFFICES ASSUME buf[1].part = "head" PROVE HasHeader
      BY <1>2
    <3>1. \A j \in 1..(1 - 1) : FALSE
      BY SMT
    <3>2. Header(1, 1)
      BY <1>4, <3>1, SMT DEF Header, First
    <3> QED BY <1>4, <3>2 DEF HasHeader
  <2> QED BY <1>4, <2>1, <2>2, <2>3
<1>7. x \in DOMAIN wrote /\ s[1].msg.from = 1
  BY <1>3, <1>4 DEF StreamShape, InOrder
<1>8. b \in Seq(Chunk) /\ Len(b) = l /\ \A i \in 1..l : b[i] = s[i] /\ i \in DOMAIN buf
  <2>1. l \in 0..Len(buf) /\ \A i \in 1..l : i \in DOMAIN buf
    BY <1>3, <1>4, SMT
  <2>2. b \in Seq(Chunk) /\ Len(b) = l /\ \A i \in 1..l : b[i] = buf[i]
    BY <1>3, <2>1, PrefixFacts
  <2> QED BY <1>3, <2>1, <2>2
<1> HIDE DEF b
<1>9. /\ Parses(b) /\ \A i \in 1..l : s[i].msg = s[1].msg
      /\ Begins(s, l + 1, x)
  <2>1. CASE buf[1].part = "line"
    <3>1. l = 1
      <4>1. l # 1 => 1 \in 1..(l - 1)
        BY <1>4, SMT
      <4> QED BY <1>5, <2>1, <4>1
    <3>2. Begins(s, 1 + 1, x)
      BY <1>3, <1>4, <2>1 DEF StreamShape, Framed
    <3>3. b # <<>> /\ b[1] = s[1] /\ \A c \in Range(b) : c = b[1]
      <4>1. Len(b) = 1 /\ DOMAIN b = {1} /\ b[1] = s[1]
        BY <1>8, <3>1, SMT
      <4> QED BY <4>1 DEF Range
    <3>4. Parses(b)
      BY <1>4, <1>8, <2>1, <3>1, <3>3 DEF Parses
    <3>5. \A i \in 1..l : s[i].msg = s[1].msg
      BY <3>1, SMT
    <3> QED BY <3>1, <3>2, <3>4, <3>5
  <2>2. CASE buf[1].part = "piece"
    <3>1. PICK e \in DOMAIN s : LineTo(s, 1, e)
      BY <1>3, <1>4, <2>2 DEF StreamShape, Framed
    <3>2. /\ e \in Nat /\ 1 < e /\ s[e].part = "end" /\ s[e].msg = s[1].msg
          /\ \A j \in 1..(e - 1) : s[j].part = "piece" /\ s[j].msg = s[1].msg
          /\ Begins(s, e + 1, x)
      BY <1>3, <3>1, SMT DEF LineTo
    <3>3. ~(l < e)
      <4>1. l < e => l \in 1..(e - 1)
        BY <1>4, <3>2, SMT
      <4>2. s[l] = buf[l]
        BY <1>3, <1>4
      <4> QED BY <1>5, <3>2, <4>1, <4>2
    <3>4. ~(e < l)
      <4> SUFFICES ASSUME e < l PROVE FALSE
        OBVIOUS
      <4>1. e \in 1..(l - 1) /\ e \in 1..l
        BY <1>4, <3>2, SMT
      <4>2. s[e] = buf[e]
        BY <1>3, <1>8, <4>1
      <4> QED BY <1>5, <3>2, <4>1, <4>2
    <3>5. e = l
      BY <1>4, <3>2, <3>3, <3>4, SMT
    <3>6. \A i \in 1..l : s[i].msg = s[1].msg
      <4> TAKE i \in 1..l
      <4>1. i = e \/ i \in 1..(e - 1)
        BY <1>4, <3>2, <3>5, SMT
      <4> QED BY <3>2, <4>1
    <3>7. Parses(b)
      <4>1. Len(b) > 1 /\ b # <<>> /\ b[1] = s[1] /\ b[l] = s[l] /\ DOMAIN b = 1..l
        BY <1>4, <1>8, <3>2, <3>5, SMT
      <4>2. Last(b) = s[l]
        BY <1>8, <4>1 DEF Last
      <4>3. \A c \in Range(b) : c.msg = b[1].msg
        BY <1>8, <3>6, <4>1 DEF Range
      <4> QED BY <1>4, <2>2, <3>2, <3>5, <4>1, <4>2, <4>3 DEF Parses
    <3> QED BY <3>2, <3>5, <3>6, <3>7
  <2> QED BY <1>6, <2>1, <2>2
<1>10. b[1].msg.nth = x /\ b[1].msg.from = 1 /\ s[l].msg.nth = x
  BY <1>4, <1>7, <1>8, <1>9, SMT
<1>11. \A i \in 1..l : s[i].msg.nth = x
  BY <1>9
<1>12. Cut(l) /\ Dispatches(b)
  BY <1>1 DEF b
<1> HIDE DEF x
<1> QED BY <1>2, <1>4, <1>7, <1>9, <1>10, <1>11, <1>12, TakeFrame DEF s

(* Every round keeps the invariant. *)
LEMMA DrainFrame ==
  ASSUME ClientInv, FrameInv, Drain
  PROVE  FrameInv'
<1>0. ConnType /\ WireType /\ ReadType /\ ChildShape
  BY InvParts DEF ConnShape
<1>1. UNCHANGED <<pipe, spawned, closed, sent, child>>
  BY DEF Drain, connVars
<1>2. CASE 1 \notin alive
  <2>1. buf = <<>> /\ skip = 0 /\ spawned = 0 =>
          buf' = <<>> /\ skip' = 0 /\ UNCHANGED <<wrote, got>>
    <3> SUFFICES ASSUME buf = <<>>, skip = 0, spawned = 0
                 PROVE  buf' = <<>> /\ skip' = 0 /\ UNCHANGED <<wrote, got>>
      OBVIOUS
    <3>1. DOMAIN buf = {} /\ Len(buf) = 0
      BY SMT
    <3>2. ~Discards /\ ~Refuses /\ ~TakesBody /\ ~TakesLine
      BY <3>1 DEF Discards, Refuses, TakesBody, TakesLine
    <3>3. ~Overflows
      BY <3>1, SMT, ClientConfig DEF Overflows, MayOutgrow, HasHeader
    <3> QED BY <3>2, <3>3 DEF Drain, Holds
  <2>2. alive' \subseteq alive
    BY DEF Drain, Discards, Refuses, TakesBody, TakesLine, Holds, Overflows, Kills
  <2>3. \A i, j \in DOMAIN got' : i < j => got'[i] < got'[j]
    <3>1. got' = got \/ got' = <<>>
      <4>1. ASSUME NEW b, Dispatches(b), got' # got PROVE FALSE
        <5>1. Parses(b) /\ Routes(b[1].msg) /\ 1 \in alive /\ b[1].msg.from = 1
          BY <4>1 DEF Dispatches, Routes
        <5> QED BY <1>2, <5>1
      <4> QED BY <4>1 DEF Drain, Discards, Refuses, TakesBody, TakesLine, Holds, Overflows, Kills
    <3>2. DOMAIN <<>> = {}
      OBVIOUS
    <3> QED BY <3>1, <3>2 DEF FrameInv
  <2> QED BY <1>1, <1>2, <2>1, <2>2, <2>3 DEF FrameInv
<1>3. CASE 1 \in alive
  <2>1. ~closed /\ child = 1 /\ spawned = 1
    <3>1. ~closed
      BY <1>3 DEF FrameInv
    <3> QED BY <1>0, <1>3, <3>1, SMT DEF ChildShape, ConnType, NoKid
  <2>2. CASE Overflows
    <3>1. 1 \notin alive' /\ wrote' = <<>> /\ got' = <<>>
      BY <2>1, <2>2 DEF Overflows, Kills
    <3>2. alive' \subseteq alive /\ DOMAIN <<>> = {}
      BY <2>2 DEF Overflows, Kills
    <3> QED BY <1>1, <2>1, <3>1, <3>2 DEF FrameInv
  <2>3. CASE ~Overflows
    <3>1. UNCHANGED <<alive, wrote>>
      BY <2>3 DEF Drain, Discards, Refuses, TakesBody, TakesLine, Holds
    <3>2. StreamShape(Stream', skip', wrote', got')
      <4>1. CASE TakesBody
        BY <1>1, <1>3, <2>1, <4>1, BodyFrame
      <4>2. CASE TakesLine
        BY <1>1, <1>3, <2>1, <4>2, LineFrame
      <4>3. CASE Refuses
        <5>1. PICK h \in DOMAIN buf, d \in DOMAIN buf :
                Header(h, d) /\ buf[d].len > Cap /\ Cut(h) /\ skip' = buf[d].len
          BY <4>3 DEF Refuses
        <5>2. skip = 0 /\ UNCHANGED <<wrote, got>>
          BY <4>3 DEF Refuses
        <5> DEFINE s == Stream
        <5>3. /\ s \in Seq(Chunk) /\ wrote \in Seq(Ways) /\ got \in Seq(1..MaxSent)
              /\ StreamShape(s, 0, wrote, got) /\ Heads(s, h, d) /\ s[d] = buf[d]
          BY <1>3, <2>1, <5>1, <5>2, AliveFacts, HeaderHeads
        <5>4. Stream' = Drop(s, h)
          <6>1. h \in 0..Len(buf)
            BY <1>3, <2>1, AliveFacts, SMT
          <6> QED BY <1>1, <1>3, <2>1, <5>1, <6>1, AliveFacts, StreamFacts DEF Cut, Stream
        <5> HIDE DEF s
        <5>5. StreamShape(Drop(s, h), s[d].len, wrote, got)
          BY <5>1, <5>3, RefuseShape
        <5> QED BY <5>1, <5>2, <5>3, <5>4, <5>5
      <4>4. CASE Discards
        <5> DEFINE eat == IF skip < Len(buf) THEN skip ELSE Len(buf)
        <5>1. skip > 0 /\ skip' = skip - eat /\ Cut(eat) /\ UNCHANGED <<wrote, got>>
          BY <4>4 DEF Discards
        <5> DEFINE s == Stream
        <5>2. /\ s \in Seq(Chunk) /\ wrote \in Seq(Ways) /\ got \in Seq(1..MaxSent)
              /\ StreamShape(s, skip, wrote, got) /\ buf \in Seq(Chunk) /\ pipe[1] \in Seq(Chunk)
          BY <1>3, <2>1, AliveFacts
        <5>3. skip \in Nat \ {0} /\ eat \in 0..Len(buf) /\ eat \in 0..skip
          BY <1>0, <5>1, <5>2, SMT DEF ReadType
        <5> HIDE DEF eat
        <5>4. Stream' = Drop(s, eat)
          BY <1>1, <5>1, <5>2, <5>3, StreamFacts DEF Cut, Stream
        <5> HIDE DEF s
        <5>5. CASE eat = 0
          <6>1. Drop(s, 0) = s
            BY <5>2, SMT DEF Drop
          <6>2. skip' = skip
            BY <5>1, <5>3, <5>5, SMT
          <6> QED BY <5>1, <5>2, <5>4, <5>5, <6>1, <6>2
        <5>6. CASE eat # 0
          <6>1. eat \in 1..skip
            BY <5>3, <5>6, SMT
          <6>2. StreamShape(Drop(s, eat), skip - eat, wrote, got)
            BY <5>2, <5>3, <6>1, SkipShape
          <6> QED BY <5>1, <5>4, <6>2
        <5> QED BY <5>5, <5>6
      <4>5. CASE Holds /\ skip' = skip
        <5>1. UNCHANGED <<buf, wrote, got>>
          BY <4>5 DEF Holds
        <5>2. skip' = skip
          BY <4>5
        <5>3. StreamShape(Stream, skip, wrote, got)
          BY <1>3, <2>1, AliveFacts
        <5> QED BY <1>1, <5>1, <5>2, <5>3 DEF Stream
      <4> QED BY <2>3, <4>1, <4>2, <4>3, <4>4, <4>5 DEF Drain
    <3>3. \A i, j \in DOMAIN got' : i < j => got'[i] < got'[j]
      BY <3>2 DEF StreamShape, Accounted
    <3>4. Len(wrote) = sent[1]
      BY <1>3, <2>1 DEF FrameInv
    <3> QED BY <1>1, <2>1, <3>1, <3>2, <3>3, <3>4 DEF FrameInv
  <2> QED BY <2>2, <2>3
<1> QED BY <1>2, <1>3

-----------------------------------------------------------------------------
(* The child writes a message behind the stream.                           *)

(* What a message consists of, chunk by chunk. *)
HeadAt(form) == IF form = "split" THEN 2 ELSE 1
Shaped(c, m, form, n) ==
  /\ c \in Seq(Chunk) /\ Len(c) > 0 /\ c[1].part \in {"line", "piece", "open", "head"}
  /\ \A i \in DOMAIN c : c[i].msg = m
  /\ form = "line" => Len(c) = 1 /\ c[1].part = "line"
  /\ form \in {"pieces", "endless"} =>
       /\ Len(c) > 1 /\ c[Len(c)].part = "end"
       /\ \A i \in 1..(Len(c) - 1) : c[i].part = "piece"
  /\ form \in {"framed", "split"} =>
       /\ Len(c) = HeadAt(form) + n /\ \A i \in DOMAIN c : c[i].len = n
       /\ c[HeadAt(form)].part = IF form = "split" THEN "rest" ELSE "head"
       /\ form = "split" => c[1].part = "open"
       /\ \A i \in (HeadAt(form) + 1)..(HeadAt(form) + n) : c[i].part = "body"

LEMMA ChunksShape ==
  ASSUME NEW m \in Msg, NEW n \in {1, Cap, Cap + 1},
         NEW form \in {"line", "pieces", "endless", "framed", "split"}
  PROVE  Shaped(Chunks(m, form, n), m, form, n)
<1> DEFINE c == Chunks(m, form, n)
<1>1. c \in Seq(Chunk) /\ \A i \in DOMAIN c : c[i].msg = m
  <2>1. c \in Seq(Chunk) /\ \A e \in Range(c) : e.msg = m
    BY ChunksFacts
  <2> HIDE DEF c
  <2> QED BY <2>1 DEF Range
<1>2. n \in Nat /\ n > 0 /\ Cap \in Nat
  BY SMT, ClientConfig
<1> DEFINE end == ChunkOf("end", m, 0)
           piece == ChunkOf("piece", m, 0)
           body == ChunkOf("body", m, n)
           line == ChunkOf("line", m, 0)
           head == ChunkOf("head", m, n)
           open == ChunkOf("open", m, n)
           rest == ChunkOf("rest", m, n)
<1>3. /\ end.part = "end" /\ piece.part = "piece" /\ line.part = "line"
      /\ body.part = "body" /\ body.len = n /\ head.part = "head" /\ head.len = n
      /\ open.part = "open" /\ open.len = n /\ rest.part = "rest" /\ rest.len = n
  BY DEF ChunkOf
<1> HIDE DEF end, piece, body, line, head, open, rest
<1>4. CASE form = "line"
  <2>1. c = <<line>>
    BY <1>4 DEF Chunks, line
  <2> HIDE DEF c
  <2>2. Len(c) = 1 /\ c[1] = line
    BY <2>1, SMT
  <2> QED BY <1>1, <1>3, <1>4, <2>2 DEF c, Shaped
<1>5. CASE form = "pieces"
  <2>1. c = <<piece>> \o <<end>>
    BY <1>5 DEF Chunks, piece, end
  <2> HIDE DEF c
  <2>2. piece \in Chunk /\ end \in Chunk
    <3>1. 0 \in 0..(Cap + 1)
      BY SMT, ClientConfig
    <3> QED BY <3>1 DEF piece, end, ChunkOf, Chunk
  <2>3. Len(c) = 2 /\ c[1] = piece /\ c[2] = end
    <3> DEFINE a == <<piece>>
               b == <<end>>
    <3>1. a \in Seq(Chunk) /\ Len(a) = 1 /\ a[1] = piece /\ b \in Seq(Chunk) /\ Len(b) = 1 /\ b[1] = end
      BY <2>2, SMT
    <3>2. c = a \o b
      BY <2>1
    <3> HIDE DEF a, b
    <3>3. Len(c) = Len(a) + Len(b) /\ (\A i \in 1..Len(a) : c[i] = a[i]) /\ (\A i \in 1..Len(b) : c[Len(a) + i] = b[i])
      <4>1. \A u, v \in Seq(Chunk) : /\ Len(u \o v) = Len(u) + Len(v)
                                     /\ \A i \in 1..Len(u) : (u \o v)[i] = u[i]
                                     /\ \A i \in 1..Len(v) : (u \o v)[Len(u) + i] = v[i]
        BY SMT
      <4> QED BY <3>1, <3>2, <4>1
    <3>4. 1 \in 1..Len(a) /\ 1 \in 1..Len(b) /\ Len(a) + 1 = 2
      BY <3>1, SMT
    <3> QED BY <3>1, <3>3, <3>4, SMT
  <2>4. Len(c) > 1 /\ Len(c) > 0 /\ \A i \in 1..(Len(c) - 1) : c[i].part = "piece"
    BY <1>3, <2>3, SMT
  <2> QED BY <1>1, <1>3, <1>5, <2>3, <2>4 DEF c, Shaped
<1>6. CASE form = "endless"
  <2>1. c = Times(Cap + 1, piece) \o <<end>>
    BY <1>6 DEF Chunks, piece, end
  <2>2. Len(c) = Cap + 2 /\ c[Cap + 2] = end /\ \A i \in 1..(Cap + 1) : c[i] = piece
    BY <1>2, <2>1, SMT DEF Times
  <2> HIDE DEF c
  <2>3. Len(c) > 1 /\ Len(c) > 0 /\ 1 \in 1..(Cap + 1) /\ \A i \in 1..(Len(c) - 1) : c[i].part = "piece"
    BY <1>2, <1>3, <2>2, SMT
  <2> QED BY <1>1, <1>3, <1>6, <2>2, <2>3 DEF c, Shaped
<1>7. CASE form = "framed"
  <2>1. c = <<head>> \o Times(n, body)
    BY <1>7 DEF Chunks, head, body
  <2>2. Len(c) = 1 + n /\ c[1] = head /\ \A i \in 2..(1 + n) : c[i] = body
    BY <1>2, <2>1, SMT DEF Times
  <2> HIDE DEF c
  <2>3. DOMAIN c = 1..(1 + n) /\ Len(c) > 0 /\ \A i \in 1..(1 + n) : i = 1 \/ i \in 2..(1 + n)
    BY <1>1, <1>2, <2>2, SMT DEF c
  <2>4. /\ \A i \in DOMAIN c : c[i].len = n
        /\ \A i \in (1 + 1)..(1 + n) : c[i].part = "body"
    BY <1>3, <2>2, <2>3
  <2> QED BY <1>1, <1>3, <1>7, <2>2, <2>3, <2>4 DEF c, Shaped, HeadAt
<1>8. CASE form = "split"
  <2>1. c = <<open, rest>> \o Times(n, body)
    BY <1>8 DEF Chunks, open, rest, body
  <2>2. Len(c) = 2 + n /\ c[1] = open /\ c[2] = rest /\ \A i \in 3..(2 + n) : c[i] = body
    BY <1>2, <2>1, SMT DEF Times
  <2> HIDE DEF c
  <2>3. DOMAIN c = 1..(2 + n) /\ Len(c) > 0 /\ \A i \in 1..(2 + n) : i = 1 \/ i = 2 \/ i \in 3..(2 + n)
    BY <1>1, <1>2, <2>2, SMT DEF c
  <2>4. /\ \A i \in DOMAIN c : c[i].len = n
        /\ \A i \in (2 + 1)..(2 + n) : c[i].part = "body"
    BY <1>3, <2>2, <2>3
  <2> QED BY <1>1, <1>3, <1>8, <2>2, <2>3, <2>4 DEF c, Shaped, HeadAt
<1> QED BY <1>4, <1>5, <1>6, <1>7, <1>8

LEMMA ChunksFramed ==
  ASSUME NEW m \in Msg, NEW n \in {1, Cap, Cap + 1},
         NEW form \in {"line", "pieces", "endless", "framed", "split"}
  PROVE  Framed(Chunks(m, form, n))
<1> DEFINE c == Chunks(m, form, n)
           head == HeadAt(form)
<1>1. /\ c \in Seq(Chunk) /\ Len(c) > 0
      /\ \A i \in DOMAIN c : c[i].msg = m
      /\ form = "line" => Len(c) = 1 /\ c[1].part = "line"
      /\ form \in {"pieces", "endless"} =>
           /\ Len(c) > 1 /\ c[Len(c)].part = "end"
           /\ \A i \in 1..(Len(c) - 1) : c[i].part = "piece"
      /\ form \in {"framed", "split"} =>
           /\ Len(c) = head + n /\ \A i \in DOMAIN c : c[i].len = n
           /\ c[head].part = IF form = "split" THEN "rest" ELSE "head"
           /\ form = "split" => c[1].part = "open"
           /\ \A i \in (head + 1)..(head + n) : c[i].part = "body"
  <2>1. Shaped(c, m, form, n)
    BY ChunksShape
  <2> HIDE DEF c
  <2> QED BY <2>1 DEF Shaped
<1>2. n \in Nat /\ n > 0 /\ head \in {1, 2} /\ (head = 2 <=> form = "split")
  BY SMT, ClientConfig DEF HeadAt
<1> HIDE DEF c, head
<1>3. \A k, v : k > Len(c) => (k \in Nat => Begins(c, k, v))
  BY <1>1, SMT DEF Begins
<1> SUFFICES ASSUME NEW i \in DOMAIN c
             PROVE  /\ c[i].part = "line" => Begins(c, i + 1, c[i].msg.nth)
                    /\ c[i].part = "piece" => \E e \in DOMAIN c : LineTo(c, i, e)
                    /\ c[i].part = "open" => i + 1 \in DOMAIN c /\ c[i + 1] = [c[i] EXCEPT !.part = "rest"]
                    /\ c[i].part = "rest" => i - 1 \in DOMAIN c /\ c[i - 1] = [c[i] EXCEPT !.part = "open"]
                    /\ c[i].part \in Headers => BodyTo(c, i + 1, i + c[i].len, c[i])
  BY DEF Framed, c
<1>4. i \in 1..Len(c) /\ Len(c) \in Nat
  BY <1>1
<1>5. CASE form = "line"
  <2>1. c[i].part = "line" /\ i + 1 > Len(c) /\ i + 1 \in Nat
    <3>1. i = 1 /\ Len(c) = 1
      BY <1>1, <1>4, <1>5, SMT
    <3> QED BY <1>1, <1>5, <3>1, SMT
  <2> QED BY <1>3, <2>1 DEF Headers
<1>6. CASE form \in {"pieces", "endless"}
  <2>1. c[i].part \in {"piece", "end"}
    <3>1. i = Len(c) \/ i \in 1..(Len(c) - 1)
      BY <1>4, SMT
    <3> QED BY <1>1, <1>6, <3>1
  <2>2. ASSUME c[i].part = "piece" PROVE LineTo(c, i, Len(c)) /\ Len(c) \in DOMAIN c
    <3>1. i < Len(c) /\ Len(c) \in DOMAIN c
      <4>1. i # Len(c)
        BY <1>1, <1>6, <2>2
      <4> QED BY <1>1, <1>4, <4>1, SMT
    <3>2. \A j \in i..(Len(c) - 1) : j \in 1..(Len(c) - 1) /\ j \in DOMAIN c
      BY <1>1, <1>4, SMT
    <3>3. Len(c) + 1 > Len(c) /\ Len(c) + 1 \in Nat
      BY <1>4, SMT
    <3> QED BY <1>1, <1>3, <1>6, <3>1, <3>2, <3>3 DEF LineTo
  <2> QED BY <2>1, <2>2 DEF Headers
<1>7. CASE form \in {"framed", "split"}
  <2>1. /\ Len(c) = head + n /\ \A j \in DOMAIN c : c[j].len = n
        /\ c[head].part = IF form = "split" THEN "rest" ELSE "head"
        /\ form = "split" => c[1].part = "open"
        /\ \A j \in (head + 1)..(head + n) : c[j].part = "body"
    BY <1>1, <1>7
  <2>2. \A j \in DOMAIN c : c[j] = [part |-> c[j].part, msg |-> m, len |-> n]
    <3> TAKE j \in DOMAIN c
    <3>1. c[j] \in Chunk /\ c[j].msg = m /\ c[j].len = n
      BY <1>1, <2>1
    <3> QED BY <3>1 DEF Chunk
  <2>3. i = head \/ i \in (head + 1)..(head + n) \/ (head = 2 /\ i = 1)
    BY <1>2, <1>4, <2>1, SMT
  <2>4. CASE i = head
    <3>1. BodyTo(c, i + 1, i + n, c[i])
      <4>1. i + 1 <= i + n /\ i + n <= Len(c) /\ i + n + 1 > Len(c) /\ i + n + 1 \in Nat
        BY <1>2, <1>4, <2>1, <2>4, SMT
      <4>2. \A j \in (i + 1)..(i + n) : c[j] = [c[i] EXCEPT !.part = "body"]
        <5> TAKE j \in (i + 1)..(i + n)
        <5>1. j \in DOMAIN c /\ j \in (head + 1)..(head + n)
          BY <1>1, <1>2, <1>4, <2>1, <2>4, SMT
        <5>2. c[j] = [part |-> "body", msg |-> m, len |-> n] /\ c[i] = [part |-> c[i].part, msg |-> m, len |-> n]
          BY <2>1, <2>2, <5>1
        <5> QED BY <5>2
      <4> QED BY <1>3, <4>1, <4>2 DEF BodyTo
    <3>2. c[i].part = "rest" => i - 1 \in DOMAIN c /\ c[i - 1] = [c[i] EXCEPT !.part = "open"]
      <4> SUFFICES ASSUME form = "split"
                   PROVE  i - 1 \in DOMAIN c /\ c[i - 1] = [c[i] EXCEPT !.part = "open"]
        BY <2>1, <2>4
      <4>1. i - 1 = 1 /\ 1 \in DOMAIN c
        BY <1>1, <1>2, <2>4, SMT
      <4>2. c[1] = [part |-> "open", msg |-> m, len |-> n] /\ c[i] = [part |-> c[i].part, msg |-> m, len |-> n]
        BY <2>1, <2>2, <4>1
      <4> QED BY <4>1, <4>2
    <3> QED BY <2>1, <2>4, <3>1, <3>2 DEF Headers
  <2>5. CASE i \in (head + 1)..(head + n)
    BY <2>1, <2>5 DEF Headers
  <2>6. CASE head = 2 /\ i = 1
    <3>1. c[1].part = "open" /\ c[2].part = "rest" /\ 2 \in DOMAIN c /\ 1 \in DOMAIN c /\ i + 1 = 2
      BY <1>1, <1>2, <2>1, <2>6, SMT
    <3>2. c[2] = [part |-> "rest", msg |-> m, len |-> n] /\ c[1] = [part |-> "open", msg |-> m, len |-> n]
      BY <2>2, <3>1
    <3> QED BY <2>6, <3>1, <3>2 DEF Headers
  <2> QED BY <2>3, <2>4, <2>5, <2>6
<1> QED BY <1>5, <1>6, <1>7

(* What is begun and framed stays so when another message comes behind. *)
LEMMA FramedAfter ==
  ASSUME NEW s \in Seq(Chunk), NEW c \in Seq(Chunk), Framed(s), Framed(c), Len(c) > 0,
         c[1].part \in {"line", "piece", "open", "head"},
         \A i \in DOMAIN s : s[i].msg.nth < c[1].msg.nth
  PROVE  Framed(s \o c)
<1> DEFINE u == s \o c
<1>1. /\ u \in Seq(Chunk) /\ Len(u) = Len(s) + Len(c)
      /\ \A i \in 1..Len(s) : u[i] = s[i]
      /\ \A i \in 1..Len(c) : u[Len(s) + i] = c[i]
  BY SMT
<1> HIDE DEF u
<1>2. /\ Len(s) \in Nat /\ Len(c) \in Nat /\ DOMAIN s = 1..Len(s) /\ DOMAIN c = 1..Len(c) /\ DOMAIN u = 1..Len(u)
  BY <1>1, SMT
<1>3. 1 \in DOMAIN c /\ u[Len(s) + 1] = c[1] /\ Len(s) + 1 \in DOMAIN u
  BY <1>1, <1>2, SMT
<1>4. ASSUME NEW i \in DOMAIN s, NEW e \in 1..(Len(s) + 1), Begins(s, e, s[i].msg.nth)
      PROVE  Begins(u, e, s[i].msg.nth)
  <2>1. CASE e \in DOMAIN s
    BY <1>1, <1>2, <1>4, <2>1 DEF Begins
  <2>2. CASE e = Len(s) + 1
    <3>1. s[i] \in Chunk /\ c[1] \in Chunk
      BY <1>3
    <3>2. c[1].msg.nth > s[i].msg.nth
      <4>1. s[i].msg.nth \in Nat /\ c[1].msg.nth \in Nat
        BY <3>1, ChunkFields, SMT
      <4> QED BY <4>1, SMT
    <3> QED BY <1>3, <2>2, <3>2 DEF Begins
  <2>3. e \in DOMAIN s \/ e = Len(s) + 1
    BY <1>2, SMT
  <2> QED BY <2>1, <2>2, <2>3
<1>5. ASSUME NEW e \in Nat \ {0}, NEW v, Begins(c, e, v) PROVE Begins(u, Len(s) + e, v)
  <2> SUFFICES ASSUME Len(s) + e \in DOMAIN u PROVE Begins(u, Len(s) + e, v)
    BY DEF Begins
  <2>1. e \in 1..Len(c)
    BY <1>1, <1>2, SMT
  <2> QED BY <1>1, <1>2, <1>5, <2>1 DEF Begins
<1> DEFINE At(i) ==
      /\ u[i].part = "line" => Begins(u, i + 1, u[i].msg.nth)
      /\ u[i].part = "piece" => \E e \in DOMAIN u : LineTo(u, i, e)
      /\ u[i].part = "open" => i + 1 \in DOMAIN u /\ u[i + 1] = [u[i] EXCEPT !.part = "rest"]
      /\ u[i].part = "rest" => i - 1 \in DOMAIN u /\ u[i - 1] = [u[i] EXCEPT !.part = "open"]
      /\ u[i].part \in Headers => BodyTo(u, i + 1, i + u[i].len, u[i])
<1>6. ASSUME NEW i \in DOMAIN s PROVE At(i)
  <2>1. /\ s[i].part = "line" => Begins(s, i + 1, s[i].msg.nth)
        /\ s[i].part = "piece" => \E e \in DOMAIN s : LineTo(s, i, e)
        /\ s[i].part = "open" => i + 1 \in DOMAIN s /\ s[i + 1] = [s[i] EXCEPT !.part = "rest"]
        /\ s[i].part = "rest" => i - 1 \in DOMAIN s /\ s[i - 1] = [s[i] EXCEPT !.part = "open"]
        /\ s[i].part \in Headers => BodyTo(s, i + 1, i + s[i].len, s[i])
    BY DEF Framed
  <2>2. u[i] = s[i] /\ i + 1 \in 1..(Len(s) + 1) /\ s[i] \in Chunk /\ s[i].len \in Nat /\ i \in Nat
    <3>1. s[i] \in Chunk
      OBVIOUS
    <3>2. s[i].len \in Nat
      BY <3>1, ChunkFields, SMT, ClientConfig
    <3> QED BY <1>1, <1>2, <3>1, <3>2, SMT
  <2>3. \A j \in DOMAIN s : u[j] = s[j] /\ j \in DOMAIN u
    BY <1>1, <1>2, SMT
  <2>4. ASSUME NEW e \in DOMAIN s, LineTo(s, i, e) PROVE LineTo(u, i, e)
    <3>1. \A j \in i..(e - 1) : j \in DOMAIN s
      BY <1>2, SMT
    <3>2. e + 1 \in 1..(Len(s) + 1)
      BY <1>2, SMT
    <3> QED BY <1>4, <2>2, <2>3, <2>4, <3>1, <3>2 DEF LineTo
  <2>5. ASSUME s[i].part \in Headers PROVE BodyTo(u, i + 1, i + s[i].len, s[i])
    <3> DEFINE e == i + s[i].len
    <3>1. BodyTo(s, i + 1, e, s[i]) /\ e \in Nat
      BY <2>1, <2>2, <2>5, SMT
    <3> HIDE DEF e
    <3>2. /\ i + 1 <= e /\ e <= Len(s) /\ Begins(s, e + 1, s[i].msg.nth)
          /\ \A j \in (i + 1)..e : s[j] = [s[i] EXCEPT !.part = "body"]
      BY <3>1 DEF BodyTo
    <3>3. e \in 1..Len(s) /\ e + 1 \in 1..(Len(s) + 1) /\ e <= Len(u) /\ \A j \in (i + 1)..e : j \in DOMAIN s
      BY <1>1, <1>2, <2>2, <3>1, <3>2, SMT
    <3>4. Begins(u, e + 1, s[i].msg.nth)
      BY <1>4, <3>2, <3>3
    <3>5. BodyTo(u, i + 1, e, s[i])
      BY <2>3, <3>2, <3>3, <3>4 DEF BodyTo
    <3> QED BY <3>5 DEF e
  <2> QED BY <1>4, <2>1, <2>2, <2>3, <2>4, <2>5
<1>7. ASSUME NEW i \in DOMAIN c PROVE At(Len(s) + i)
  <2> DEFINE k == Len(s) + i
  <2>1. /\ c[i].part = "line" => Begins(c, i + 1, c[i].msg.nth)
        /\ c[i].part = "piece" => \E e \in DOMAIN c : LineTo(c, i, e)
        /\ c[i].part = "open" => i + 1 \in DOMAIN c /\ c[i + 1] = [c[i] EXCEPT !.part = "rest"]
        /\ c[i].part = "rest" => i - 1 \in DOMAIN c /\ c[i - 1] = [c[i] EXCEPT !.part = "open"]
        /\ c[i].part \in Headers => BodyTo(c, i + 1, i + c[i].len, c[i])
    BY DEF Framed
  <2>2. /\ u[k] = c[i] /\ k + 1 = Len(s) + (i + 1) /\ k - 1 = Len(s) + (i - 1) /\ k \in Nat
        /\ i \in Nat /\ i + 1 \in Nat \ {0} /\ c[i].len \in Nat
    <3>1. c[i] \in Chunk
      OBVIOUS
    <3>2. c[i].len \in Nat
      BY <3>1, ChunkFields, SMT, ClientConfig
    <3>3. u[k] = c[i]
      BY <1>1, <1>2
    <3>4. i \in Nat /\ k + 1 = Len(s) + (i + 1) /\ k - 1 = Len(s) + (i - 1) /\ k \in Nat /\ i + 1 \in Nat \ {0}
      <4>1. i \in Nat /\ i > 0 /\ Len(s) \in Nat
        BY <1>2, SMT
      <4> QED BY <4>1, SMT
    <3> QED BY <3>2, <3>3, <3>4
  <2> HIDE DEF k
  <2>3. \A j \in DOMAIN c : u[Len(s) + j] = c[j] /\ Len(s) + j \in DOMAIN u
    BY <1>1, <1>2, SMT
  <2>4. ASSUME NEW e \in DOMAIN c, LineTo(c, i, e) PROVE LineTo(u, k, Len(s) + e)
    <3>1. i < e /\ c[e].part = "end" /\ c[e].msg = c[i].msg
          /\ (\A j \in i..(e - 1) : c[j].part = "piece" /\ c[j].msg = c[i].msg)
          /\ Begins(c, e + 1, c[i].msg.nth)
      BY <2>4 DEF LineTo
    <3>2. e \in Nat /\ e + 1 \in Nat \ {0} /\ Len(s) + (e + 1) = Len(s) + e + 1 /\ k < Len(s) + e
      BY <1>2, <3>1, SMT DEF k
    <3>3. \A j \in k..(Len(s) + e - 1) : u[j].part = "piece" /\ u[j].msg = c[i].msg
      <4> TAKE j \in k..(Len(s) + e - 1)
      <4>1. j - Len(s) \in i..(e - 1) /\ j - Len(s) \in DOMAIN c /\ Len(s) + (j - Len(s)) = j
        BY <1>2, <3>1, SMT DEF k
      <4> QED BY <2>3, <3>1, <4>1
    <3>4. Begins(u, Len(s) + e + 1, c[i].msg.nth)
      BY <1>5, <3>1, <3>2
    <3>5. u[Len(s) + e] = c[e] /\ u[k] = c[i]
      BY <2>2, <2>3
    <3> DEFINE f == Len(s) + e
    <3>6. /\ k < f /\ u[f].part = "end" /\ u[f].msg = u[k].msg /\ Begins(u, f + 1, u[k].msg.nth)
          /\ \A j \in k..(f - 1) : u[j].part = "piece" /\ u[j].msg = u[k].msg
      BY <3>1, <3>2, <3>3, <3>4, <3>5
    <3> HIDE DEF f
    <3>7. LineTo(u, k, f)
      BY <3>6 DEF LineTo
    <3> QED BY <3>7 DEF f
  <2>5. ASSUME c[i].part \in Headers PROVE BodyTo(u, k + 1, k + c[i].len, c[i])
    <3> DEFINE e == i + c[i].len
    <3>1. BodyTo(c, i + 1, e, c[i]) /\ e \in Nat /\ k + c[i].len = Len(s) + e
      <4>1. BodyTo(c, i + 1, i + c[i].len, c[i])
        BY <2>1, <2>5
      <4>2. Len(s) \in Nat /\ c[i].len \in Nat /\ i \in Nat
        BY <1>2, <2>2
      <4>3. i + c[i].len \in Nat /\ Len(s) + i + c[i].len = Len(s) + (i + c[i].len)
        BY <4>2, SMT
      <4> QED BY <4>1, <4>3 DEF k
    <3> HIDE DEF e
    <3>2. /\ i + 1 <= e /\ e <= Len(c) /\ Begins(c, e + 1, c[i].msg.nth)
          /\ \A j \in (i + 1)..e : c[j] = [c[i] EXCEPT !.part = "body"]
      BY <3>1 DEF BodyTo
    <3>3. e + 1 \in Nat \ {0} /\ Len(s) + (e + 1) = Len(s) + e + 1 /\ k + 1 <= Len(s) + e /\ Len(s) + e <= Len(u)
      <4>1. e \in Nat /\ i + 1 <= e /\ e <= Len(c) /\ Len(s) \in Nat /\ Len(u) = Len(s) + Len(c) /\ i \in Nat
            /\ Len(c) \in Nat
        BY <1>1, <1>2, <2>2, <3>1, <3>2
      <4> QED BY <4>1, SMT DEF k
    <3>4. Begins(u, Len(s) + e + 1, c[i].msg.nth)
      BY <1>5, <3>2, <3>3
    <3>5. \A j \in (k + 1)..(Len(s) + e) : u[j] = [c[i] EXCEPT !.part = "body"]
      <4> TAKE j \in (k + 1)..(Len(s) + e)
      <4>1. j - Len(s) \in (i + 1)..e /\ j - Len(s) \in DOMAIN c /\ Len(s) + (j - Len(s)) = j
        BY <1>2, <3>1, <3>2, SMT DEF k
      <4> QED BY <2>3, <3>2, <4>1
    <3>6. BodyTo(u, k + 1, Len(s) + e, c[i])
      BY <3>3, <3>4, <3>5 DEF BodyTo
    <3> QED BY <3>1, <3>6
  <2>6. At(k)
    BY <1>5, <2>1, <2>2, <2>3, <2>4, <2>5
  <2> QED BY <2>6 DEF k
<1>8. \A i \in DOMAIN u : At(i)
  <2> TAKE i \in DOMAIN u
  <2>1. i \in DOMAIN s \/ (i - Len(s) \in DOMAIN c /\ Len(s) + (i - Len(s)) = i)
    BY <1>1, <1>2, SMT
  <2> HIDE DEF At
  <2> QED BY <1>6, <1>7, <2>1
<1> QED BY <1>8 DEF Framed, u

LEMMA WriteShape ==
  ASSUME NEW s \in Seq(Chunk), NEW w \in Seq(Ways), NEW g \in Seq(1..MaxSent), NEW n \in Nat,
         StreamShape(s, n, w, g), NEW m \in Msg, m.nth = Len(w) + 1, m.from = 1,
         NEW l \in {1, Cap, Cap + 1}, NEW form \in {"line", "pieces", "endless", "framed", "split"}
  PROVE  StreamShape(s \o Chunks(m, form, l), n, Append(w, WayOf(form, l)), g)
<1> DEFINE c == Chunks(m, form, l)
           u == s \o c
           v == Append(w, WayOf(form, l))
           new == Len(w) + 1
<1>1. Shaped(c, m, form, l) /\ Framed(c)
  BY ChunksShape, ChunksFramed
<1>2. WayOf(form, l) \in Ways
  BY SMT DEF WayOf, Ways
<1> HIDE DEF c
<1>3. c \in Seq(Chunk) /\ Len(c) > 0 /\ c[1].part \in {"line", "piece", "open", "head"} /\ \A i \in DOMAIN c : c[i].msg = m
  BY <1>1 DEF Shaped
<1>4. /\ u \in Seq(Chunk) /\ Len(u) = Len(s) + Len(c)
      /\ \A i \in 1..Len(s) : u[i] = s[i]
      /\ \A i \in 1..Len(c) : u[Len(s) + i] = c[i]
  BY <1>3, SMT
<1>5. v \in Seq(Ways) /\ Len(v) = new /\ v[new] = WayOf(form, l) /\ \A j \in DOMAIN w : v[j] = w[j]
  BY <1>2, SMT
<1> HIDE DEF u, v
<1>6. /\ Framed(s) /\ Started(s, n, w) /\ InOrder(s, n, w) /\ Accounted(s, w, g)
  BY DEF StreamShape
<1>7. /\ Len(s) \in Nat /\ Len(c) \in Nat /\ DOMAIN s = 1..Len(s) /\ DOMAIN c = 1..Len(c) /\ DOMAIN u = 1..Len(u)
      /\ new \in Nat /\ new \notin DOMAIN w /\ DOMAIN v = DOMAIN w \cup {new}
      /\ \A j \in DOMAIN w : j \in Nat /\ j < new /\ j + 1 <= new /\ j < Len(v)
      /\ \A j \in DOMAIN w : (j < Len(w) => j + 1 \in DOMAIN w) /\ (~(j < Len(w)) => j + 1 = new)
  BY <1>3, <1>4, <1>5, SMT
(* A chunk of u is one of s, or one of the new message behind it. *)
<1>8. \A i \in DOMAIN u :
        \/ i \in DOMAIN s /\ u[i] = s[i] /\ s[i].msg.nth \in DOMAIN w
        \/ i - Len(s) \in DOMAIN c /\ u[i] = c[i - Len(s)] /\ u[i].msg = m /\ i > Len(s) /\ i \notin DOMAIN s
  <2> TAKE i \in DOMAIN u
  <2>1. CASE i \in DOMAIN s
    BY <1>4, <1>6, <1>7, <2>1 DEF InOrder
  <2>2. CASE i \notin DOMAIN s
    <3>1. i - Len(s) \in 1..Len(c) /\ Len(s) + (i - Len(s)) = i /\ i > Len(s)
      BY <1>4, <1>7, <2>2, SMT
    <3> QED BY <1>3, <1>4, <1>7, <2>2, <3>1
  <2> QED BY <2>1, <2>2
<1>9. /\ \A i \in DOMAIN s : i \in DOMAIN u
      /\ \A i \in DOMAIN c : Len(s) + i \in DOMAIN u /\ u[Len(s) + i] = c[i]
      /\ 1 \in DOMAIN c
  BY <1>3, <1>4, <1>7, SMT
<1>10. Framed(u)
  <2>1. \A i \in DOMAIN s : s[i].msg.nth < c[1].msg.nth
    <3>1. c[1].msg.nth = new
      BY <1>3, <1>9
    <3>2. \A i \in DOMAIN s : s[i].msg.nth \in DOMAIN w
      BY <1>6 DEF InOrder
    <3> HIDE DEF new
    <3> QED BY <1>7, <3>1, <3>2
  <2> QED BY <1>1, <1>3, <1>6, <2>1, FramedAfter DEF u
<1>11. Started(u, n, v)
  <2>1. ASSUME NEW e \in 1..(Len(s) + 1), NEW y \in Nat, y < new, Begins(s, e, y)
        PROVE  Begins(u, e, y)
    <3>1. CASE e \in DOMAIN s
      BY <1>4, <1>7, <2>1, <3>1 DEF Begins
    <3>2. CASE e = Len(s) + 1
      <4>1. u[e] = c[1] /\ c[1].msg.nth = new
        BY <1>3, <1>9, <3>2
      <4>2. new > y
        BY <1>7, <2>1, SMT
      <4> HIDE DEF new
      <4> QED BY <1>3, <4>1, <4>2 DEF Begins
    <3>3. e \in DOMAIN s \/ e = Len(s) + 1
      BY <1>7, SMT
    <3> QED BY <3>1, <3>2, <3>3
  <2>2. CASE n = 0
    <3>1. 1 \in 1..(Len(s) + 1) /\ 0 < new
      BY <1>7, SMT
    <3>2. Begins(u, 1, 0)
      BY <1>6, <2>1, <2>2, <3>1 DEF Started
    <3> QED BY <2>2, <3>2 DEF Started
  <2>3. CASE n > 0
    <3>1. PICK x \in Msg :
            /\ x.nth \in DOMAIN w /\ w[x.nth] = "refused" /\ n <= Len(s)
            /\ \A j \in 1..n : s[j].part = "body" /\ s[j].msg = x
            /\ Begins(s, n + 1, x.nth)
      BY <1>6, <2>3 DEF Started
    <3>2. n + 1 \in 1..(Len(s) + 1) /\ n <= Len(u) /\ \A j \in 1..n : j \in 1..Len(s)
      BY <1>4, <1>7, <3>1, SMT
    <3>3. Begins(u, n + 1, x.nth)
      BY <1>7, <2>1, <3>1, <3>2
    <3>4. v[x.nth] = "refused" /\ x.nth \in DOMAIN v /\ \A j \in 1..n : u[j].part = "body" /\ u[j].msg = x
      BY <1>4, <1>5, <1>7, <3>1, <3>2
    <3> QED BY <2>3, <3>2, <3>3, <3>4 DEF Started
  <2> QED BY <2>2, <2>3, SMT
<1>12. \A j \in DOMAIN w : Here(j, u) <=> Here(j, s)
  <2> TAKE j \in DOMAIN w
  <2>1. j # new
    BY <1>7
  <2>2. Here(j, u) => Here(j, s)
    BY <1>8, <2>1 DEF Here
  <2>3. Here(j, s) => Here(j, u)
    BY <1>4, <1>7, <1>9 DEF Here
  <2> QED BY <2>2, <2>3
<1>13. Here(new, u)
  BY <1>3, <1>9 DEF Here
<1>14. InOrder(u, n, v)
  <2>1. \A i, j \in DOMAIN u : i < j => u[i].msg.nth <= u[j].msg.nth
    <3> SUFFICES ASSUME NEW i \in DOMAIN u, NEW j \in DOMAIN u, i < j PROVE u[i].msg.nth <= u[j].msg.nth
      OBVIOUS
    <3>1. CASE j \in DOMAIN s
      <4>1. i \in DOMAIN s
        BY <1>7, <3>1, SMT
      <4> QED BY <1>6, <1>4, <1>7, <3>1, <4>1 DEF InOrder
    <3>2. CASE j \notin DOMAIN s
      <4>1. u[j].msg.nth = new
        BY <1>8, <3>2
      <4>2. u[i].msg.nth \in DOMAIN w \/ u[i].msg.nth = new
        BY <1>8
      <4>3. new <= new
        BY <1>7, SMT
      <4>4. \A y \in DOMAIN w : y <= new
        BY <1>7, SMT
      <4> HIDE DEF new
      <4> QED BY <4>1, <4>2, <4>3, <4>4
    <3> QED BY <3>1, <3>2
  <2>2. \A i \in DOMAIN u : u[i].msg.from = 1 /\ u[i].msg.nth \in DOMAIN v
    <3> TAKE i \in DOMAIN u
    <3>1. CASE i \in DOMAIN s /\ u[i] = s[i] /\ s[i].msg.nth \in DOMAIN w
      BY <1>6, <1>7, <3>1 DEF InOrder
    <3>2. CASE u[i].msg = m
      BY <1>7, <3>2
    <3> QED BY <1>8, <3>1, <3>2
  <2>3. \A j \in DOMAIN v : Here(j, u) /\ j < Len(v) => Here(j + 1, u)
    <3> SUFFICES ASSUME NEW j \in DOMAIN v, Here(j, u), j < Len(v) PROVE Here(j + 1, u)
      OBVIOUS
    <3>1. j # new
      BY <1>5, <1>7, SMT
    <3>2. j \in DOMAIN w
      BY <1>7, <3>1
    <3>3. Here(j, s)
      BY <1>12, <3>2
    <3> QED BY <1>6, <1>7, <1>12, <1>13, <3>2, <3>3 DEF InOrder
  <2>4. ASSUME NEW i \in DOMAIN u
        PROVE  /\ u[i].part \in {"line", "piece", "end"} <=> v[u[i].msg.nth] = "line"
               /\ u[i].part \in Headers => (u[i].len > Cap <=> v[u[i].msg.nth] = "refused")
               /\ u[i].part = "body" /\ i > n =>
                    \E j \in DOMAIN u : u[j].part \in Headers /\ u[j].msg = u[i].msg
    <3>1. CASE i \in DOMAIN s
      <4>1. u[i] = s[i] /\ v[s[i].msg.nth] = w[s[i].msg.nth]
        BY <1>5, <1>8, <3>1
      <4>2. /\ s[i].part \in {"line", "piece", "end"} <=> w[s[i].msg.nth] = "line"
            /\ s[i].part \in Headers => (s[i].len > Cap <=> w[s[i].msg.nth] = "refused")
            /\ s[i].part = "body" /\ i > n =>
                 \E j \in DOMAIN s : s[j].part \in Headers /\ s[j].msg = s[i].msg
        BY <1>6, <3>1, Zenon DEF InOrder
      <4>3. \A j \in DOMAIN s : j \in DOMAIN u /\ u[j] = s[j]
        BY <1>4, <1>7, <1>9
      <4> QED BY <4>1, <4>2, <4>3
    <3>2. CASE i \notin DOMAIN s
      <4> DEFINE k == i - Len(s)
      <4>1. k \in DOMAIN c /\ u[i] = c[k] /\ u[i].msg = m
        BY <1>8, <3>2
      <4> HIDE DEF k
      <4>2. v[u[i].msg.nth] = WayOf(form, l)
        BY <1>5, <4>1
      <4>3. CASE form \in {"line", "pieces", "endless"}
        <5>1. c[k].part \in {"line", "piece", "end"}
          <6>1. k \in 1..Len(c) /\ (k = Len(c) \/ k \in 1..(Len(c) - 1))
            BY <1>7, <4>1, SMT
          <6>2. form = "line" => k = 1
            <7>1. form = "line" => Len(c) = 1
              BY <1>1 DEF Shaped
            <7>2. Len(c) = 1 => k = 1
              BY <6>1, SMT
            <7> QED BY <7>1, <7>2
          <6> QED BY <1>1, <4>3, <6>1, <6>2 DEF Shaped
        <5>2. WayOf(form, l) = "line"
          BY <4>3 DEF WayOf
        <5> QED BY <4>1, <4>2, <5>1, <5>2 DEF Headers
      <4>4. CASE form \in {"framed", "split"}
        <5>1. /\ Len(c) = HeadAt(form) + l /\ \A j \in DOMAIN c : c[j].len = l
              /\ c[HeadAt(form)].part \in Headers
              /\ form = "split" => c[1].part = "open"
              /\ \A j \in (HeadAt(form) + 1)..(HeadAt(form) + l) : c[j].part = "body"
          BY <1>1, <4>4 DEF Shaped, Headers
        <5>2. /\ HeadAt(form) \in {1, 2} /\ (HeadAt(form) = 2 => form = "split") /\ l \in Nat
              /\ HeadAt(form) \in DOMAIN c
          BY <1>7, <5>1, SMT, ClientConfig DEF HeadAt
        <5>3. k = HeadAt(form) \/ k \in (HeadAt(form) + 1)..(HeadAt(form) + l) \/ (form = "split" /\ k = 1)
          BY <1>7, <4>1, <5>1, <5>2, SMT
        <5>4. c[k].part \in {"head", "rest", "body", "open"}
          BY <5>1, <5>3 DEF Headers
        <5>5. WayOf(form, l) = IF l > Cap THEN "refused" ELSE "framed"
          BY <4>4 DEF WayOf
        <5>6. \E j \in DOMAIN u : u[j].part \in Headers /\ u[j].msg = u[i].msg
          <6> DEFINE h == HeadAt(form)
          <6>1. h \in DOMAIN c /\ c[h].part \in Headers
            BY <5>1, <5>2
          <6>2. Len(s) + h \in DOMAIN u /\ u[Len(s) + h] = c[h] /\ c[h].msg = m
            BY <1>3, <1>9, <6>1
          <6> HIDE DEF h
          <6> QED BY <4>1, <6>1, <6>2
        <5>7. c[k].len = l
          BY <4>1, <5>1
        <5> QED BY <4>1, <4>2, <5>4, <5>5, <5>6, <5>7
      <4> QED BY <4>3, <4>4
    <3> QED BY <3>1, <3>2
  <2> QED BY <2>1, <2>2, <2>3, <2>4, Zenon DEF InOrder
<1>15. Accounted(u, v, g)
  <2>1. /\ \A i, j \in DOMAIN g : i < j => g[i] < g[j]
        /\ \A i \in DOMAIN g : g[i] \in DOMAIN w /\ \A j \in DOMAIN s : g[i] < s[j].msg.nth
        /\ \A j \in DOMAIN w : Gone(j, s, g) =>
             \/ w[j] = "refused"
             \/ w[j] = "line" /\ j < Len(w) /\ (w[j + 1] # "line" \/ Gone(j + 1, s, g))
    BY <1>6 DEF Accounted
  <2>2. \A i \in DOMAIN g : g[i] \in DOMAIN v /\ \A j \in DOMAIN u : g[i] < u[j].msg.nth
    <3> TAKE i \in DOMAIN g
    <3>1. g[i] < new /\ g[i] \in DOMAIN v
      BY <1>7, <2>1
    <3>2. \A j \in DOMAIN u : u[j].msg.nth = new \/ (j \in DOMAIN s /\ u[j] = s[j])
      BY <1>8
    <3> HIDE DEF new
    <3> QED BY <2>1, <3>1, <3>2
  <2>3. ASSUME NEW j \in DOMAIN v, Gone(j, u, g)
        PROVE  \/ v[j] = "refused"
               \/ v[j] = "line" /\ j < Len(v) /\ (v[j + 1] # "line" \/ Gone(j + 1, u, g))
    <3>1. j \in DOMAIN w
      BY <1>7, <1>13, <2>3 DEF Gone
    <3>2. Gone(j, s, g)
      BY <1>12, <2>3, <3>1 DEF Gone
    <3>3. v[j] = w[j] /\ j < Len(v)
      BY <1>5, <1>7, <3>1
    <3>4. j < Len(w) => v[j + 1] = w[j + 1] /\ (Gone(j + 1, s, g) => Gone(j + 1, u, g))
      BY <1>5, <1>7, <1>12, <3>1 DEF Gone
    <3> QED BY <2>1, <3>1, <3>2, <3>3, <3>4
  <2> QED BY <2>1, <2>2, <2>3, Zenon DEF Accounted
<1>16. StreamShape(u, n, v, g)
  BY <1>10, <1>11, <1>14, <1>15 DEF StreamShape
<1> QED BY <1>16 DEF u, v, c

-----------------------------------------------------------------------------
(* The other steps.                                                        *)

LEMMA EmptyShape == \A w \in {<<>>}, g \in {<<>>} : StreamShape(<<>>, 0, w, g)
<1>1. DOMAIN <<>> = {} /\ Len(<<>>) = 0 /\ ~(0 > 0) /\ 1 \notin DOMAIN <<>>
  BY SMT
<1> QED BY <1>1 DEF StreamShape, Framed, Started, Begins, InOrder, Accounted

LEMMA WriteFrame ==
  ASSUME ClientInv, FrameInv, NEW k \in Kids, NEW kind \in {"note", "good", "bad"}, NEW i \in {0} \cup heard[k],
         NEW n \in {1, Cap, Cap + 1}, NEW form \in {"line", "pieces", "endless", "framed", "split"},
         Write(k, kind, i, form, n)
  PROVE  FrameInv'
<1> DEFINE m == [from |-> k, nth |-> sent[k] + 1, id |-> i, kind |-> kind]
<1>0. ConnType /\ WireType /\ ReadType /\ ChildShape
  BY InvParts DEF ConnShape
<1>1. /\ sent[1] + sent[2] < MaxSent /\ k \in alive
      /\ sent' = [sent EXCEPT ![k] = @ + 1]
      /\ wrote' = IF k = 1 THEN Append(wrote, WayOf(form, n)) ELSE wrote
      /\ pipe' = [pipe EXCEPT ![k] = @ \o Chunks(m, form, n)]
      /\ UNCHANGED <<spawned, closed, alive, got, buf, skip>>
  BY DEF Write, connVars, readVars
<1>2. ~closed /\ child = k /\ spawned = k
  <2>1. ~closed
    BY <1>1 DEF FrameInv
  <2> QED BY <1>0, <1>1, <2>1, SMT DEF ChildShape, ConnType, NoKid, Kids
<1>3. \A j \in Kids \ {k} : pipe'[j] = pipe[j]
  BY <1>0, <1>1, Zenon DEF WireType
<1>4. \A j \in Kids : j > spawned => pipe'[j] = <<>>
  <2> SUFFICES ASSUME NEW j \in Kids, j > spawned PROVE pipe'[j] = <<>>
    OBVIOUS
  <2>1. j # k
    BY <1>2, SMT DEF Kids
  <2> QED BY <1>3, <2>1 DEF FrameInv
<1>5. spawned # 0
  BY <1>2, SMT DEF Kids
<1>6. CASE k = 2
  BY <1>1, <1>2, <1>4, <1>5, <1>6 DEF FrameInv
<1>7. CASE k = 1
  <2>1. m \in Msg
    <3>1. sent[k] + 1 \in 1..MaxSent
      BY <1>0, <1>1, SMT, ClientConfig DEF WireType, Kids
    <3>2. i \in 0..MaxIds
      <4>1. heard[k] \subseteq Ids
        BY <1>0 DEF WireType
      <4> QED BY <4>1, SMT, ClientConfig DEF Ids
    <3> QED BY <3>1, <3>2, SMT DEF Msg
  <2>2. Len(wrote) = sent[1]
    BY <1>1, <1>2, <1>7 DEF FrameInv
  <2>3. m.nth = Len(wrote) + 1 /\ m.from = 1
    BY <1>7, <2>2
  <2> HIDE DEF m
  <2>4. /\ Stream \in Seq(Chunk) /\ wrote \in Seq(Ways) /\ got \in Seq(1..MaxSent)
        /\ StreamShape(Stream, skip, wrote, got) /\ skip \in Nat
        /\ buf \in Seq(Chunk) /\ pipe[1] \in Seq(Chunk)
    <3>1. skip \in Nat
      BY <1>0, SMT, ClientConfig DEF ReadType
    <3> QED BY <1>1, <1>2, <1>7, <3>1, AliveFacts
  <2> DEFINE c == Chunks(m, form, n)
             s == Stream
  <2>5. StreamShape(s \o c, skip, Append(wrote, WayOf(form, n)), got)
    BY <2>1, <2>3, <2>4, WriteShape
  <2>6. c \in Seq(Chunk)
    BY <2>1, ChunksFacts
  <2>7. pipe'[1] = pipe[1] \o c
    BY <1>0, <1>1, <1>7 DEF WireType
  <2> HIDE DEF c
  <2>8. Stream' = s \o c
    <3>1. \A a, b, e \in Seq(Chunk) : a \o (b \o e) = (a \o b) \o e
      BY SMT
    <3>2. buf \o (pipe[1] \o c) = (buf \o pipe[1]) \o c
      BY <2>4, <2>6, <3>1
    <3>3. Stream' = buf \o (pipe[1] \o c)
      BY <1>1, <2>7, Zenon DEF Stream
    <3> QED BY <3>2, <3>3 DEF s, Stream
  <2> HIDE DEF s
  <2>9. StreamShape(Stream', skip', wrote', got')
    BY <1>1, <1>7, <2>5, <2>8
  <2>10. Len(wrote') = sent'[1]
    BY <1>0, <1>1, <1>7, <2>2, <2>4, SMT DEF WireType, Kids
  <2> QED BY <1>1, <1>4, <1>5, <2>9, <2>10 DEF FrameInv
<1> QED BY <1>6, <1>7 DEF Kids

LEMMA OnDataFrame ==
  ASSUME ClientInv, FrameInv, NEW k \in Kids, OnData(k)
  PROVE  FrameInv'
<1>0. ConnType /\ WireType /\ ReadType /\ ChildShape
  BY InvParts DEF ConnShape
<1>1. PICK n \in 1..Cap :
        /\ n <= Len(pipe[k])
        /\ buf' = buf \o SubSeq(pipe[k], 1, n)
        /\ pipe' = [pipe EXCEPT ![k] = SubSeq(@, n + 1, Len(@))]
  BY DEF OnData
<1>2. UNCHANGED <<spawned, closed, alive, wrote, got, sent, skip>>
  BY DEF OnData, connVars
<1>3. buf \in Seq(Chunk) /\ pipe[k] \in Seq(Chunk) /\ pipe[1] \in Seq(Chunk) /\ spawned \in Nat /\ n \in 1..Len(pipe[k])
  <2>1. buf \in Seq(Chunk) /\ pipe[k] \in Seq(Chunk) /\ pipe[1] \in Seq(Chunk) /\ spawned \in Nat
    BY <1>0, SMT DEF ReadType, WireType, ConnType, Kids
  <2>2. n \in 1..Len(pipe[k])
    BY <1>1, <2>1, SMT, ClientConfig
  <2> QED BY <2>1, <2>2
<1>4. ~(k > spawned)
  <2>1. pipe[k] # <<>>
    BY <1>3, SMT
  <2> QED BY <2>1 DEF FrameInv
<1>5. pipe'[k] = SubSeq(pipe[k], n + 1, Len(pipe[k])) /\ \A j \in Kids \ {k} : pipe'[j] = pipe[j]
  BY <1>0, <1>1 DEF WireType
<1>6. \A j \in Kids : j > spawned => pipe'[j] = <<>>
  BY <1>4, <1>5 DEF FrameInv
<1>7. spawned # 0
  BY <1>3, <1>4, SMT DEF Kids
<1>8. spawned = 1 => Stream' = Stream
  <2> SUFFICES ASSUME spawned = 1 PROVE Stream' = Stream
    OBVIOUS
  <2>1. k = 1
    BY <1>4, SMT DEF Kids
  <2> DEFINE p == pipe[k]
             a == SubSeq(p, 1, n)
             b == SubSeq(p, n + 1, Len(p))
  <2>2. p \in Seq(Chunk) /\ n \in 1..Len(p) /\ n \in 0..Len(p)
    BY <1>3, SMT
  <2> HIDE DEF p
  <2>3. a \in Seq(Chunk) /\ Len(a) = n /\ \A i \in 1..n : a[i] = p[i]
    BY <2>2, PrefixFacts
  <2>4. b \in Seq(Chunk) /\ Len(b) = Len(p) - n /\ \A i \in 1..(Len(p) - n) : b[i] = p[i + n]
    BY <2>2, RangeOfSuffix
  <2> HIDE DEF a, b
  <2>5. a \o b = p
    <3>1. /\ a \o b \in Seq(Chunk) /\ Len(a \o b) = Len(a) + Len(b)
          /\ \A i \in 1..Len(a) : (a \o b)[i] = a[i]
          /\ \A i \in 1..Len(b) : (a \o b)[Len(a) + i] = b[i]
      <4>1. \A u, v \in Seq(Chunk) : /\ u \o v \in Seq(Chunk) /\ Len(u \o v) = Len(u) + Len(v)
                                     /\ \A i \in 1..Len(u) : (u \o v)[i] = u[i]
                                     /\ \A i \in 1..Len(v) : (u \o v)[Len(u) + i] = v[i]
        BY SMT
      <4> QED BY <2>3, <2>4, <4>1
    <3>2. Len(a \o b) = Len(p)
      BY <2>2, <2>3, <2>4, <3>1, SMT
    <3>3. \A i \in 1..Len(a \o b) : (a \o b)[i] = p[i]
      <4> TAKE i \in 1..Len(a \o b)
      <4>1. i \in 1..n \/ (i - n \in 1..(Len(p) - n) /\ n + (i - n) = i /\ (i - n) + n = i)
        BY <2>2, <3>2, SMT
      <4> QED BY <2>3, <2>4, <3>1, <4>1
    <3> QED BY <2>2, <3>1, <3>2, <3>3, SameSeq
  <2>6. (buf \o a) \o b = buf \o (a \o b)
    <3>1. \A x, y, z \in Seq(Chunk) : (x \o y) \o z = x \o (y \o z)
      BY SMT
    <3> QED BY <1>3, <2>3, <2>4, <3>1
  <2> QED BY <1>1, <1>5, <2>1, <2>5, <2>6 DEF Stream, p, a, b
<1> QED BY <1>2, <1>6, <1>7, <1>8 DEF FrameInv

LEMMA QuietFrame ==
  ASSUME FrameInv, UNCHANGED <<pipe, buf, skip, sent>>, closed' => alive' = {},
         spawned' = spawned \/ (spawned = 1 /\ spawned' = 2),
         spawned' = 1 /\ 1 \in alive' => 1 \in alive /\ wrote' = wrote /\ got' = got,
         UNCHANGED <<wrote, got>> \/ (wrote' = <<>> /\ got' = <<>>)
  PROVE  FrameInv'
<1>1. \A k \in Kids : k > spawned' => pipe'[k] = <<>>
  BY SMT DEF FrameInv, Kids
<1>2. spawned' = 0 => buf' = <<>> /\ skip' = 0 /\ wrote' = <<>> /\ got' = <<>>
  BY DEF FrameInv
<1>3. ASSUME spawned' = 1, 1 \in alive'
      PROVE  Len(wrote') = sent'[1] /\ StreamShape(Stream', skip', wrote', got')
  <2>1. spawned = 1 /\ 1 \in alive /\ wrote' = wrote /\ got' = got
    BY <1>3
  <2> QED BY <2>1 DEF FrameInv, Stream
<1>4. \A i, j \in DOMAIN got' : i < j => got'[i] < got'[j]
  <2>1. DOMAIN <<>> = {}
    OBVIOUS
  <2> QED BY <2>1 DEF FrameInv
<1> QED BY <1>1, <1>2, <1>3, <1>4 DEF FrameInv

(* A child that is in use is killed. *)
LEMMA KillsFrame ==
  ASSUME ClientInv, FrameInv, UNCHANGED <<spawned, pipe, buf, skip, sent>>, Kills(child)
  PROVE  FrameInv'
<1>0. ConnType /\ WireType /\ ChildShape
  BY InvParts DEF ConnShape
<1>1. alive' = {}
  <2>1. alive' = alive \ {child}
    BY DEF Kills
  <2>2. closed => alive = {}
    BY DEF FrameInv
  <2>3. ~closed => alive \subseteq {child}
    BY <1>0, Zenon DEF ChildShape
  <2> QED BY <2>1, <2>2, <2>3
<1>2. UNCHANGED <<wrote, got>> \/ (wrote' = <<>> /\ got' = <<>>)
  BY DEF Kills
<1> QED BY <1>1, <1>2, QuietFrame

LEMMA ConnectFrame ==
  ASSUME ClientInv, FrameInv, NEW memo \in BOOLEAN, Connect(memo)
  PROVE  FrameInv'
<1>0. ConnType /\ WireType /\ ChildShape
  BY InvParts DEF ConnShape
<1>1. spawned = 0 /\ ~closed /\ UNCHANGED <<closed, wrote, got, pipe, sent, buf, skip>>
  BY <1>0 DEF Connect, ChildShape, readVars
<1>2. /\ buf = <<>> /\ skip = 0 /\ wrote = <<>> /\ got = <<>> /\ pipe[1] = <<>> /\ pipe[2] = <<>>
  BY <1>1, SMT DEF FrameInv, Kids
<1>3. spawned' \in {0, 1}
  BY <1>1 DEF Connect, Spawns
<1>4. Len(wrote') = sent'[1] /\ StreamShape(Stream', skip', wrote', got')
  <2>1. <<>> \o <<>> = <<>>
    BY SMT
  <2>2. StreamShape(Stream', skip', wrote', got')
    BY <1>1, <1>2, <2>1, EmptyShape DEF Stream
  <2>3. Len(wrote') = sent'[1]
    BY <1>1, <1>2, SMT DEF FrameInv
  <2> QED BY <2>2, <2>3
<1>5. sent'[1] = 0
  BY <1>1 DEF FrameInv
<1>6. \A i, j \in DOMAIN got' : i < j => got'[i] < got'[j]
  BY <1>1 DEF FrameInv
<1> QED BY <1>1, <1>2, <1>3, <1>4, <1>5, <1>6, SMT DEF FrameInv, Kids

LEMMA ShakeFrame ==
  ASSUME ClientInv, FrameInv, ProbeDone \/ InitDone
  PROVE  FrameInv'
<1>0. ConnType /\ WireType /\ ChildShape
  BY InvParts DEF ConnShape
<1>1. CASE ProbeDone
  <2>1. UNCHANGED <<pipe, sent, buf, skip>> /\ spawned = 1
    BY <1>0, <1>1 DEF ProbeDone, readVars, ChildShape
  <2>2. CASE ProbeModern \/ ProbeAborted
    <3>1. UNCHANGED <<spawned, closed, alive, wrote, got>>
      BY <2>2 DEF ProbeModern, ProbeAborted
    <3>2. closed' => alive' = {}
      BY <3>1 DEF FrameInv
    <3> QED BY <2>1, <3>1, <3>2, QuietFrame
  <2>3. CASE ProbeRefused
    <3>1. CASE child # NoKid /\ Closes /\ UNCHANGED spawned
      BY <2>1, <3>1, KillsFrame DEF Closes
    <3>2. CASE child = NoKid /\ spawned' = 2 /\ UNCHANGED <<alive, wrote, got>>
      <4>1. ~closed
        BY <2>3 DEF ProbeRefused
      <4>2. alive = {}
        BY <1>0, <3>2, <4>1, SMT DEF ChildShape, NoKid, WireType, Kids
      <4> QED BY <2>1, <3>2, <4>2, QuietFrame
    <3> QED BY <2>3, <3>1, <3>2 DEF ProbeRefused
  <2>4. CASE ProbeFallsBack
    <3>1. ~closed' /\ UNCHANGED <<wrote, got>>
      BY <2>4 DEF ProbeFallsBack
    <3>2. spawned' = 2 \/ UNCHANGED <<spawned, alive>>
      BY <2>4 DEF ProbeFallsBack, Spawns
    <3> QED BY <2>1, <3>1, <3>2, QuietFrame
  <2> QED BY <1>1, <2>2, <2>3, <2>4 DEF ProbeDone
<1>2. CASE InitDone
  <2>1. UNCHANGED <<spawned, pipe, sent, buf, skip>>
    BY <1>2 DEF InitDone, readVars
  <2>2. CASE cont = "good"
    <3>1. UNCHANGED <<closed, alive, wrote, got>>
      BY <1>2, <2>2 DEF InitDone
    <3>2. closed' => alive' = {}
      BY <3>1 DEF FrameInv
    <3> QED BY <2>1, <3>1, <3>2, QuietFrame
  <2>3. CASE cont # "good"
    <3>1. Kills(child)
      BY <1>2, <2>3 DEF InitDone, Closes
    <3> QED BY <2>1, <3>1, KillsFrame
  <2> QED BY <2>2, <2>3
<1> QED BY <1>1, <1>2

LEMMA EventFrame ==
  ASSUME ClientInv, FrameInv,
         \/ Ask \/ Close \/ UNCHANGED vars
         \/ \E i \in Ids : Timeout(i) \/ WriteFails(i)
         \/ \E k \in Kids : OnExit(k)
  PROVE  FrameInv'
<1>1. CASE Close
  <2>1. UNCHANGED <<spawned, pipe, sent, buf, skip>> /\ Kills(child)
    BY <1>1 DEF Close, readVars
  <2> QED BY <2>1, KillsFrame
<1>2. CASE ~Close
  <2>1. UNCHANGED <<spawned, closed, alive, wrote, got, pipe, sent, buf, skip>>
    <3>1. CASE Ask
      BY <3>1 DEF Ask, connVars, readVars
    <3>2. CASE UNCHANGED vars
      BY <3>2 DEF vars, connVars, wireVars, readVars
    <3>3. ASSUME NEW i \in Ids, Timeout(i) \/ WriteFails(i)
          PROVE  UNCHANGED <<spawned, closed, alive, wrote, got, pipe, sent, buf, skip>>
      BY <3>3 DEF Timeout, WriteFails, connVars, wireVars, readVars
    <3>4. ASSUME NEW k \in Kids, OnExit(k)
          PROVE  UNCHANGED <<spawned, closed, alive, wrote, got, pipe, sent, buf, skip>>
      BY <3>4 DEF OnExit, readVars
    <3> QED BY <1>2, <3>1, <3>2, <3>3, <3>4
  <2>2. closed' => alive' = {}
    BY <2>1 DEF FrameInv
  <2> QED BY <2>1, <2>2, QuietFrame
<1> QED BY <1>1, <1>2

LEMMA DieFrame ==
  ASSUME ClientInv, FrameInv, NEW k \in Kids, Die(k)
  PROVE  FrameInv'
<1>0. ConnType /\ WireType /\ ChildShape
  BY InvParts DEF ConnShape
<1>1. k \in alive /\ alive' = alive \ {k} /\ UNCHANGED <<spawned, closed>>
  BY DEF Die, Kills, connVars
<1>2. k \in 1..spawned
  BY <1>0, <1>1 DEF ChildShape
<1>3. PICK n \in 0..Len(pipe[k]) : pipe' = [pipe EXCEPT ![k] = SubSeq(@, 1, n)]
  BY DEF Die
<1>4. \A l \in Kids \ {k} : pipe'[l] = pipe[l]
  BY <1>0, <1>3, Zenon DEF WireType
<1>5. ~(k > spawned) /\ spawned # 0
  BY <1>0, <1>2, SMT DEF ConnType
<1>6. ~(spawned' = 1 /\ 1 \in alive')
  BY <1>1, <1>2, SMT
<1>7. closed' => alive' = {}
  BY <1>1 DEF FrameInv
<1>8. \A i, j \in DOMAIN got' : i < j => got'[i] < got'[j]
  <2>1. DOMAIN <<>> = {} /\ (got' = got \/ got' = <<>>)
    BY DEF Die, Kills
  <2> QED BY <2>1 DEF FrameInv
<1> QED BY <1>1, <1>4, <1>5, <1>6, <1>7, <1>8 DEF FrameInv

LEMMA NextFrame == ClientInv /\ FrameInv /\ [Next]_vars => FrameInv'
<1> SUFFICES ASSUME ClientInv, FrameInv, [Next]_vars PROVE FrameInv'
  OBVIOUS
<1>1. ASSUME NEW memo \in BOOLEAN, Connect(memo) PROVE FrameInv'
  BY <1>1, ConnectFrame
<1>2. ASSUME NEW k \in Kids, Upstream(k) PROVE FrameInv'
  <2>1. PICK form \in {"line", "pieces", "endless", "framed", "split"}, n \in {1, Cap, Cap + 1} :
          \/ Write(k, "note", 0, form, n)
          \/ \E i \in heard[k], kind \in {"good", "bad"} : Write(k, kind, i, form, n)
    BY <1>2 DEF Upstream
  <2>2. CASE Write(k, "note", 0, form, n)
    BY <2>2, WriteFrame
  <2>3. ASSUME NEW i \in heard[k], NEW kind \in {"good", "bad"}, Write(k, kind, i, form, n)
        PROVE  FrameInv'
    BY <2>3, WriteFrame
  <2> QED BY <2>1, <2>2, <2>3
<1>3. ASSUME NEW k \in Kids, Die(k) \/ OnData(k) PROVE FrameInv'
  BY <1>3, DieFrame, OnDataFrame
<1>4. CASE ProbeDone \/ InitDone
  BY <1>4, ShakeFrame
<1>5. CASE \/ Ask \/ Close \/ UNCHANGED vars
           \/ \E i \in Ids : Timeout(i) \/ WriteFails(i)
           \/ \E k \in Kids : OnExit(k)
  BY <1>5, EventFrame
<1>6. CASE Drain
  BY <1>6, DrainFrame
<1> QED BY <1>1, <1>2, <1>3, <1>4, <1>5, <1>6 DEF Next

LEMMA InitFrame == Init => FrameInv
<1> SUFFICES ASSUME Init PROVE FrameInv
  OBVIOUS
<1>1. \A k \in Kids : pipe[k] = <<>>
  BY DEF Init
<1>2. buf = <<>> /\ skip = 0 /\ wrote = <<>> /\ got = <<>> /\ spawned = 0 /\ alive = {} /\ sent[1] = 0
  BY DEF Init, Kids
<1>3. DOMAIN <<>> = {}
  OBVIOUS
<1> QED BY <1>1, <1>2, <1>3 DEF FrameInv

(* While the first child lives, its messages are dispatched once and in    *)
(* order, and of what it wrote and was read to the end only refused        *)
(* messages are lost, and lines that a Content-Length message comes behind *)
(* in the buffer; never is more than the cap held back (_onData, _drain,   *)
(* _tryHeaderFramed, _tryLineFramed).                                      *)
THEOREM FramesSurviveHolds == Spec => []FramesSurvive
<1>1. ClientInv /\ FrameInv => FramesSurvive
  <2> SUFFICES ASSUME ClientInv, FrameInv PROVE FramesSurvive
    OBVIOUS
  <2>1. \A i, j \in DOMAIN got : i < j => got[i] < got[j]
    BY DEF FrameInv
  <2>2. ~draining => Len(buf) <= Cap
    BY DEF ClientInv, Bounded
  <2>3. ASSUME spawned = 1, 1 \in alive, pipe[1] = <<>>, buf = <<>>,
               NEW n \in DOMAIN wrote, Lost(n)
        PROVE  \/ wrote[n] = "refused"
               \/ wrote[n] = "line" /\ n < Len(wrote) /\ (wrote[n + 1] # "line" \/ Lost(n + 1))
    <3>1. Stream = <<>> /\ DOMAIN Stream = {}
      BY <2>3, SMT DEF Stream
    <3>2. \A j : Gone(j, Stream, got) <=> Lost(j)
      BY <3>1 DEF Gone, Here, Lost
    <3>3. Accounted(Stream, wrote, got)
      BY <2>3 DEF FrameInv, StreamShape
    <3> QED BY <2>3, <3>2, <3>3, Zenon DEF Accounted
  <2> QED BY <2>1, <2>2, <2>3, Zenon DEF FramesSurvive
<1> QED BY <1>1, InitFrame, NextFrame, InitInv, NextInv, ClientInvHolds, PTL DEF Spec
=============================================================================
