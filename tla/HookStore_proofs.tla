--------------------------- MODULE HookStore_proofs ---------------------------
(* Proofs about HookStore, for every set of hooks, tools, gates and        *)
(* scripts and every number of operations and faults: what an operation    *)
(* that met no other has answered stays true, but for two answers, and the *)
(* overlay has no stray keys.                                              *)
EXTENDS HookStore, TLAPS

USE StoreSets, StoreBounds

-----------------------------------------------------------------------------
(* Files as partial functions.                                             *)
LEMMA PartialFacts ==
  ASSUME NEW S, NEW T, NEW f
  PROVE  f \in Partial(S, T) <=> DOMAIN f \subseteq S /\ f \in [DOMAIN f -> T]
<1>1. \A R : f \in [R -> T] => DOMAIN f = R
  OBVIOUS
<1>2. f \in Partial(S, T) <=> \E R \in SUBSET S : f \in [R -> T]
  BY DEF Partial
<1> QED BY <1>1, <1>2

LEMMA NothingFacts == DOMAIN Nothing = {} /\ \A S : Nothing \in Partial(S, BOOLEAN)
<1>1. DOMAIN Nothing = {}
  BY DEF Nothing
<1>2. Nothing \in [{} -> BOOLEAN]
  BY DEF Nothing
<1> QED BY <1>1, <1>2, PartialFacts

LEMMA WithFacts ==
  ASSUME NEW f, NEW k, NEW flag
  PROVE  /\ DOMAIN With(f, k, flag) = DOMAIN f \cup {k}
         /\ With(f, k, flag)[k] = flag
         /\ \A j \in DOMAIN f \ {k} : With(f, k, flag)[j] = f[j]
  BY DEF With, Over, Just

LEMMA WithType ==
  ASSUME NEW S, NEW f \in Partial(S, BOOLEAN), NEW k \in S, NEW flag \in BOOLEAN
  PROVE  With(f, k, flag) \in Partial(S, BOOLEAN)
<1>1. DOMAIN f \subseteq S /\ f \in [DOMAIN f -> BOOLEAN]
  BY PartialFacts
<1>2. With(f, k, flag) \in [DOMAIN f \cup {k} -> BOOLEAN]
  BY <1>1, Zenon DEF With, Over, Just
<1> QED BY <1>1, <1>2, PartialFacts

LEMMA WithoutFacts ==
  ASSUME NEW f, NEW S
  PROVE  /\ DOMAIN Without(f, S) = DOMAIN f \ S
         /\ \A j \in DOMAIN f \ S : Without(f, S)[j] = f[j]
  BY DEF Without

LEMMA WithoutType ==
  ASSUME NEW S, NEW f \in Partial(S, BOOLEAN), NEW R
  PROVE  Without(f, R) \in Partial(S, BOOLEAN)
<1>1. DOMAIN f \subseteq S /\ f \in [DOMAIN f -> BOOLEAN]
  BY PartialFacts
<1>2. Without(f, R) \in [DOMAIN f \ R -> BOOLEAN]
  BY <1>1, Zenon DEF Without
<1> QED BY <1>1, <1>2, PartialFacts

LEMMA FlagFacts ==
  ASSUME NEW S, NEW f \in Partial(S, BOOLEAN), NEW k \in DOMAIN f, NEW flag \in BOOLEAN
  PROVE  /\ [f EXCEPT ![k] = flag] \in Partial(S, BOOLEAN)
         /\ DOMAIN [f EXCEPT ![k] = flag] = DOMAIN f
         /\ [f EXCEPT ![k] = flag][k] = flag
         /\ \A j \in DOMAIN f \ {k} : [f EXCEPT ![k] = flag][j] = f[j]
<1>1. DOMAIN f \subseteq S /\ f \in [DOMAIN f -> BOOLEAN]
  BY PartialFacts
<1>2. /\ [f EXCEPT ![k] = flag] \in [DOMAIN f -> BOOLEAN]
      /\ DOMAIN [f EXCEPT ![k] = flag] = DOMAIN f
      /\ [f EXCEPT ![k] = flag][k] = flag
      /\ \A j \in DOMAIN f \ {k} : [f EXCEPT ![k] = flag][j] = f[j]
  BY <1>1, Zenon
<1> QED BY <1>1, <1>2, PartialFacts

(* An answer is added to those that stand.                                 *)
LEMMA OverFacts ==
  ASSUME NEW f
  PROVE  /\ DOMAIN Over(Nothing, f) = DOMAIN f
         /\ \A j \in DOMAIN f : Over(Nothing, f)[j] = f[j]
         /\ \A k, flag : Over(Just(k, flag), f) = With(f, k, flag)
  BY NothingFacts DEF Over, With

-----------------------------------------------------------------------------
(* The type invariant in parts.                                            *)
FileType ==
  /\ manifest \in Partial(Keys, BOOLEAN) /\ overlay \in Partial(Ids, BOOLEAN)
  /\ typo \in BOOLEAN /\ dirty \in BOOLEAN
  /\ live \in SUBSET Keys /\ snap \in SUBSET Partial(Keys, BOOLEAN)
OpsType == op \in [Procs -> Op \cup {Idle}]
CountType == ops \in 0..MaxOps /\ faults \in 0..MaxFaults /\ alone \in BOOLEAN
SaidType == agreed \in Partial(Keys, BOOLEAN)

LEMMA TypeParts == TypeOK <=> FileType /\ OpsType /\ CountType /\ SaidType
  BY Zenon DEF TypeOK, FileType, OpsType, CountType, SaidType

LEMMA FileDomains ==
  ASSUME FileType
  PROVE  /\ DOMAIN manifest \subseteq Keys /\ manifest \in [DOMAIN manifest -> BOOLEAN]
         /\ DOMAIN overlay \subseteq Ids /\ overlay \in [DOMAIN overlay -> BOOLEAN]
  BY PartialFacts DEF FileType

(* A process that runs an operation is busy with it.                       *)
LEMMA OpBusy ==
  ASSUME OpsType, NEW p \in Procs, op[p].at # "idle"
  PROVE  op[p] \in Op /\ p \in Busy
<1>1. op[p] # Idle
  BY DEF Idle
<1> QED BY <1>1 DEF OpsType, Busy

LEMMA OpNotIdle ==
  ASSUME NEW o \in Op
  PROVE  o # Idle
  BY DEF Op, Idle

LEMMA OpPut ==
  ASSUME OpsType, NEW p \in Procs, NEW o \in Op \cup {Idle}, op' = [op EXCEPT ![p] = o]
  PROVE  /\ OpsType' /\ op'[p] = o /\ \A q \in Procs \ {p} : op'[q] = op[q]
         /\ Busy' = IF o = Idle THEN Busy \ {p} ELSE Busy \cup {p}
<1>1. OpsType' /\ op'[p] = o /\ \A q \in Procs \ {p} : op'[q] = op[q]
  BY Zenon DEF OpsType
<1>2. Busy = {q \in Procs : op[q] # Idle} /\ Busy' = {q \in Procs : op'[q] # Idle}
  BY DEF Busy
<1> QED BY <1>1, <1>2

-----------------------------------------------------------------------------
(* What a write leaves alone.                                              *)

(* The rows an operation may change, and that no others have changed.      *)
Rows(k) == {k} \cup IF k \in Tools THEN Own(k) ELSE {}
Alike(R) ==
  \A j \in Keys \ R :
    /\ j \in DOMAIN manifest' <=> j \in DOMAIN manifest
    /\ j \in DOMAIN manifest => manifest'[j] = manifest[j]
    /\ j \in DOMAIN overlay' <=> j \in DOMAIN overlay
    /\ j \in DOMAIN overlay => overlay'[j] = overlay[j]

LEMMA EffectiveAlike ==
  ASSUME NEW R, Alike(R), NEW j \in Keys \ R
  PROVE  j \in Effective(manifest', overlay') <=> j \in Effective(manifest, overlay)
  BY Zenon DEF Alike, Effective, Enabled

(* An answer about what an operation does not touch stands.                *)
LEMMA SaidKeeps ==
  ASSUME FileType, FileType', NEW k \in Keys, Alike(Rows(k)),
         NEW j \in Keys, j \notin Touched(k), Said(j), agreed'[j] = agreed[j]
  PROVE  Said(j)'
<1>1. \A i \in Rows(k) : i \in Keys => GateOf[i] = GateOf[k]
  BY DEF Rows, Own
<1>2. \A i \in Keys \ Rows(k) : i \in Effective(manifest', overlay') <=> i \in Effective(manifest, overlay)
  BY EffectiveAlike
<1>3. CASE j \in Ids
  <2>1. j \notin Rows(k)
    BY DEF Rows, Touched
  <2> QED BY <1>2, <1>3, <2>1, Zenon DEF Said
<1>4. CASE j \notin Ids /\ agreed[j]
  <2>1. PICK i \in Effective(manifest, overlay) : GateOf[i] = GateOf[j]
    BY <1>4, Zenon DEF Said
  <2>2. i \in Keys /\ GateOf[j] # GateOf[k]
    BY <1>4, <2>1, FileDomains DEF Effective, Touched, Keys
  <2>3. i \in Effective(manifest', overlay')
    BY <1>1, <1>2, <2>1, <2>2
  <2> QED BY <1>4, <2>1, <2>3, Zenon DEF Said
<1>5. CASE j \notin Ids /\ ~agreed[j]
  <2>1. Own(j) \cap DOMAIN manifest = {}
    BY <1>5, Zenon DEF Said
  <2>2. \A i \in Own(j) : i \in Keys \ Rows(k)
    <3>1. GateOf[j] # GateOf[k]
      BY <1>5 DEF Touched, Keys
    <3> QED BY <1>1, <3>1 DEF Own
  <2>3. Own(j) \cap DOMAIN manifest' = {}
    BY <2>1, <2>2 DEF Alike
  <2> QED BY <1>5, <2>3, Zenon DEF Said
<1> QED BY <1>3, <1>4, <1>5

-----------------------------------------------------------------------------
(* The inductive invariant, part by part, and how its operations keep it.  *)

(* An operation goes on to its next step. *)
LEMMA GotoInv ==
  ASSUME HookInv, NEW p \in Busy, NEW o \in Op, o.key = op[p].key, op' = [op EXCEPT ![p] = o],
         FileType', UNCHANGED countVars, agreed' = agreed, OpShape(o),
         alone => /\ Alike(Rows(o.key)) /\ Knows(o)'
                  /\ faults = 0 => ~typo' /\ Tidy(o)'
  PROVE  HookInv' /\ Stands
<1>0. /\ FileType /\ OpsType /\ CountType /\ SaidType /\ p \in Procs
      /\ UNCHANGED <<ops, faults, alone>>
  BY TypeParts DEF HookInv, Busy, countVars
<1>1. /\ OpsType' /\ op'[p] = o /\ \A q \in Procs \ {p} : op'[q] = op[q]
      /\ Busy' = Busy
  <2>1. o # Idle /\ Busy \cup {p} = Busy
    BY OpNotIdle
  <2>2. /\ OpsType' /\ op'[p] = o /\ \A q \in Procs \ {p} : op'[q] = op[q]
        /\ Busy' = IF o = Idle THEN Busy \ {p} ELSE Busy \cup {p}
    BY <1>0, OpPut
  <2> QED BY <2>1, <2>2
<1>2. CountType' /\ SaidType'
  BY <1>0, Zenon DEF CountType, SaidType
<1>3. TypeOK'
  BY <1>1, <1>2, Zenon DEF TypeOK, FileType, OpsType, CountType, SaidType
<1>4. \A q \in Busy' : OpShape(op'[q])
  <2> TAKE q \in Busy'
  <2>1. CASE q = p
    BY <1>1, <2>1
  <2>2. CASE q # p
    BY <1>1, <2>2 DEF HookInv, Busy
  <2> QED BY <2>1, <2>2
<1>5. ~alone' => agreed' = Nothing
  BY <1>0 DEF HookInv
<1>6. Stands
  <2> SUFFICES ASSUME NEW k \in DOMAIN agreed, Said(k) PROVE Said(k)'
    BY DEF Stands
  <2>1. alone
    BY NothingFacts DEF HookInv
  <2>2. o.key \in Keys /\ k \in Keys
    BY <1>0, PartialFacts DEF Op, SaidType
  <2>3. k \notin Touched(o.key)
    BY <2>1 DEF HookInv, Untold
  <2> QED BY <1>0, <2>1, <2>2, <2>3, SaidKeeps
<1>7. ASSUME alone
      PROVE  /\ \A q \in Busy' : q = p
             /\ Untold(o)'
             /\ faults = 0 => \A q \in Busy' : q = p
  <2>1. \A q \in Busy' : q = p
    BY <1>1, <1>7 DEF HookInv
  <2>2. DOMAIN agreed' \cap Touched(o.key) = {}
    BY <1>7, NothingFacts DEF HookInv, Untold
  <2> QED BY <2>1, <2>2 DEF Untold, Touched, Own
<1>8. alone' => /\ \A q, r \in Busy' : q = r
                /\ \A q \in Busy' : Knows(op[q])' /\ Untold(op[q])'
  <2> SUFFICES ASSUME alone PROVE /\ \A q, r \in Busy' : q = r
                                  /\ \A q \in Busy' : Knows(op[q])' /\ Untold(op[q])'
    BY <1>0
  <2>1. \A q \in Busy' : q = p /\ op'[q] = o
    BY <1>1, <1>7
  <2>2. \A x : x = o => Knows(x)' /\ Untold(x)'
    BY <1>7
  <2> QED BY <2>1, <2>2
<1>9. alone' /\ faults' = 0 => /\ ~typo'
                               /\ Busy' = {} => DOMAIN overlay' \subseteq DOMAIN manifest'
                               /\ \A q \in Busy' : Tidy(op[q])'
  <2> SUFFICES ASSUME alone, faults = 0 PROVE ~typo' /\ \A q \in Busy' : Tidy(op[q])'
    BY <1>0, <1>1
  <2>1. \A q \in Busy' : op'[q] = o
    BY <1>1, <1>7
  <2>2. \A x : x = o => Tidy(x)'
    OBVIOUS
  <2> QED BY <2>1, <2>2
<1> QED BY <1>3, <1>4, <1>5, <1>6, <1>8, <1>9, Zenon DEF HookInv

(* An operation answers: of the row or switch it is about, or refuses.     *)
LEMMA AnswerInv ==
  ASSUME HookInv, NEW p \in Busy, NEW said, NEW K, K = op[p].key, Answer(p, said),
         FileType', UNCHANGED <<ops, alone>>, faults' \in 0..MaxFaults, faults' >= faults,
         said = Nothing \/ \E flag \in BOOLEAN : said = Just(K, flag),
         alone => /\ Alike(Rows(K)) \/ \A k : SwitchedUnread(k)
                  /\ \/ said # Nothing /\ agreed'[K] = said[K] => Said(K)'
                     \/ AddedOverKey(K) \/ SwitchedUnread(K)
                  /\ faults' = 0 => ~typo' /\ DOMAIN overlay' \subseteq DOMAIN manifest'
  PROVE  HookInv' /\ Stands
<1>0. /\ FileType /\ OpsType /\ CountType /\ SaidType /\ p \in Procs
      /\ op' = [op EXCEPT ![p] = Idle] /\ agreed' = IF alone THEN Over(said, agreed) ELSE Nothing
  BY TypeParts DEF HookInv, Busy, Answer
<1>1. /\ OpsType' /\ \A q \in Procs \ {p} : op'[q] = op[q]
      /\ Busy' = Busy \ {p}
  <2>1. Idle \in Op \cup {Idle}
    OBVIOUS
  <2> QED BY <1>0, <2>1, OpPut
<1>2. K \in Keys
  <2>1. op[p] \in Op
    BY <1>0 DEF OpsType, Busy
  <2> QED BY <2>1 DEF Op
<1>3. /\ DOMAIN agreed' = DOMAIN agreed \cup (IF alone /\ said # Nothing THEN {K} ELSE {}) \/ ~alone
      /\ alone => \A k \in DOMAIN agreed : k # K \/ said = Nothing => agreed'[k] = agreed[k]
      /\ alone /\ said # Nothing => agreed'[K] = said[K]
      /\ SaidType'
      /\ ~alone => agreed' = Nothing
  <2>1. CASE ~alone
    BY <1>0, <2>1, NothingFacts DEF SaidType
  <2>2. CASE alone /\ said = Nothing
    <3>1. /\ DOMAIN Over(Nothing, agreed) = DOMAIN agreed
          /\ \A k \in DOMAIN agreed : Over(Nothing, agreed)[k] = agreed[k]
      BY OverFacts
    <3>2. Over(Nothing, agreed) \in Partial(Keys, BOOLEAN)
      <4>1. DOMAIN agreed \subseteq Keys /\ agreed \in [DOMAIN agreed -> BOOLEAN]
        BY <1>0, PartialFacts DEF SaidType
      <4>2. Over(Nothing, agreed) = [k \in DOMAIN agreed |-> agreed[k]]
        BY NothingFacts DEF Over
      <4>3. Over(Nothing, agreed) \in [DOMAIN agreed -> BOOLEAN]
        BY <4>1, <4>2
      <4> QED BY <3>1, <4>1, <4>3, PartialFacts
    <3> QED BY <1>0, <2>2, <3>1, <3>2 DEF SaidType
  <2>3. CASE alone /\ said # Nothing
    <3>1. PICK flag \in BOOLEAN : said = Just(K, flag)
      BY <2>3
    <3>2. agreed' = With(agreed, K, flag) /\ said[K] = flag
      <4>1. said[K] = flag
        BY <3>1 DEF Just
      <4>2. agreed' = Over(Just(K, flag), agreed)
        BY <1>0, <2>3, <3>1
      <4> QED BY <4>1, <4>2 DEF With
    <3>3. agreed' \in Partial(Keys, BOOLEAN)
      BY <1>0, <1>2, <3>2, WithType DEF SaidType
    <3>4. /\ DOMAIN With(agreed, K, flag) = DOMAIN agreed \cup {K}
          /\ With(agreed, K, flag)[K] = flag
          /\ \A k \in DOMAIN agreed \ {K} : With(agreed, K, flag)[k] = agreed[k]
      BY DEF With, Over, Just
    <3> QED BY <2>3, <3>2, <3>3, <3>4 DEF SaidType
  <2> QED BY <2>1, <2>2, <2>3
<1>4. CountType' /\ (alone' <=> alone)
  BY <1>0, Zenon DEF CountType
<1>5. TypeOK'
  BY <1>1, <1>3, <1>4, Zenon DEF TypeOK, FileType, OpsType, CountType, SaidType
<1>6. \A q \in Busy' : OpShape(op'[q])
  BY <1>1 DEF HookInv, Busy
<1>7. Stands
  <2> SUFFICES ASSUME NEW k \in DOMAIN agreed', k \in DOMAIN agreed => Said(k),
                      ~AddedOverKey(k), ~SwitchedUnread(k)
               PROVE  Said(k)'
    BY DEF Stands
  <2>0. alone
    BY <1>3, NothingFacts
  <2>1. CASE k = K /\ said # Nothing
    <3>1. ~(AddedOverKey(K) \/ SwitchedUnread(K))
      BY <2>1
    <3>2. Said(K)'
      BY <1>3, <2>0, <2>1, <3>1
    <3> QED BY <2>1, <3>2
  <2>2. CASE ~(k = K /\ said # Nothing)
    <3>1. k \in DOMAIN agreed /\ agreed'[k] = agreed[k] /\ k \in Keys
      BY <1>0, <1>3, <2>0, <2>2, PartialFacts DEF SaidType
    <3>2. Said(k) /\ k \notin Touched(K)
      BY <2>0, <3>1 DEF HookInv, Untold
    <3>3. Alike(Rows(K))
      BY <2>0
    <3> QED BY <1>0, <1>2, <3>1, <3>2, <3>3, SaidKeeps
  <2> QED BY <2>1, <2>2
<1>8. alone => Busy' = {}
  BY <1>1 DEF HookInv
<1>9. alone' /\ faults' = 0 => ~typo' /\ (Busy' = {} => DOMAIN overlay' \subseteq DOMAIN manifest')
  BY <1>4
<1> QED BY <1>3, <1>4, <1>5, <1>6, <1>7, <1>8, <1>9, Zenon DEF HookInv

(* A refusal, before anything was written or half-way. *)
LEMMA RefuseInv ==
  ASSUME HookInv, NEW p \in Busy, Refuse(p), FileType', UNCHANGED <<ops, alone>>,
         faults' \in 0..MaxFaults, faults' >= faults,
         alone => /\ Alike(Rows(op[p].key))
                  /\ faults' = 0 => ~typo' /\ DOMAIN overlay' \subseteq DOMAIN manifest'
  PROVE  HookInv' /\ Stands
<1>1. Answer(p, Nothing)
  BY DEF Refuse
<1>2. PICK K : K = op[p].key
  OBVIOUS
<1> DEFINE said == Nothing
<1>3. said = Nothing
  OBVIOUS
<1> HIDE DEF said
<1> QED BY <1>1, <1>2, <1>3, AnswerInv

-----------------------------------------------------------------------------
(* The steps of an operation.                                              *)
LEMMA OpFields ==
  ASSUME NEW o \in Op
  PROVE  /\ o.at \in {"load", "apply", "read", "peek", "write", "state", "save"}
         /\ o.kind \in {"set", "add", "undo", "remove", "switch"}
         /\ o.key \in Keys /\ o.want \in BOOLEAN
         /\ o.mem \in Partial(Keys, BOOLEAN) /\ o.raw \in Partial(Keys, BOOLEAN)
         /\ o.seen \in Partial(Ids, BOOLEAN)
  BY DEF Op

(* What the invariant says of a process that is busy.                      *)
LEMMA BusyFacts ==
  ASSUME HookInv, NEW p \in Procs, op[p].at # "idle"
  PROVE  /\ FileType /\ OpsType /\ CountType /\ SaidType /\ p \in Busy /\ op[p] \in Op
         /\ op[p].at \in {"load", "apply", "read", "peek", "write", "state", "save"}
         /\ op[p].kind \in {"set", "add", "undo", "remove", "switch"}
         /\ op[p].key \in Keys /\ op[p].want \in BOOLEAN
         /\ op[p].mem \in Partial(Keys, BOOLEAN) /\ op[p].raw \in Partial(Keys, BOOLEAN)
         /\ op[p].seen \in Partial(Ids, BOOLEAN)
         /\ OpShape(op[p])
         /\ alone => Knows(op[p])
         /\ alone /\ faults = 0 => ~typo /\ Tidy(op[p])
         /\ faults \in 0..MaxFaults /\ faults >= faults
<1>1. FileType /\ OpsType /\ CountType /\ SaidType
  BY TypeParts DEF HookInv
<1>2. op[p] \in Op /\ p \in Busy
  BY <1>1, OpBusy
<1>3. faults \in 0..MaxFaults /\ faults >= faults
  BY <1>1, SMT DEF CountType
<1>4. OpShape(op[p]) /\ (alone => Knows(op[p])) /\ (alone /\ faults = 0 => ~typo /\ Tidy(op[p]))
  BY <1>2 DEF HookInv
<1> QED BY <1>1, <1>2, <1>3, <1>4, OpFields

(* Steps that leave both files as they are change no row.                  *)
LEMMA SameFiles ==
  ASSUME NEW R, UNCHANGED <<manifest, overlay>>
  PROVE  Alike(R)
  BY DEF Alike

LEMMA LoadInv ==
  ASSUME HookInv, NEW p \in Procs, Load(p)
  PROVE  HookInv' /\ Stands
<1>0. /\ FileType /\ OpsType /\ p \in Busy /\ op[p] \in Op /\ OpShape(op[p]) /\ op[p].at = "load"
      /\ op[p].kind # "switch" /\ op[p].kind # "undo"
      /\ alone => Knows(op[p])
      /\ alone /\ faults = 0 => ~typo /\ Tidy(op[p])
      /\ faults \in 0..MaxFaults /\ faults >= faults
  BY BusyFacts DEF Load, OpShape
<1>1. UNCHANGED <<manifest, typo, overlay, live, snap, dirty, ops, faults, alone>>
  BY DEF Load, storeVars, gatewayVars, countVars
<1>2. FileType' /\ UNCHANGED countVars
  BY <1>0, <1>1, Zenon DEF FileType, countVars
<1>3. \A R : Alike(R)
  BY <1>1, SameFiles
<1>4. CASE Refuse(p)
  <2>1. alone /\ faults = 0 => DOMAIN overlay \subseteq DOMAIN manifest
    BY <1>0 DEF Tidy
  <2> QED BY <1>0, <1>1, <1>2, <1>3, <1>4, <2>1, RefuseInv
<1>5. CASE ~Refuse(p)
  <2> DEFINE mem == manifest
  <2>1. /\ agreed' = agreed /\ ~typo
        /\ op' = [op EXCEPT ![p].at = "apply", ![p].mem = mem]
    BY <1>5 DEF Load
  <2>2. mem \in Partial(Keys, BOOLEAN) /\ DOMAIN mem = DOMAIN manifest
    BY <1>0 DEF FileType
  <2> HIDE DEF mem
  <2>3. PICK o : o = [op[p] EXCEPT !.at = "apply", !.mem = mem]
    OBVIOUS
  <2>4. o \in Op /\ o.at = "apply" /\ o.kind = op[p].kind /\ o.key = op[p].key /\ o.mem = mem
    <3>1. o \in Op
      BY <1>0, <2>2, <2>3, Zenon DEF Op
    <3> QED BY <1>0, <2>3, <3>1, SMT DEF Op
  <2>5. op' = [op EXCEPT ![p] = o]
    BY <1>0, <2>1, <2>3
  <2>6. OpShape(o)
    BY <1>0, <2>4 DEF OpShape
  <2>7. alone => Knows(o)'
    BY <1>0, <1>1, <2>1, <2>2, <2>4 DEF Knows
  <2>8. alone /\ faults = 0 => Tidy(o)' /\ ~typo'
    BY <1>0, <1>1, <2>4 DEF Tidy
  <2> QED BY <1>0, <1>1, <1>2, <1>3, <2>1, <2>4, <2>5, <2>6, <2>7, <2>8, GotoInv
<1> QED BY <1>4, <1>5

LEMMA ApplyOverlayInv ==
  ASSUME HookInv, NEW p \in Procs, ApplyOverlay(p)
  PROVE  HookInv' /\ Stands
<1>0. /\ FileType /\ OpsType /\ p \in Busy /\ op[p] \in Op /\ OpShape(op[p]) /\ op[p].at = "apply"
      /\ op[p].kind # "switch" /\ op[p].kind # "undo"
      /\ op[p].mem \in Partial(Keys, BOOLEAN)
      /\ alone => Knows(op[p])
      /\ alone /\ faults = 0 => ~typo /\ Tidy(op[p])
      /\ faults \in 0..MaxFaults /\ faults >= faults
  BY BusyFacts DEF ApplyOverlay, OpShape
<1>1. UNCHANGED <<manifest, typo, overlay, live, snap, dirty, ops, faults, alone>>
  BY DEF ApplyOverlay, storeVars, gatewayVars, countVars
<1>2. FileType' /\ UNCHANGED countVars
  BY <1>0, <1>1, Zenon DEF FileType, countVars
<1>3. \A R : Alike(R)
  BY <1>1, SameFiles
<1>4. CASE Refuse(p)
  <2>1. alone /\ faults = 0 => DOMAIN overlay \subseteq DOMAIN manifest
    BY <1>0 DEF Tidy
  <2> QED BY <1>0, <1>1, <1>2, <1>3, <1>4, <2>1, RefuseInv
<1>5. CASE ~Refuse(p)
  <2> DEFINE mem == [k \in DOMAIN op[p].mem |-> Enabled(op[p].mem, overlay, k)]
  <2>1. /\ agreed' = agreed
        /\ op' = [op EXCEPT ![p].at = "read", ![p].mem = mem]
    BY <1>5 DEF ApplyOverlay
  <2>2. mem \in Partial(Keys, BOOLEAN) /\ DOMAIN mem = DOMAIN op[p].mem
    <3>1. /\ DOMAIN op[p].mem \subseteq Keys /\ op[p].mem \in [DOMAIN op[p].mem -> BOOLEAN]
          /\ overlay \in [DOMAIN overlay -> BOOLEAN]
      BY <1>0, FileDomains, PartialFacts
    <3>2. \A k \in DOMAIN op[p].mem : Enabled(op[p].mem, overlay, k) \in BOOLEAN
      BY <3>1, Zenon DEF Enabled
    <3>3. mem \in [DOMAIN op[p].mem -> BOOLEAN] /\ DOMAIN mem = DOMAIN op[p].mem
      BY <3>2, Zenon
    <3> QED BY <3>1, <3>3, PartialFacts
  <2> HIDE DEF mem
  <2>3. PICK o : o = [op[p] EXCEPT !.at = "read", !.mem = mem]
    OBVIOUS
  <2>4. o \in Op /\ o.at = "read" /\ o.kind = op[p].kind /\ o.key = op[p].key /\ o.mem = mem
    <3>1. o \in Op
      BY <1>0, <2>2, <2>3, Zenon DEF Op
    <3> QED BY <1>0, <2>3, <3>1, SMT DEF Op
  <2>5. op' = [op EXCEPT ![p] = o]
    BY <1>0, <2>1, <2>3
  <2>6. OpShape(o)
    BY <1>0, <2>4 DEF OpShape
  <2>7. alone => Knows(o)'
    BY <1>0, <1>1, <2>1, <2>2, <2>4 DEF Knows
  <2>8. alone /\ faults = 0 => Tidy(o)' /\ ~typo'
    BY <1>0, <1>1, <2>4 DEF Tidy
  <2> QED BY <1>0, <1>1, <1>2, <1>3, <2>1, <2>4, <2>5, <2>6, <2>7, <2>8, GotoInv
<1> QED BY <1>4, <1>5

LEMMA ReadInv ==
  ASSUME HookInv, NEW p \in Procs, Read(p)
  PROVE  HookInv' /\ Stands
<1>0. /\ FileType /\ OpsType /\ p \in Busy /\ op[p] \in Op /\ OpShape(op[p]) /\ op[p].at = "read"
      /\ op[p].mem \in Partial(Keys, BOOLEAN)
      /\ alone => Knows(op[p])
      /\ alone /\ faults = 0 => ~typo /\ Tidy(op[p])
      /\ faults \in 0..MaxFaults /\ faults >= faults
  BY BusyFacts DEF Read
<1>1. UNCHANGED <<manifest, typo, overlay, live, snap, dirty, ops, faults, alone>>
  BY DEF Read, storeVars, gatewayVars, countVars
<1>2. FileType' /\ UNCHANGED countVars
  BY <1>0, <1>1, Zenon DEF FileType, countVars
<1>3. \A R : Alike(R)
  BY <1>1, SameFiles
<1>4. CASE Refuse(p)
  <2>1. alone /\ faults = 0 => DOMAIN overlay \subseteq DOMAIN manifest
    BY <1>0 DEF Tidy
  <2> QED BY <1>0, <1>1, <1>2, <1>3, <1>4, <2>1, RefuseInv
<1>5. CASE ~Refuse(p)
  <2> DEFINE raw == IF op[p].kind = "switch" THEN SwitchReads ELSE LoaderReads(op[p])
             at == IF op[p].kind = "switch" THEN "peek" ELSE "write"
  <2>1. /\ agreed' = agreed
        /\ op' = [op EXCEPT ![p].raw = raw, ![p].at = at]
    BY <1>5 DEF Read
  <2>2. raw \in Partial(Keys, BOOLEAN) /\ at \in {"peek", "write"}
    BY <1>0, NothingFacts DEF SwitchReads, LoaderReads, FileType
  <2>3. alone => raw = IF typo THEN Nothing ELSE manifest
    BY <1>0 DEF SwitchReads, LoaderReads, Knows
  <2>4. (at = "peek" <=> op[p].kind = "switch") /\ (at = "write" <=> op[p].kind # "switch")
    OBVIOUS
  <2> HIDE DEF raw, at
  <2>5. PICK o : o = [op[p] EXCEPT !.raw = raw, !.at = at]
    OBVIOUS
  <2>6. o \in Op /\ o.at = at /\ o.kind = op[p].kind /\ o.key = op[p].key /\ o.mem = op[p].mem /\ o.raw = raw
    <3>1. o \in Op
      BY <1>0, <2>2, <2>5, Zenon DEF Op
    <3> QED BY <1>0, <2>5, <3>1, SMT DEF Op
  <2>7. op' = [op EXCEPT ![p] = o]
    BY <1>0, <2>1, <2>5
  <2>8. OpShape(o)
    BY <1>0, <2>2, <2>4, <2>6 DEF OpShape
  <2>9. alone => Knows(o)'
    BY <1>0, <1>1, <2>1, <2>2, <2>3, <2>4, <2>6 DEF Knows
  <2>10. alone /\ faults = 0 => Tidy(o)' /\ ~typo'
    BY <1>0, <1>1, <2>2, <2>6 DEF Tidy
  <2> QED BY <1>0, <1>1, <1>2, <1>3, <2>1, <2>6, <2>7, <2>8, <2>9, <2>10, GotoInv
<1> QED BY <1>4, <1>5

LEMMA ReadStateInv ==
  ASSUME HookInv, NEW p \in Procs, ReadState(p)
  PROVE  HookInv' /\ Stands
<1>0. /\ FileType /\ OpsType /\ p \in Busy /\ op[p] \in Op /\ OpShape(op[p])
      /\ op[p].at \in {"peek", "state"} /\ op[p].key \in Keys /\ op[p].want \in BOOLEAN
      /\ op[p].kind \in {"set", "add", "undo", "remove", "switch"}
      /\ alone => Knows(op[p])
      /\ alone /\ faults = 0 => ~typo /\ Tidy(op[p])
      /\ faults \in 0..MaxFaults /\ faults >= faults
  BY BusyFacts DEF ReadState
<1>1. UNCHANGED <<manifest, typo, overlay, live, snap, dirty, ops, faults, alone>>
  BY DEF ReadState, storeVars, gatewayVars, countVars
<1>2. FileType' /\ UNCHANGED countVars
  BY <1>0, <1>1, Zenon DEF FileType, countVars
<1>3. \A R : Alike(R)
  BY <1>1, SameFiles
<1>4. CASE op[p].kind \in {"remove", "undo"} /\ op[p].key \notin DOMAIN overlay
  <2>1. PICK K : K = op[p].key
    OBVIOUS
  <2>2. PICK said : said = Just(K, FALSE)
    OBVIOUS
  <2>3. Answer(p, said)
    BY <1>4, <2>1, <2>2 DEF ReadState
  <2>4. K \in Ids
    BY <1>0, <1>4, <2>1 DEF OpShape, Keys
  <2>5. alone => K \notin DOMAIN manifest
    BY <1>0, <1>4, <2>1 DEF OpShape, Knows
  <2>6. alone => (agreed'[K] = said[K] => Said(K)')
    <3>1. said[K] = FALSE
      BY <2>2 DEF Just
    <3>2. K \notin DOMAIN manifest => K \notin Effective(manifest', overlay')
      BY <1>1 DEF Effective
    <3> QED BY <2>4, <2>5, <3>1, <3>2, Zenon DEF Said
  <2>7. alone /\ faults = 0 => DOMAIN overlay \subseteq DOMAIN manifest
    BY <1>0, <1>4 DEF Tidy, Strays
  <2>8. said = Nothing \/ \E flag \in BOOLEAN : said = Just(K, flag)
    BY <2>2
  <2> QED BY <1>0, <1>1, <1>2, <1>3, <2>1, <2>3, <2>6, <2>7, <2>8, AnswerInv
<1>5. CASE ~(op[p].kind \in {"remove", "undo"} /\ op[p].key \notin DOMAIN overlay)
  <2> DEFINE seen == CASE op[p].kind = "set" -> With(overlay, op[p].key, op[p].want)
                       [] op[p].kind = "switch" -> overlay
                       [] OTHER -> Without(overlay, {op[p].key})
             at == IF op[p].at = "peek" THEN "write" ELSE "save"
  <2>1. agreed' = agreed /\ op' = [op EXCEPT ![p].at = at, ![p].seen = seen]
    BY <1>5 DEF ReadState
  <2>2. seen \in Partial(Ids, BOOLEAN)
    <3>1. overlay \in Partial(Ids, BOOLEAN)
      BY <1>0 DEF FileType
    <3>2. CASE op[p].kind = "set"
      <4>1. op[p].key \in Ids
        BY <1>0, <3>2 DEF OpShape, Keys
      <4> QED BY <1>0, <3>1, <3>2, <4>1, WithType
    <3>3. CASE op[p].kind = "switch"
      BY <3>1, <3>3
    <3>4. CASE op[p].kind \notin {"set", "switch"}
      BY <3>1, <3>4, WithoutType
    <3> QED BY <3>2, <3>3, <3>4
  <2>3. /\ op[p].kind = "set" => seen = With(overlay, op[p].key, op[p].want)
        /\ op[p].kind = "switch" => seen = overlay
        /\ op[p].kind \in {"remove", "undo"} => seen = Without(overlay, {op[p].key})
    OBVIOUS
  <2>4. /\ at \in {"write", "save"} /\ (op[p].kind = "switch" <=> at = "write")
        /\ op[p].kind \in {"set", "remove", "undo", "switch"}
    BY <1>0 DEF OpShape
  <2> HIDE DEF seen, at
  <2>5. PICK o : o = [op[p] EXCEPT !.at = at, !.seen = seen]
    OBVIOUS
  <2>6. /\ o \in Op /\ o.at = at /\ o.kind = op[p].kind /\ o.key = op[p].key /\ o.mem = op[p].mem
        /\ o.raw = op[p].raw /\ o.want = op[p].want /\ o.seen = seen
    <3>1. o \in Op
      BY <1>0, <2>2, <2>4, <2>5, Zenon DEF Op
    <3> QED BY <1>0, <2>5, <3>1, SMT DEF Op
  <2>7. op' = [op EXCEPT ![p] = o]
    BY <1>0, <2>1, <2>5
  <2>8. OpShape(o)
    BY <1>0, <2>4, <2>6 DEF OpShape
  <2>9. alone => Knows(o)'
    <3> SUFFICES ASSUME alone PROVE Knows(o)'
      OBVIOUS
    <3>1. CASE op[p].kind = "switch"
      BY <1>0, <1>1, <2>1, <2>3, <2>4, <2>6, <3>1 DEF Knows, OpShape
    <3>2. CASE op[p].kind # "switch"
      <4>1. at = "save" /\ op[p].at = "state"
        BY <1>0, <2>4, <3>2 DEF OpShape
      <4>2. Settled(o)'
        BY <1>0, <1>1, <2>3, <2>6, <3>2, <4>1 DEF Knows, Settled
      <4> QED BY <1>0, <1>1, <2>1, <2>6, <3>2, <4>1, <4>2 DEF Knows
    <3> QED BY <3>1, <3>2
  <2>10. alone /\ faults = 0 => Tidy(o)' /\ ~typo'
    <3> SUFFICES ASSUME alone, faults = 0 PROVE Tidy(o)' /\ ~typo'
      OBVIOUS
    <3>1. CASE op[p].kind = "switch"
      BY <1>0, <1>1, <2>4, <2>6, <3>1 DEF Tidy, OpShape
    <3>2. CASE op[p].kind # "switch"
      <4>1. at = "save" /\ op[p].at = "state" /\ op[p].kind \in {"set", "remove", "undo"}
        BY <1>0, <2>4, <3>2 DEF OpShape
      <4>2. DOMAIN seen \subseteq DOMAIN manifest
        <5>1. CASE op[p].kind = "set"
          <6>1. op[p].key \in DOMAIN manifest /\ DOMAIN overlay \subseteq DOMAIN manifest
            BY <1>0, <4>1, <5>1 DEF Knows, Tidy, Strays
          <6>2. DOMAIN seen = DOMAIN overlay \cup {op[p].key}
            BY <2>3, <5>1 DEF With, Over, Just
          <6> QED BY <6>1, <6>2
        <5>2. CASE op[p].kind \in {"remove", "undo"}
          <6>1. DOMAIN overlay \subseteq DOMAIN manifest \cup {op[p].key}
            BY <1>0, <4>1, <5>2 DEF Tidy, Strays
          <6>2. DOMAIN seen = DOMAIN overlay \ {op[p].key}
            BY <2>3, <5>2, WithoutFacts
          <6> QED BY <6>1, <6>2
        <5> QED BY <4>1, <5>1, <5>2
      <4> QED BY <1>0, <1>1, <2>6, <4>1, <4>2 DEF Tidy
    <3> QED BY <3>1, <3>2
  <2> QED BY <1>0, <1>1, <1>2, <1>3, <2>1, <2>6, <2>7, <2>8, <2>9, <2>10, GotoInv
<1> QED BY <1>4, <1>5

(* The overlay is saved. *)
LEMMA WriteStateInv ==
  ASSUME HookInv, NEW p \in Procs, WriteState(p)
  PROVE  HookInv' /\ Stands
<1>0. /\ FileType /\ OpsType /\ p \in Busy /\ op[p] \in Op /\ OpShape(op[p])
      /\ op[p].at = "save" /\ op[p].key \in Keys /\ op[p].want \in BOOLEAN
      /\ op[p].kind \in {"set", "add", "undo", "remove", "switch"}
      /\ op[p].seen \in Partial(Ids, BOOLEAN)
      /\ alone => Knows(op[p])
      /\ alone /\ faults = 0 => ~typo /\ Tidy(op[p])
      /\ faults \in 0..MaxFaults /\ faults >= faults
  BY BusyFacts DEF WriteState
<1> DEFINE flag == op[p].kind \in {"set", "switch"} /\ op[p].want
<1>1. /\ UNCHANGED <<manifest, typo, live, snap, ops, faults, alone>>
      /\ overlay' = op[p].seen /\ dirty' = TRUE /\ Answer(p, Just(op[p].key, flag))
  BY DEF WriteState, countVars
<1>2. flag \in BOOLEAN /\ (op[p].kind \in {"remove", "undo"} => flag = FALSE)
      /\ (op[p].kind \in {"set", "switch"} => flag = op[p].want)
  BY <1>0
<1> HIDE DEF flag
<1>3. FileType'
  BY <1>0, <1>1, Zenon DEF FileType
<1>4. PICK K : K = op[p].key
  OBVIOUS
<1>5. PICK said : said = Just(K, flag)
  OBVIOUS
<1>6. Answer(p, said) /\ said[K] = flag /\ (said = Nothing \/ \E f \in BOOLEAN : said = Just(K, f))
  BY <1>1, <1>2, <1>4, <1>5 DEF Just
<1>7. ASSUME alone
      PROVE  /\ Alike(Rows(K))
             /\ agreed'[K] = said[K] => Said(K)'
  <2>0. Settled(op[p])
    BY <1>0, <1>7 DEF Knows
  <2>1. manifest' = manifest
    BY <1>1
  <2>2. CASE op[p].kind = "set"
    <3>1. K \in DOMAIN manifest /\ overlay' = With(overlay, K, op[p].want) /\ K \in Ids
      BY <1>0, <1>1, <1>4, <2>0, <2>2 DEF Settled, OpShape, Keys
    <3>2. /\ DOMAIN overlay' = DOMAIN overlay \cup {K} /\ overlay'[K] = op[p].want
          /\ \A j \in DOMAIN overlay \ {K} : overlay'[j] = overlay[j]
      BY <3>1 DEF With, Over, Just
    <3>3. Alike(Rows(K))
      BY <2>1, <3>2 DEF Alike, Rows
    <3>4. K \in Effective(manifest', overlay') <=> op[p].want
      BY <2>1, <3>1, <3>2, Zenon DEF Effective, Enabled
    <3>5. agreed'[K] = said[K] => Said(K)'
      BY <1>2, <1>6, <2>2, <3>1, <3>4, Zenon DEF Said
    <3> QED BY <3>3, <3>5
  <2>3. CASE op[p].kind = "switch" /\ op[p].want
    <3>1. PICK k \in Own(K) \cap Ids \cap DOMAIN manifest : overlay' = With(overlay, k, TRUE)
      BY <1>1, <1>4, <2>0, <2>3 DEF Settled
    <3>2. /\ DOMAIN overlay' = DOMAIN overlay \cup {k} /\ overlay'[k] = TRUE
          /\ \A j \in DOMAIN overlay \ {k} : overlay'[j] = overlay[j]
      BY <3>1 DEF With, Over, Just
    <3>3. K \in Tools /\ K \notin Ids
      BY <1>0, <1>4, <2>3 DEF OpShape
    <3>4. Alike(Rows(K))
      BY <2>1, <3>1, <3>2, <3>3 DEF Alike, Rows
    <3>5. k \in Effective(manifest', overlay')
      BY <2>1, <3>1, <3>2, Zenon DEF Effective, Enabled
    <3>6. GateOf[k] = GateOf[K]
      BY <3>1 DEF Own
    <3>7. agreed'[K] = said[K] => Said(K)'
      <4>1. said[K] = TRUE
        BY <1>2, <1>6, <2>3
      <4> QED BY <3>3, <3>5, <3>6, <4>1, Zenon DEF Said
    <3> QED BY <3>4, <3>7
  <2>4. CASE op[p].kind = "switch" /\ ~op[p].want
    <3>1. PICK S \in SUBSET Own(K) : overlay' = Without(overlay, S)
      BY <1>1, <1>4, <2>0, <2>4 DEF Settled
    <3>2. /\ DOMAIN overlay' = DOMAIN overlay \ S
          /\ \A j \in DOMAIN overlay \ S : overlay'[j] = overlay[j]
      BY <3>1 DEF Without
    <3>3. K \in Tools /\ K \notin Ids
      BY <1>0, <1>4, <2>4 DEF OpShape
    <3>4. Alike(Rows(K))
      BY <2>1, <3>1, <3>2, <3>3 DEF Alike, Rows
    <3>5. Own(K) \cap DOMAIN manifest' = {}
      BY <1>4, <2>0, <2>1, <2>4 DEF Settled
    <3>6. agreed'[K] = said[K] => Said(K)'
      <4>1. said[K] = FALSE
        BY <1>0, <1>2, <1>6, <2>4
      <4> QED BY <3>3, <3>5, <4>1, Zenon DEF Said
    <3> QED BY <3>4, <3>6
  <2>5. CASE op[p].kind \in {"remove", "undo"}
    <3>1. K \notin DOMAIN manifest /\ overlay' = Without(overlay, {K}) /\ K \in Ids
      BY <1>0, <1>1, <1>4, <2>0, <2>5 DEF Settled, OpShape, Keys
    <3>2. /\ DOMAIN overlay' = DOMAIN overlay \ {K}
          /\ \A j \in DOMAIN overlay \ {K} : overlay'[j] = overlay[j]
      BY <3>1 DEF Without
    <3>3. Alike(Rows(K))
      BY <2>1, <3>2 DEF Alike, Rows
    <3>4. K \notin Effective(manifest', overlay')
      BY <2>1, <3>1 DEF Effective
    <3>5. agreed'[K] = said[K] => Said(K)'
      BY <1>2, <1>6, <2>5, <3>1, <3>4, Zenon DEF Said
    <3> QED BY <3>3, <3>5
  <2> QED BY <1>0, <2>2, <2>3, <2>4, <2>5 DEF OpShape
<1>8. alone /\ faults = 0 => ~typo' /\ DOMAIN overlay' \subseteq DOMAIN manifest'
  BY <1>0, <1>1 DEF Tidy
<1> QED BY <1>0, <1>1, <1>3, <1>4, <1>6, <1>7, <1>8, AnswerInv

-----------------------------------------------------------------------------
(* The manifest is written.                                                *)

(* What a process knows before it writes.                                  *)
LEMMA WriteFacts ==
  ASSUME HookInv, NEW p \in Procs, Write(p)
  PROVE  /\ FileType /\ OpsType /\ p \in Busy /\ op[p] \in Op /\ OpShape(op[p])
         /\ op[p].at = "write" /\ op[p].key \in Keys /\ op[p].want \in BOOLEAN
         /\ op[p].raw \in Partial(Keys, BOOLEAN) /\ op[p].mem \in Partial(Keys, BOOLEAN)
         /\ op[p].seen \in Partial(Ids, BOOLEAN)
         /\ op[p].kind # "switch" => op[p].key \in Ids /\ op[p].key \notin Tools
         /\ op[p].kind = "switch" => op[p].key \in Tools /\ op[p].key \notin Ids
         /\ alone => /\ Knows(op[p])
                     /\ op[p].raw = IF typo THEN Nothing ELSE manifest
                     /\ op[p].kind # "switch" => ~typo
                     /\ op[p].kind = "switch" => op[p].seen = overlay
         /\ alone /\ faults = 0 => ~typo /\ DOMAIN overlay \subseteq DOMAIN manifest
         /\ faults \in 0..MaxFaults /\ faults >= faults
         /\ UNCHANGED <<overlay, live, snap, ops, faults, alone>> /\ UNCHANGED countVars
<1>1. op[p].at = "write" /\ UNCHANGED <<overlay, live, snap, ops, faults, alone>> /\ UNCHANGED countVars
  BY DEF Write, countVars
<1>2. /\ FileType /\ OpsType /\ p \in Busy /\ op[p] \in Op /\ OpShape(op[p])
      /\ op[p].key \in Keys /\ op[p].want \in BOOLEAN
      /\ op[p].raw \in Partial(Keys, BOOLEAN) /\ op[p].mem \in Partial(Keys, BOOLEAN)
      /\ op[p].seen \in Partial(Ids, BOOLEAN)
      /\ alone => Knows(op[p])
      /\ alone /\ faults = 0 => ~typo /\ Tidy(op[p])
      /\ faults \in 0..MaxFaults /\ faults >= faults
  BY <1>1, BusyFacts
<1>3. /\ op[p].kind # "switch" => op[p].key \in Ids /\ op[p].key \notin Tools
      /\ op[p].kind = "switch" => op[p].key \in Tools /\ op[p].key \notin Ids
  BY <1>2 DEF OpShape, Keys
<1>4. alone => /\ op[p].raw = IF typo THEN Nothing ELSE manifest
               /\ op[p].kind # "switch" => ~typo
               /\ op[p].kind = "switch" => op[p].seen = overlay
  BY <1>1, <1>2 DEF Knows
<1>5. alone /\ faults = 0 => ~typo /\ DOMAIN overlay \subseteq DOMAIN manifest
  BY <1>1, <1>2 DEF Tidy
<1> QED BY <1>1, <1>2, <1>3, <1>4, <1>5

LEMMA PutType ==
  ASSUME FileType, NEW m \in Partial(Keys, BOOLEAN), Put(m) \/ Keep, UNCHANGED <<overlay, live, snap>>
  PROVE  FileType'
  BY Zenon DEF FileType, Put, Keep

LEMMA KeepAlike ==
  ASSUME NEW R, Keep, UNCHANGED overlay
  PROVE  Alike(R)
  BY DEF Alike, Keep

LEMMA WriteSetInv ==
  ASSUME HookInv, NEW p \in Procs, Write(p), WriteSet(p)
  PROVE  HookInv' /\ Stands
<1> DEFINE K == op[p].key
           m == [op[p].raw EXCEPT ![K] = op[p].want]
<1>0. /\ FileType /\ OpsType /\ p \in Busy /\ op[p] \in Op /\ OpShape(op[p])
      /\ op[p].at = "write" /\ op[p].key \in Keys /\ op[p].want \in BOOLEAN
      /\ op[p].raw \in Partial(Keys, BOOLEAN)
      /\ op[p].kind = "set" /\ op[p].key \in Ids /\ op[p].key \notin Tools
      /\ alone => op[p].raw = manifest /\ ~typo /\ DOMAIN op[p].mem = DOMAIN manifest
      /\ alone /\ faults = 0 => ~typo /\ DOMAIN overlay \subseteq DOMAIN manifest
      /\ faults \in 0..MaxFaults /\ faults >= faults
      /\ UNCHANGED <<overlay, live, snap, ops, faults, alone>> /\ UNCHANGED countVars
  <2>1. op[p].kind = "set"
    BY DEF WriteSet
  <2> QED BY <2>1, WriteFacts DEF Knows
<1>1. K \in DOMAIN op[p].raw =>
        /\ m \in Partial(Keys, BOOLEAN) /\ DOMAIN m = DOMAIN op[p].raw
        /\ \A j \in DOMAIN op[p].raw \ {K} : m[j] = op[p].raw[j]
  BY <1>0, FlagFacts
<1> HIDE DEF m
<1>2. IF K \in DOMAIN op[p].raw THEN Put(m) ELSE Keep
  BY DEF WriteSet, m
<1>3. FileType'
  BY <1>0, <1>1, <1>2, PutType, NothingFacts
<1>4. alone => Alike(Rows(K)) /\ DOMAIN manifest' = DOMAIN manifest /\ ~typo'
  <2>1. CASE K \in DOMAIN op[p].raw
    BY <1>0, <1>1, <1>2, <2>1 DEF Put, Alike, Rows
  <2>2. CASE K \notin DOMAIN op[p].raw
    BY <1>0, <1>2, <2>2, KeepAlike DEF Keep
  <2> QED BY <2>1, <2>2
<1>5. CASE K \in DOMAIN op[p].raw \/ K \in DOMAIN op[p].mem
  <2>1. agreed' = agreed /\ op' = [op EXCEPT ![p].at = "state"]
    BY <1>5 DEF WriteSet, Goto
  <2>2. PICK o : o = [op[p] EXCEPT !.at = "state"]
    OBVIOUS
  <2>3. /\ o \in Op /\ o.at = "state" /\ o.kind = "set" /\ o.key = op[p].key /\ o.mem = op[p].mem
    <3>1. o \in Op
      BY <1>0, <2>2, Zenon DEF Op
    <3> QED BY <1>0, <2>2, <3>1, SMT DEF Op
  <2>4. op' = [op EXCEPT ![p] = o]
    BY <1>0, <2>1, <2>2
  <2>5. OpShape(o)
    BY <1>0, <2>3 DEF OpShape
  <2>6. alone => Knows(o)' /\ (faults = 0 => ~typo' /\ Tidy(o)')
    BY <1>0, <1>4, <1>5, <2>3 DEF Knows, Tidy
  <2> QED BY <1>0, <1>3, <1>4, <2>1, <2>3, <2>4, <2>5, <2>6, GotoInv
<1>6. CASE K \notin DOMAIN op[p].raw /\ K \notin DOMAIN op[p].mem
  <2>1. Refuse(p)
    BY <1>6 DEF WriteSet
  <2> QED BY <1>0, <1>3, <1>4, <2>1, RefuseInv
<1> QED BY <1>5, <1>6

LEMMA WriteAddInv ==
  ASSUME HookInv, NEW p \in Procs, Write(p), WriteAdd(p)
  PROVE  HookInv' /\ Stands
<1> DEFINE m == With(op[p].raw, op[p].key, op[p].want)
<1>0. /\ FileType /\ OpsType /\ p \in Busy /\ op[p] \in Op /\ OpShape(op[p])
      /\ op[p].at = "write" /\ op[p].key \in Keys /\ op[p].want \in BOOLEAN
      /\ op[p].raw \in Partial(Keys, BOOLEAN) /\ op[p].mem \in Partial(Keys, BOOLEAN)
      /\ op[p].kind = "add" /\ op[p].key \in Ids /\ op[p].key \notin Tools
      /\ alone => op[p].raw = manifest /\ ~typo
      /\ alone /\ faults = 0 => ~typo /\ DOMAIN overlay \subseteq DOMAIN manifest
      /\ faults \in 0..MaxFaults /\ faults >= faults
      /\ UNCHANGED <<overlay, live, snap, ops, faults, alone>> /\ UNCHANGED countVars
  <2>1. op[p].kind = "add"
    BY DEF WriteAdd
  <2> QED BY <2>1, WriteFacts
<1>1. PICK K : K = op[p].key
  OBVIOUS
<1>2. /\ m \in Partial(Keys, BOOLEAN) /\ DOMAIN m = DOMAIN op[p].raw \cup {K} /\ m[K] = op[p].want
      /\ \A j \in DOMAIN op[p].raw \ {K} : m[j] = op[p].raw[j]
  <2>1. m \in Partial(Keys, BOOLEAN)
    BY <1>0, WithType
  <2> QED BY <1>1, <2>1 DEF With, Over, Just
<1>3. Put(m)
  BY DEF WriteAdd
<1> HIDE DEF m
<1>4. FileType'
  BY <1>0, <1>2, <1>3, PutType
<1>5. alone => Alike(Rows(K)) /\ DOMAIN manifest' = DOMAIN manifest \cup {K} /\ manifest'[K] = op[p].want
  BY <1>0, <1>2, <1>3 DEF Put, Alike, Rows
<1>6. ~typo' /\ (alone /\ faults = 0 => DOMAIN overlay' \subseteq DOMAIN manifest')
  BY <1>0, <1>3, <1>5 DEF Put
<1>7. CASE Answer(p, Just(op[p].key, op[p].want))
  <2>1. PICK said : said = Just(K, op[p].want)
    OBVIOUS
  <2>2. /\ Answer(p, said) /\ said[K] = op[p].want
        /\ said = Nothing \/ \E flag \in BOOLEAN : said = Just(K, flag)
    BY <1>0, <1>1, <1>7, <2>1 DEF Just
  <2>3. CASE K \in DOMAIN overlay
    <3>1. op'[p] = Idle /\ op[p] # Idle
      BY <1>0, <1>7, OpNotIdle DEF Answer, OpsType, Busy
    <3>2. AddedOverKey(K)
      BY <1>0, <1>1, <2>3, <3>1 DEF AddedOverKey
    <3> QED BY <1>0, <1>1, <1>4, <1>5, <1>6, <2>2, <3>2, AnswerInv
  <2>4. CASE K \notin DOMAIN overlay
    <3>1. alone => (agreed'[K] = said[K] => Said(K)')
      <4> SUFFICES ASSUME alone, agreed'[K] = said[K] PROVE Said(K)'
        OBVIOUS
      <4>1. K \in Effective(manifest', overlay') <=> op[p].want
        BY <1>0, <1>5, <2>4 DEF Effective, Enabled
      <4> QED BY <1>0, <1>1, <2>2, <4>1, Zenon DEF Said
    <3> QED BY <1>0, <1>1, <1>4, <1>5, <1>6, <2>2, <3>1, AnswerInv
  <2> QED BY <2>3, <2>4
<1>8. CASE ~Answer(p, Just(op[p].key, op[p].want))
  <2> DEFINE mem == With(op[p].mem, op[p].key, op[p].want)
  <2>1. /\ agreed' = agreed
        /\ op' = [op EXCEPT ![p].at = "read", ![p].kind = "undo", ![p].mem = mem]
    BY <1>8 DEF WriteAdd
  <2>2. mem \in Partial(Keys, BOOLEAN)
    BY <1>0, WithType
  <2> HIDE DEF mem
  <2>3. PICK o : o = [op[p] EXCEPT !.at = "read", !.kind = "undo", !.mem = mem]
    OBVIOUS
  <2>4. o \in Op /\ o.at = "read" /\ o.kind = "undo" /\ o.key = op[p].key
    <3>1. o \in Op
      BY <1>0, <2>2, <2>3, Zenon DEF Op
    <3> QED BY <1>0, <2>3, <3>1, SMT DEF Op
  <2>5. op' = [op EXCEPT ![p] = o]
    BY <1>0, <2>1, <2>3
  <2>6. OpShape(o)
    BY <1>0, <2>4 DEF OpShape
  <2>7. alone => Knows(o)' /\ (faults = 0 => ~typo' /\ Tidy(o)')
    BY <1>6, <2>4 DEF Knows, Tidy
  <2> QED BY <1>0, <1>1, <1>4, <1>5, <2>1, <2>4, <2>5, <2>6, <2>7, GotoInv
<1> QED BY <1>7, <1>8

LEMMA WriteRemoveInv ==
  ASSUME HookInv, NEW p \in Procs, Write(p), WriteRemove(p)
  PROVE  HookInv' /\ Stands
<1> DEFINE K == op[p].key
           m == Without(op[p].raw, {K})
<1>0. /\ FileType /\ OpsType /\ p \in Busy /\ op[p] \in Op /\ OpShape(op[p])
      /\ op[p].at = "write" /\ op[p].raw \in Partial(Keys, BOOLEAN)
      /\ op[p].kind \in {"remove", "undo"} /\ op[p].key \in Ids /\ op[p].key \notin Tools
      /\ alone => op[p].raw = manifest /\ ~typo
      /\ alone /\ faults = 0 => ~typo /\ DOMAIN overlay \subseteq DOMAIN manifest
      /\ UNCHANGED <<overlay, live, snap, ops, faults, alone>> /\ UNCHANGED countVars
  <2>1. op[p].kind \in {"remove", "undo"}
    BY DEF WriteRemove
  <2> QED BY <2>1, WriteFacts
<1>1. /\ m \in Partial(Keys, BOOLEAN) /\ DOMAIN m = DOMAIN op[p].raw \ {K}
      /\ \A j \in DOMAIN op[p].raw \ {K} : m[j] = op[p].raw[j]
  <2>1. m \in Partial(Keys, BOOLEAN)
    BY <1>0, WithoutType
  <2> QED BY <2>1 DEF Without
<1>2. /\ IF K \in DOMAIN op[p].raw THEN Put(m) ELSE Keep
      /\ agreed' = agreed /\ op' = [op EXCEPT ![p].at = "state"]
  BY DEF WriteRemove, Goto
<1> HIDE DEF m
<1>3. FileType'
  BY <1>0, <1>1, <1>2, PutType
<1>4. alone => Alike(Rows(K)) /\ DOMAIN manifest' = DOMAIN manifest \ {K} /\ ~typo'
  <2>1. CASE K \in DOMAIN op[p].raw
    BY <1>0, <1>1, <1>2, <2>1 DEF Put, Alike, Rows
  <2>2. CASE K \notin DOMAIN op[p].raw
    BY <1>0, <1>2, <2>2, KeepAlike DEF Keep
  <2> QED BY <2>1, <2>2
<1>5. PICK o : o = [op[p] EXCEPT !.at = "state"]
  OBVIOUS
<1>6. /\ o \in Op /\ o.at = "state" /\ o.kind = op[p].kind /\ o.key = op[p].key
  <2>1. o \in Op
    BY <1>0, <1>5, Zenon DEF Op
  <2> QED BY <1>0, <1>5, <2>1, SMT DEF Op
<1>7. op' = [op EXCEPT ![p] = o]
  BY <1>0, <1>2, <1>5
<1>8. OpShape(o)
  BY <1>0, <1>6 DEF OpShape
<1>9. alone => Knows(o)' /\ (faults = 0 => ~typo' /\ Tidy(o)')
  BY <1>0, <1>4, <1>6 DEF Knows, Tidy, Strays
<1> QED BY <1>0, <1>2, <1>3, <1>4, <1>6, <1>7, <1>8, <1>9, GotoInv

LEMMA WriteOnInv ==
  ASSUME HookInv, NEW p \in Procs, Write(p), WriteOn(p)
  PROVE  HookInv' /\ Stands
<1>1. PICK K : K = op[p].key
  OBVIOUS
<1>2. PICK raw : raw = op[p].raw
  OBVIOUS
<1>3. PICK on : on = Just(K, TRUE)
  OBVIOUS
<1>0. /\ FileType /\ OpsType /\ p \in Busy /\ op[p] \in Op /\ OpShape(op[p])
      /\ op[p].at = "write" /\ raw \in Partial(Keys, BOOLEAN) /\ op[p].seen \in Partial(Ids, BOOLEAN)
      /\ op[p].kind = "switch" /\ op[p].want /\ K \in Tools /\ K \notin Ids
      /\ alone => /\ raw = IF typo THEN Nothing ELSE manifest
                  /\ op[p].seen = overlay
      /\ alone /\ faults = 0 => ~typo /\ DOMAIN overlay \subseteq DOMAIN manifest
      /\ faults \in 0..MaxFaults /\ faults >= faults
      /\ UNCHANGED <<overlay, live, snap, ops, faults, alone>> /\ UNCHANGED countVars
  <2>1. op[p].kind = "switch" /\ op[p].want
    BY DEF WriteOn
  <2> QED BY <1>1, <1>2, <2>1, WriteFacts
<1>4. on[K] = TRUE /\ (on = Nothing \/ \E flag \in BOOLEAN : on = Just(K, flag))
  BY <1>3 DEF Just
<1>5. \/ Keep /\ Refuse(p)
      \/ \E k \in Own(K) \cap DOMAIN raw : IsOn(op[p], k) /\ Keep /\ Answer(p, on)
      \/ \E k \in Own(K) \cap DOMAIN raw :
           /\ Put([raw EXCEPT ![k] = TRUE])
           /\ IF k \in Ids
              THEN op' = [op EXCEPT ![p].at = "save", ![p].seen = With(op[p].seen, k, TRUE)]
                   /\ UNCHANGED agreed
              ELSE Answer(p, on)
      \/ \E k \in Foreign(K) \cap DOMAIN raw : IsOn(op[p], k) /\ Keep /\ Answer(p, on)
      \/ (Own(K) \cup Foreign(K)) \cap DOMAIN raw = {} /\ Put(With(raw, K, TRUE)) /\ Answer(p, on)
  <2>1. CASE Rivals(K) # {} /\ GateOf[K] # K
    BY <1>1, <2>1, Zenon DEF WriteOn
  <2>2. CASE ~(Rivals(K) # {} /\ GateOf[K] # K)
    <3>1. \/ \E k \in Own(K) \cap DOMAIN raw :
                IF IsOn(op[p], k)
                THEN Keep /\ Answer(p, on)
                ELSE /\ Put([raw EXCEPT ![k] = TRUE])
                     /\ IF k \in Ids
                        THEN op' = [op EXCEPT ![p].at = "save", ![p].seen = With(op[p].seen, StateKey(op[p], k), TRUE)]
                             /\ UNCHANGED agreed
                        ELSE Answer(p, on)
          \/ \E k \in Foreign(K) \cap DOMAIN raw :
                Keep /\ IF IsOn(op[p], k) THEN Answer(p, on) ELSE Refuse(p)
          \/ (Own(K) \cap DOMAIN raw) \cup (Foreign(K) \cap DOMAIN raw) = {} /\ Put(With(raw, K, TRUE)) /\ Answer(p, on)
      BY <1>1, <1>2, <1>3, <2>2, Zenon DEF WriteOn
    <3>2. ASSUME NEW k, op' = [op EXCEPT ![p].at = "save", ![p].seen = With(op[p].seen, StateKey(op[p], k), TRUE)]
          PROVE  op' = [op EXCEPT ![p].at = "save", ![p].seen = With(op[p].seen, k, TRUE)]
      BY <3>2 DEF StateKey
    <3>3. ASSUME (Own(K) \cap DOMAIN raw) \cup (Foreign(K) \cap DOMAIN raw) = {}
          PROVE  (Own(K) \cup Foreign(K)) \cap DOMAIN raw = {}
      BY <3>3
    <3> QED BY <3>1, <3>2, <3>3, Zenon
  <2> QED BY <2>1, <2>2
<1>6. \A k \in Own(K) \cup Foreign(K) : k \in Keys /\ GateOf[k] = GateOf[K]
  BY DEF Own, Foreign
<1>7. ASSUME Keep
      PROVE FileType' /\ Alike(Rows(K)) /\ (alone /\ faults = 0 => ~typo' /\ DOMAIN overlay' \subseteq DOMAIN manifest')
            /\ manifest' = manifest
  BY <1>0, <1>7, PutType, NothingFacts, KeepAlike DEF Keep
<1>8. CASE Keep /\ Refuse(p)
  BY <1>0, <1>1, <1>7, <1>8, RefuseInv
(* A row that gates already, the tool's own or another's.                  *)
<1>9. ASSUME NEW k \in (Own(K) \cup Foreign(K)) \cap DOMAIN raw, IsOn(op[p], k), Keep, Answer(p, on)
      PROVE  HookInv' /\ Stands
  <2>1. alone => (agreed'[K] = on[K] => Said(K)')
    <3> SUFFICES ASSUME alone, agreed'[K] = TRUE PROVE Said(K)'
      BY <1>4
    <3>1. raw = manifest
      BY <1>0, <1>9, NothingFacts
    <3>2. k \in Effective(manifest', overlay')
      BY <1>0, <1>2, <1>7, <1>9, <3>1, Zenon DEF Effective, IsOn
    <3> QED BY <1>0, <1>6, <3>2, Zenon DEF Said
  <2> QED BY <1>0, <1>1, <1>4, <1>7, <1>9, <2>1, AnswerInv
(* The tool's own row is enabled, with its key in the overlay if it has an id. *)
<1>10. ASSUME NEW k \in Own(K) \cap DOMAIN raw, Put([raw EXCEPT ![k] = TRUE]),
              IF k \in Ids
              THEN op' = [op EXCEPT ![p].at = "save", ![p].seen = With(op[p].seen, k, TRUE)]
                   /\ UNCHANGED agreed
              ELSE Answer(p, on)
       PROVE  HookInv' /\ Stands
  <2> DEFINE m == [raw EXCEPT ![k] = TRUE]
  <2>1. /\ m \in Partial(Keys, BOOLEAN) /\ DOMAIN m = DOMAIN raw /\ m[k] = TRUE
        /\ \A j \in DOMAIN raw \ {k} : m[j] = raw[j]
    BY <1>0, FlagFacts
  <2>2. Put(m)
    BY <1>10
  <2> HIDE DEF m
  <2>3. FileType'
    BY <1>0, <2>1, <2>2, PutType
  <2>4. alone => /\ Alike(Rows(K)) /\ DOMAIN manifest' = DOMAIN manifest /\ manifest'[k] = TRUE
                 /\ raw = manifest /\ ~typo'
    <3> SUFFICES ASSUME alone PROVE /\ Alike(Rows(K)) /\ DOMAIN manifest' = DOMAIN manifest /\ manifest'[k] = TRUE
                                    /\ raw = manifest /\ ~typo'
      OBVIOUS
    <3>1. raw = manifest
      BY <1>0, NothingFacts
    <3>2. k \in Rows(K)
      BY <1>0 DEF Rows
    <3> QED BY <1>0, <2>1, <2>2, <3>1, <3>2 DEF Put, Alike
  <2>5. CASE k \in Ids
    <3> DEFINE seen == With(op[p].seen, k, TRUE)
    <3>1. seen \in Partial(Ids, BOOLEAN) /\ DOMAIN seen = DOMAIN op[p].seen \cup {k}
      <4>1. seen \in Partial(Ids, BOOLEAN)
        BY <1>0, <2>5, WithType
      <4> QED BY <4>1 DEF With, Over, Just
    <3>2. op' = [op EXCEPT ![p].at = "save", ![p].seen = seen] /\ agreed' = agreed
      BY <1>10, <2>5
    <3>3. alone => seen = With(overlay, k, TRUE)
      BY <1>0
    <3> HIDE DEF seen
    <3>4. PICK o : o = [op[p] EXCEPT !.at = "save", !.seen = seen]
      OBVIOUS
    <3>5. /\ o \in Op /\ o.at = "save" /\ o.kind = "switch" /\ o.want /\ o.key = K /\ o.seen = seen
          /\ o.key = op[p].key
      <4>1. o \in Op
        BY <1>0, <3>1, <3>4, Zenon DEF Op
      <4>2. o.at = "save" /\ o.kind = "switch" /\ o.key = K /\ o.seen = seen /\ o.key = op[p].key
        BY <1>0, <1>1, <3>4, <4>1, SMT DEF Op
      <4>3. o.want = op[p].want
        BY <1>0, <3>4, Zenon DEF Op
      <4> QED BY <1>0, <4>1, <4>2, <4>3, Zenon
    <3>6. op' = [op EXCEPT ![p] = o]
      BY <1>0, <3>2, <3>4
    <3>7. OpShape(o)
      BY <1>0, <3>5 DEF OpShape
    <3>8. alone => Settled(o)'
      <4> SUFFICES ASSUME alone PROVE Settled(o)'
        OBVIOUS
      <4>1. k \in Own(K) \cap Ids \cap DOMAIN manifest' /\ o.seen = With(overlay', k, TRUE)
        BY <1>0, <2>4, <2>5, <3>3, <3>5
      <4>2. \E j \in (Own(o.key) \cap Ids \cap DOMAIN manifest)' : o.seen = With(overlay', j, TRUE)
        BY <3>5, <4>1 DEF Own
      <4> QED BY <3>5, <4>2, Zenon DEF Settled
    <3>9. alone => Knows(o)'
      BY <2>4, <3>5, <3>8 DEF Knows
    <3>10. alone /\ faults = 0 => ~typo' /\ Tidy(o)'
      BY <1>0, <2>4, <3>1, <3>5 DEF Tidy
    <3> QED BY <1>0, <1>1, <2>3, <2>4, <3>2, <3>5, <3>6, <3>7, <3>9, <3>10, GotoInv
  <2>6. CASE k \notin Ids
    <3>1. Answer(p, on)
      BY <1>10, <2>6
    <3>2. alone => (agreed'[K] = on[K] => Said(K)')
      <4> SUFFICES ASSUME alone, agreed'[K] = TRUE PROVE Said(K)'
        BY <1>4
      <4>1. k \notin DOMAIN overlay'
        BY <2>3, <2>6, PartialFacts DEF FileType
      <4>2. k \in Effective(manifest', overlay')
        BY <2>4, <4>1, Zenon DEF Effective, Enabled
      <4> QED BY <1>0, <1>6, <4>2, Zenon DEF Said
    <3>3. alone /\ faults = 0 => ~typo' /\ DOMAIN overlay' \subseteq DOMAIN manifest'
      BY <1>0, <2>4
    <3> QED BY <1>0, <1>1, <1>4, <2>3, <2>4, <3>1, <3>2, <3>3, AnswerInv
  <2> QED BY <2>5, <2>6
(* There is no row yet: it is authored.                                    *)
<1>11. ASSUME (Own(K) \cup Foreign(K)) \cap DOMAIN raw = {}, Put(With(raw, K, TRUE)), Answer(p, on)
       PROVE  HookInv' /\ Stands
  <2> DEFINE m == With(raw, K, TRUE)
  <2>1. /\ m \in Partial(Keys, BOOLEAN) /\ DOMAIN m = DOMAIN raw \cup {K} /\ m[K] = TRUE
        /\ \A j \in DOMAIN raw \ {K} : m[j] = raw[j]
    <3>1. m \in Partial(Keys, BOOLEAN)
      BY <1>0, WithType DEF Keys
    <3> QED BY <3>1 DEF With, Over, Just
  <2>2. Put(m)
    BY <1>11
  <2> HIDE DEF m
  <2>3. FileType'
    BY <1>0, <2>1, <2>2, PutType
  <2>4. K \in DOMAIN manifest' /\ manifest'[K] = TRUE /\ ~typo'
    BY <2>1, <2>2 DEF Put
  <2>5. alone => Alike(Rows(K)) \/ \A k : SwitchedUnread(k)
    <3>1. alone /\ ~typo => Alike(Rows(K))
      BY <1>0, <2>1, <2>2 DEF Put, Alike, Rows
    <3>2. op'[p] # op[p]
      BY <1>0, <1>11, OpNotIdle DEF Answer, OpsType, Busy
    <3>3. typo => \A k : SwitchedUnread(k)
      BY <1>0, <2>4, <3>2 DEF SwitchedUnread
    <3> QED BY <3>1, <3>3
  <2>6. agreed'[K] = on[K] => Said(K)'
    <3> SUFFICES ASSUME agreed'[K] = TRUE PROVE Said(K)'
      BY <1>4
    <3>1. K \notin DOMAIN overlay'
      BY <1>0, <2>3, PartialFacts DEF FileType
    <3>2. K \in Effective(manifest', overlay')
      BY <2>4, <3>1, Zenon DEF Effective, Enabled
    <3> QED BY <1>0, <3>2, Zenon DEF Said
  <2>7. alone /\ faults = 0 => ~typo' /\ DOMAIN overlay' \subseteq DOMAIN manifest'
    BY <1>0, <2>1, <2>2, <2>4 DEF Put
  <2> QED BY <1>0, <1>1, <1>4, <1>11, <2>3, <2>5, <2>6, <2>7, AnswerInv
<1> QED BY <1>5, <1>8, <1>9, <1>10, <1>11, Zenon

LEMMA WriteOffInv ==
  ASSUME HookInv, NEW p \in Procs, Write(p), WriteOff(p)
  PROVE  HookInv' /\ Stands
<1>1. PICK K : K = op[p].key
  OBVIOUS
<1>2. PICK raw : raw = op[p].raw
  OBVIOUS
<1>3. PICK off : off = Just(K, FALSE)
  OBVIOUS
<1>4. PICK own : own = Own(K) \cap DOMAIN raw
  OBVIOUS
<1>0. /\ FileType /\ OpsType /\ p \in Busy /\ op[p] \in Op /\ OpShape(op[p])
      /\ op[p].at = "write" /\ raw \in Partial(Keys, BOOLEAN) /\ op[p].seen \in Partial(Ids, BOOLEAN)
      /\ op[p].kind = "switch" /\ op[p].want = FALSE /\ K \in Tools /\ K \notin Ids
      /\ alone => /\ raw = IF typo THEN Nothing ELSE manifest
                  /\ op[p].seen = overlay
      /\ alone /\ faults = 0 => ~typo /\ DOMAIN overlay \subseteq DOMAIN manifest
      /\ faults \in 0..MaxFaults /\ faults >= faults
      /\ UNCHANGED <<overlay, live, snap, ops, faults, alone>> /\ UNCHANGED countVars
  <2>1. op[p].kind = "switch" /\ ~op[p].want
    BY DEF WriteOff
  <2> QED BY <1>1, <1>2, <2>1, WriteFacts
<1>5. off[K] = FALSE /\ (off = Nothing \/ \E flag \in BOOLEAN : off = Just(K, flag))
  BY <1>3 DEF Just
<1>6. IF own = {} THEN Keep /\ Answer(p, off)
      ELSE /\ Put(Without(raw, own))
           /\ IF own \cap Ids = {} THEN Answer(p, off)
              ELSE /\ op' = [op EXCEPT ![p].at = "save", ![p].seen = Without(op[p].seen, own)]
                   /\ UNCHANGED agreed
  BY <1>1, <1>2, <1>3, <1>4, Zenon DEF WriteOff
<1>7. ASSUME alone, ~typo', Own(K) \cap DOMAIN manifest' = {}, agreed'[K] = off[K]
      PROVE  Said(K)'
  <2>1. (Own(K) \cap DOMAIN manifest)' = {}
    BY <1>7 DEF Own
  <2> QED BY <1>0, <1>5, <1>7, <2>1, Zenon DEF Said
<1>8. CASE own = {}
  <2>1. FileType' /\ Alike(Rows(K)) /\ manifest' = manifest /\ typo' = typo
    BY <1>0, <1>6, <1>8, PutType, NothingFacts, KeepAlike DEF Keep
  <2>2. CASE typo
    <3>1. Answer(p, off)
      BY <1>6, <1>8
    <3>2. op'[p] # op[p]
      BY <1>0, <3>1, OpNotIdle DEF Answer, OpsType, Busy
    <3>3. SwitchedUnread(K)
      BY <1>0, <1>1, <2>2, <3>2 DEF SwitchedUnread
    <3>4. alone => faults # 0
      BY <1>0, <2>2
    <3> QED BY <1>0, <1>1, <1>5, <2>1, <3>1, <3>3, <3>4, AnswerInv
  <2>3. CASE ~typo
    <3>1. alone => Own(K) \cap DOMAIN manifest' = {}
      BY <1>0, <1>4, <1>8, <2>1, <2>3
    <3>2. alone => (agreed'[K] = off[K] => Said(K)')
      BY <1>7, <2>1, <2>3, <3>1
    <3>3. Answer(p, off)
      BY <1>6, <1>8, <2>3
    <3> QED BY <1>0, <1>1, <1>5, <2>1, <3>2, <3>3, AnswerInv
  <2> QED BY <2>2, <2>3
<1>9. CASE own # {}
  <2> DEFINE m == Without(raw, own)
  <2>1. /\ m \in Partial(Keys, BOOLEAN) /\ DOMAIN m = DOMAIN raw \ own
        /\ \A j \in DOMAIN raw \ own : m[j] = raw[j]
    <3>1. m \in Partial(Keys, BOOLEAN)
      BY <1>0, WithoutType
    <3> QED BY <3>1 DEF Without
  <2>2. Put(m)
    BY <1>6, <1>9
  <2> HIDE DEF m
  <2>3. FileType'
    BY <1>0, <2>1, <2>2, PutType
  <2>4. alone => raw = manifest
    BY <1>0, <1>4, <1>9, NothingFacts
  <2>5. alone => Alike(Rows(K)) /\ DOMAIN manifest' = DOMAIN manifest \ own
    BY <1>0, <1>4, <2>1, <2>2, <2>4 DEF Put, Alike, Rows
  <2>6. ~typo' /\ (alone => Own(K) \cap DOMAIN manifest' = {})
    BY <1>4, <2>2, <2>4, <2>5 DEF Put
  <2>7. CASE own \cap Ids = {}
    <3>1. alone => (agreed'[K] = off[K] => Said(K)')
      BY <1>7, <2>6
    <3>2. alone /\ faults = 0 => DOMAIN overlay' \subseteq DOMAIN manifest'
      <4>1. DOMAIN overlay \subseteq Ids
        BY <1>0, FileDomains
      <4> QED BY <1>0, <2>5, <2>7, <4>1
    <3>3. Answer(p, off)
      BY <1>6, <1>9, <2>7
    <3> QED BY <1>0, <1>1, <1>5, <2>3, <2>5, <2>6, <3>1, <3>2, <3>3, AnswerInv
  <2>8. CASE own \cap Ids # {}
    <3> DEFINE seen == Without(op[p].seen, own)
    <3>1. seen \in Partial(Ids, BOOLEAN) /\ DOMAIN seen = DOMAIN op[p].seen \ own
      <4>1. seen \in Partial(Ids, BOOLEAN)
        BY <1>0, WithoutType
      <4> QED BY <4>1 DEF Without
    <3>2. op' = [op EXCEPT ![p].at = "save", ![p].seen = seen] /\ agreed' = agreed
      BY <1>6, <1>9, <2>8
    <3>3. alone => seen = Without(overlay, own)
      BY <1>0
    <3> HIDE DEF seen
    <3>4. PICK o : o = [op[p] EXCEPT !.at = "save", !.seen = seen]
      OBVIOUS
    <3>5. /\ o \in Op /\ o.at = "save" /\ o.kind = "switch" /\ o.want = FALSE /\ o.key = K /\ o.seen = seen
          /\ o.key = op[p].key
      <4>1. o \in Op
        BY <1>0, <3>1, <3>4, Zenon DEF Op
      <4>2. o.at = "save" /\ o.kind = "switch" /\ o.key = K /\ o.seen = seen /\ o.key = op[p].key
        BY <1>0, <1>1, <3>4, <4>1, SMT DEF Op
      <4>3. o.want = op[p].want
        BY <1>0, <3>4, Zenon DEF Op
      <4> QED BY <1>0, <4>1, <4>2, <4>3, Zenon
    <3>6. op' = [op EXCEPT ![p] = o]
      BY <1>0, <3>2, <3>4
    <3>7. OpShape(o)
      BY <1>0, <3>5 DEF OpShape
    <3>8. alone => Settled(o)'
      <4> SUFFICES ASSUME alone PROVE Settled(o)'
        OBVIOUS
      <4>1. own \in SUBSET Own(o.key)' /\ o.seen = Without(overlay', own)
        BY <1>0, <1>4, <3>3, <3>5 DEF Own
      <4>2. (Own(o.key) \cap DOMAIN manifest)' = {}
        BY <2>6, <3>5 DEF Own
      <4> QED BY <3>5, <4>1, <4>2, Zenon DEF Settled
    <3>9. alone => Knows(o)'
      BY <2>6, <3>5, <3>8 DEF Knows
    <3>10. alone /\ faults = 0 => ~typo' /\ Tidy(o)'
      BY <1>0, <2>5, <2>6, <3>1, <3>5 DEF Tidy
    <3> QED BY <1>0, <1>1, <2>3, <2>5, <3>2, <3>5, <3>6, <3>7, <3>9, <3>10, GotoInv
  <2> QED BY <2>7, <2>8
<1> QED BY <1>8, <1>9

-----------------------------------------------------------------------------
(* What starts from outside: an operation, a failure, an edit, a reload.   *)

(* The answers that are kept are about what has not changed.               *)
LEMMA StandInv ==
  ASSUME HookInv, FileType', NEW k \in Keys, Alike(Rows(k)),
         \A j \in DOMAIN agreed' : /\ j \in DOMAIN agreed /\ agreed'[j] = agreed[j]
                                   /\ j \notin Touched(k)
  PROVE  Stands
<1>1. FileType /\ DOMAIN agreed \subseteq Keys
  BY TypeParts, PartialFacts DEF HookInv, SaidType
<1>2. ASSUME NEW j \in DOMAIN agreed', j \in DOMAIN agreed => Said(j)
      PROVE  Said(j)'
  BY <1>1, <1>2, SaidKeeps
<1> QED BY <1>2 DEF Stands

LEMMA BeginInv ==
  ASSUME HookInv, NEW p \in Procs, NEW kind \in {"set", "add", "remove", "switch"},
         NEW k \in Keys, NEW want \in BOOLEAN, kind = "switch" <=> k \in Tools,
         Begin(p, kind, k, want)
  PROVE  HookInv' /\ Stands
<1> DEFINE o == [at |-> IF kind = "switch" THEN "read" ELSE "load", kind |-> kind,
                 key |-> k, want |-> want, mem |-> Nothing, raw |-> Nothing,
                 seen |-> Nothing]
<1>0. FileType /\ OpsType /\ CountType /\ SaidType
  BY TypeParts DEF HookInv
<1>1. /\ op[p] = Idle /\ ops < MaxOps /\ op' = [op EXCEPT ![p] = o] /\ ops' = ops + 1
      /\ alone' = (alone /\ Busy = {})
      /\ agreed' = IF alone' THEN Without(agreed, Touched(k)) ELSE Nothing
      /\ UNCHANGED <<manifest, typo, overlay, live, snap, dirty, faults>>
  BY DEF Begin, storeVars, gatewayVars
<1>2. /\ o.at = IF kind = "switch" THEN "read" ELSE "load"
      /\ o.kind = kind /\ o.key = k
  OBVIOUS
<1>3. o \in Op
  <2>1. o.at \in {"load", "apply", "read", "peek", "write", "state", "save"}
    BY <1>2
  <2>2. Nothing \in Partial(Keys, BOOLEAN) /\ Nothing \in Partial(Ids, BOOLEAN)
    BY NothingFacts
  <2> QED BY <2>1, <2>2 DEF Op
<1> HIDE DEF o
<1>4. /\ OpsType' /\ op'[p] = o /\ \A q \in Procs \ {p} : op'[q] = op[q]
      /\ Busy' = Busy \cup {p} /\ p \notin Busy
  <2>1. o # Idle /\ p \notin Busy
    BY <1>1, <1>3, OpNotIdle DEF Busy
  <2>2. /\ OpsType' /\ op'[p] = o /\ \A q \in Procs \ {p} : op'[q] = op[q]
        /\ Busy' = IF o = Idle THEN Busy \ {p} ELSE Busy \cup {p}
    BY <1>0, <1>1, <1>3, OpPut
  <2> QED BY <2>1, <2>2
<1>5. FileType'
  BY <1>0, <1>1, Zenon DEF FileType
<1>6. CountType'
  <2>1. ops' \in 0..MaxOps /\ faults' \in 0..MaxFaults
    BY <1>0, <1>1, SMT DEF CountType
  <2>2. alone' \in BOOLEAN
    BY <1>0, <1>1, Zenon DEF CountType
  <2> QED BY <2>1, <2>2, Zenon DEF CountType
<1>7. SaidType'
  BY <1>0, <1>1, WithoutType, NothingFacts DEF SaidType
<1>8. TypeOK'
  BY <1>4, <1>5, <1>6, <1>7, Zenon DEF TypeOK, FileType, OpsType, CountType, SaidType
<1>9. \A q \in Busy' : OpShape(op'[q])
  <2>1. OpShape(o)
    BY <1>2 DEF OpShape
  <2> QED BY <1>4, <2>1 DEF HookInv, Busy
<1>10. \A j \in DOMAIN agreed' : j \in DOMAIN agreed /\ agreed'[j] = agreed[j] /\ j \notin Touched(k)
  BY <1>1, NothingFacts DEF Without
<1>11. Stands
  BY <1>1, <1>5, <1>10, SameFiles, StandInv
<1>12. ASSUME alone' PROVE Busy = {} /\ alone /\ \A q \in Busy' : q = p /\ op'[q] = o
  BY <1>1, <1>4, <1>12
<1>13. alone' => /\ \A q, r \in Busy' : q = r
                 /\ \A q \in Busy' : Knows(op[q])' /\ Untold(op[q])'
  <2>1. \A x : x = o => Knows(x)'
    BY <1>2 DEF Knows
  <2>2. \A x : x = o => Untold(x)'
    BY <1>2, <1>10 DEF Untold, Touched, Own
  <2> QED BY <1>12, <2>1, <2>2
<1>14. alone' /\ faults' = 0 => /\ ~typo'
                                /\ Busy' = {} => DOMAIN overlay' \subseteq DOMAIN manifest'
                                /\ \A q \in Busy' : Tidy(op[q])'
  <2> SUFFICES ASSUME alone', faults' = 0 PROVE ~typo' /\ \A q \in Busy' : Tidy(op[q])'
    BY <1>4
  <2>1. ~typo /\ DOMAIN overlay \subseteq DOMAIN manifest
    BY <1>1, <1>12 DEF HookInv
  <2>2. \A x : x = o => Tidy(x)'
    BY <1>1, <1>2, <2>1 DEF Tidy
  <2> QED BY <1>1, <1>12, <2>1, <2>2
<1> QED BY <1>1, <1>8, <1>9, <1>11, <1>13, <1>14, Zenon DEF HookInv

LEMMA BeginHookInv ==
  ASSUME HookInv, NEW p \in Procs,
         \/ \E k \in Ids, want \in BOOLEAN : Begin(p, "add", k, want)
         \/ \E k \in Ids : \/ \E want \in BOOLEAN : Begin(p, "set", k, want)
                           \/ Begin(p, "remove", k, FALSE)
  PROVE  HookInv' /\ Stands
<1>1. \A k \in Ids : k \in Keys /\ k \notin Tools
  BY DEF Keys
<1>2. ASSUME NEW k \in Ids, NEW want \in BOOLEAN, NEW kind \in {"set", "add", "remove"},
             Begin(p, kind, k, want)
      PROVE  HookInv' /\ Stands
  BY <1>1, <1>2, BeginInv
<1>3. CASE \E k \in Ids, want \in BOOLEAN : Begin(p, "add", k, want)
  BY <1>2, <1>3
<1>4. CASE \E k \in Ids, want \in BOOLEAN : Begin(p, "set", k, want)
  BY <1>2, <1>4
<1>5. CASE \E k \in Ids : Begin(p, "remove", k, FALSE)
  BY <1>2, <1>5
<1> QED BY <1>3, <1>4, <1>5, Zenon

LEMMA AbortInv ==
  ASSUME HookInv, NEW p \in Procs, Abort(p)
  PROVE  HookInv' /\ Stands
<1>1. /\ FileType /\ CountType /\ p \in Busy
  BY BusyFacts DEF Abort
<1>2. /\ UNCHANGED <<manifest, typo, overlay, live, snap, dirty, ops, alone>>
      /\ faults < MaxFaults /\ faults' = faults + 1 /\ Refuse(p)
  BY DEF Abort, storeVars, gatewayVars
<1>3. FileType' /\ Alike(Rows(op[p].key))
  <2>1. FileType'
    BY <1>1, <1>2, Zenon DEF FileType
  <2> QED BY <1>2, <2>1, SameFiles
<1>4. faults' \in 0..MaxFaults /\ faults' >= faults /\ faults' # 0
  BY <1>1, <1>2, SMT DEF CountType
<1> QED BY <1>1, <1>2, <1>3, <1>4, RefuseInv

(* What an edit keeps, whoever is at work.                                 *)
LEMMA EditInv ==
  ASSUME HookInv, FileType', faults' \in 0..MaxFaults, UNCHANGED <<op, ops>>,
         alone' = (alone /\ Busy = {}), agreed' \in Partial(Keys, BOOLEAN),
         ~alone' => agreed' = Nothing, ~(alone' /\ faults' = 0)
  PROVE  HookInv'
<1>1. FileType /\ OpsType /\ CountType /\ SaidType
  BY TypeParts DEF HookInv
<1>2. CountType' /\ OpsType' /\ SaidType'
  <2>1. ops' \in 0..MaxOps /\ OpsType' /\ SaidType'
    BY <1>1 DEF CountType, OpsType, SaidType
  <2>2. alone' \in BOOLEAN
    BY <1>1, Zenon DEF CountType
  <2> QED BY <2>1, <2>2, Zenon DEF CountType
<1>3. TypeOK'
  BY <1>2, Zenon DEF TypeOK, FileType, OpsType, CountType, SaidType
<1>4. Busy' = Busy
  BY DEF Busy
<1>5. \A q \in Busy' : OpShape(op'[q])
  BY <1>4 DEF HookInv
<1>6. alone' => /\ \A q, r \in Busy' : q = r
                /\ \A q \in Busy' : Knows(op[q])' /\ Untold(op[q])'
  BY <1>4
<1> QED BY <1>3, <1>5, <1>6, Zenon DEF HookInv

LEMMA EditRowInv ==
  ASSUME HookInv, NEW k \in Keys, EditRow(k)
  PROVE  HookInv' /\ Stands
<1>0. FileType /\ CountType /\ SaidType
  BY TypeParts DEF HookInv
<1> DEFINE kept == Touched(k) \cup {CmdOf[k]}
<1>1. /\ faults < MaxFaults /\ manifest' = Without(manifest, {k}) /\ dirty' = TRUE
      /\ faults' = faults + 1 /\ alone' = (alone /\ Busy = {})
      /\ agreed' = IF alone' THEN Without(agreed, kept) ELSE Nothing
      /\ UNCHANGED <<typo, overlay, op, live, snap, ops>>
  BY DEF EditRow
<1>2. FileType'
  <2>1. manifest' \in Partial(Keys, BOOLEAN)
    BY <1>0, <1>1, WithoutType DEF FileType
  <2> QED BY <1>0, <1>1, <2>1, Zenon DEF FileType
<1>3. faults' \in 0..MaxFaults /\ faults' # 0
  BY <1>0, <1>1, SMT DEF CountType
<1>4. agreed' \in Partial(Keys, BOOLEAN)
  BY <1>0, <1>1, WithoutType, NothingFacts DEF SaidType
<1>5. \A j \in DOMAIN agreed' : j \in DOMAIN agreed /\ agreed'[j] = agreed[j] /\ j \notin Touched(k)
  BY <1>1, NothingFacts DEF Without
<1>6. Alike(Rows(k))
  BY <1>1 DEF Without, Alike, Rows
<1>7. Stands
  BY <1>2, <1>5, <1>6, StandInv
<1> HIDE DEF kept
<1> QED BY <1>1, <1>2, <1>3, <1>4, <1>7, EditInv

(* While the files stay, so does what is said and known of them.           *)
LEMMA SaidSame ==
  ASSUME UNCHANGED <<manifest, overlay, agreed>>
  PROVE  Stands
<1> SUFFICES ASSUME NEW k \in DOMAIN agreed, Said(k) PROVE Said(k)'
  BY DEF Stands
<1>1. Said(k)
  OBVIOUS
<1>2. Effective(manifest', overlay') = Effective(manifest, overlay)
  OBVIOUS
<1>3. CASE k \in Ids
  BY <1>1, <1>2, <1>3, Zenon DEF Said
<1>4. CASE k \notin Ids /\ agreed[k]
  <2>1. \E j \in Effective(manifest, overlay) : GateOf[j] = GateOf[k]
    BY <1>1, <1>4, Zenon DEF Said
  <2> QED BY <1>2, <1>4, <2>1, Zenon DEF Said
<1>5. CASE k \notin Ids /\ ~agreed[k]
  <2>1. Own(k) \cap DOMAIN manifest = {}
    BY <1>1, <1>5, Zenon DEF Said
  <2>2. (Own(k) \cap DOMAIN manifest)' = {}
    BY <2>1 DEF Own
  <2> QED BY <1>5, <2>2, Zenon DEF Said
<1> QED BY <1>3, <1>4, <1>5

LEMMA KnowsSame ==
  ASSUME NEW o, UNCHANGED <<manifest, typo, overlay, agreed>>
  PROVE  (Knows(o) => Knows(o)') /\ (Untold(o) => Untold(o)') /\ (Tidy(o) => Tidy(o)')
<1>1. Untold(o) => Untold(o)'
  BY DEF Untold, Touched, Own
<1>2. Tidy(o) => Tidy(o)'
  BY DEF Tidy, Strays
<1>3. Settled(o) => Settled(o)'
  BY DEF Settled, Own
<1>4. Knows(o) => Knows(o)'
  BY <1>3 DEF Knows
<1> QED BY <1>1, <1>2, <1>4

LEMMA EditTypoInv ==
  ASSUME HookInv, EditTypo
  PROVE  HookInv' /\ Stands
<1>0. FileType /\ CountType /\ SaidType
  BY TypeParts DEF HookInv
<1>1. /\ typo \/ faults < MaxFaults
      /\ typo' = ~typo /\ dirty' = TRUE
      /\ faults' = IF typo THEN faults ELSE faults + 1
      /\ alone' = (alone /\ Busy = {})
      /\ agreed' = IF alone' THEN agreed ELSE Nothing
      /\ UNCHANGED <<manifest, overlay, op, live, snap, ops>>
  BY DEF EditTypo
<1>2. FileType'
  <2>1. typo' \in BOOLEAN
    BY <1>1, Zenon
  <2> QED BY <1>0, <1>1, <2>1, Zenon DEF FileType
<1>3. faults' \in 0..MaxFaults /\ (faults' = 0 => faults = 0 /\ typo)
  BY <1>0, <1>1, SMT DEF CountType
<1>4. ~(alone' /\ faults' = 0)
  BY <1>1, <1>3 DEF HookInv
<1>5. agreed' \in Partial(Keys, BOOLEAN)
  BY <1>0, <1>1, NothingFacts DEF SaidType
<1>6. Stands
  <2>1. CASE agreed' = Nothing
    BY <2>1, NothingFacts DEF Stands
  <2>2. CASE agreed' = agreed
    BY <1>1, <2>2, SaidSame
  <2> QED BY <1>1, <2>1, <2>2
<1> QED BY <1>1, <1>2, <1>3, <1>4, <1>5, <1>6, EditInv

(* Neither what the gateway reads nor a stutter changes what is answered.  *)
LEMMA ReaderInv ==
  ASSUME HookInv, UNCHANGED <<storeVars, op, countVars, agreed>>,
         live' \in SUBSET Keys, snap' \in SUBSET Partial(Keys, BOOLEAN), dirty' \in BOOLEAN
  PROVE  HookInv' /\ Stands
<1>1. UNCHANGED <<manifest, typo, overlay, op, ops, faults, alone, agreed>>
  BY DEF storeVars, countVars
<1>2. TypeOK'
  <2>1. FileType /\ OpsType /\ CountType /\ SaidType
    BY TypeParts DEF HookInv
  <2>2. FileType' /\ OpsType' /\ CountType' /\ SaidType'
    BY <1>1, <2>1, Zenon DEF FileType, OpsType, CountType, SaidType
  <2> QED BY <2>2, Zenon DEF TypeOK, FileType, OpsType, CountType, SaidType
<1>3. Busy' = Busy
  BY <1>1 DEF Busy
<1>4. \A q \in Busy' : OpShape(op'[q])
  BY <1>1, <1>3 DEF HookInv
<1>5. Stands
  BY <1>1, SaidSame
<1>6. ~alone' => agreed' = Nothing
  BY <1>1 DEF HookInv
<1>7. alone' => /\ \A q, r \in Busy' : q = r
                /\ \A q \in Busy' : Knows(op[q])' /\ Untold(op[q])'
  <2> SUFFICES ASSUME alone, NEW q \in Busy PROVE Knows(op[q])' /\ Untold(op[q])'
    BY <1>1, <1>3 DEF HookInv
  <2>1. Knows(op[q]) /\ Untold(op[q])
    BY DEF HookInv
  <2>2. \A o : o = op[q] => Knows(o)' /\ Untold(o)'
    BY <1>1, <2>1, KnowsSame
  <2>3. op'[q] = op[q]
    BY <1>1
  <2> QED BY <2>2, <2>3
<1>8. alone' /\ faults' = 0 => /\ ~typo'
                               /\ Busy' = {} => DOMAIN overlay' \subseteq DOMAIN manifest'
                               /\ \A q \in Busy' : Tidy(op[q])'
  <2> SUFFICES ASSUME alone, faults = 0
               PROVE  ~typo /\ (Busy = {} => DOMAIN overlay \subseteq DOMAIN manifest)
                      /\ \A q \in Busy : Tidy(op[q])'
    BY <1>1, <1>3
  <2>1. /\ ~typo /\ (Busy = {} => DOMAIN overlay \subseteq DOMAIN manifest)
        /\ \A q \in Busy : Tidy(op[q])
    BY DEF HookInv
  <2> QED BY <1>1, <2>1, Zenon DEF Tidy, Strays
<1> QED BY <1>2, <1>4, <1>5, <1>6, <1>7, <1>8, Zenon DEF HookInv

LEMMA ReloadInv ==
  ASSUME HookInv, ReloadRead \/ ReloadApply \/ UNCHANGED vars
  PROVE  HookInv' /\ Stands
<1>0. FileType
  BY TypeParts DEF HookInv
<1>1. CASE ReloadRead
  <2>1. /\ UNCHANGED <<storeVars, op, live, countVars, agreed>> /\ dirty' = FALSE
        /\ snap' = IF typo THEN {} ELSE {manifest}
    BY <1>1 DEF ReloadRead
  <2>2. snap' \in SUBSET Partial(Keys, BOOLEAN) /\ live' \in SUBSET Keys
    BY <1>0, <2>1 DEF FileType
  <2> QED BY <2>1, <2>2, ReaderInv
<1>2. CASE ReloadApply
  <2>1. /\ UNCHANGED <<storeVars, op, dirty, countVars, agreed>> /\ snap' = {}
        /\ \E m \in snap : live' = Effective(m, overlay)
    BY <1>2 DEF ReloadApply
  <2>2. live' \in SUBSET Keys
    <3>1. PICK m \in snap : live' = Effective(m, overlay)
      BY <2>1
    <3>2. DOMAIN m \subseteq Keys
      BY <1>0, PartialFacts DEF FileType
    <3> QED BY <3>1, <3>2 DEF Effective
  <2>3. dirty' \in BOOLEAN
    BY <1>0, <2>1, Zenon DEF FileType
  <2> QED BY <2>1, <2>2, <2>3, ReaderInv
<1>3. CASE UNCHANGED vars
  <2>1. UNCHANGED <<storeVars, op, countVars, agreed>> /\ UNCHANGED <<live, snap, dirty>>
    BY <1>3 DEF vars, gatewayVars
  <2>2. live' \in SUBSET Keys /\ snap' \in SUBSET Partial(Keys, BOOLEAN) /\ dirty' \in BOOLEAN
    BY <1>0, <2>1, Zenon DEF FileType
  <2> QED BY <2>1, <2>2, ReaderInv
<1> QED BY <1>1, <1>2, <1>3

-----------------------------------------------------------------------------
LEMMA InitInv == Init => HookInv
<1> SUFFICES ASSUME Init PROVE HookInv
  OBVIOUS
<1>1. Busy = {}
  BY DEF Init, Busy
<1>2. DOMAIN agreed = {} /\ DOMAIN overlay = {}
  BY NothingFacts DEF Init
<1>3. FileType /\ OpsType /\ SaidType
  BY NothingFacts DEF Init, FileType, OpsType, SaidType
<1>4. CountType
  BY SMT DEF Init, CountType
<1> QED BY <1>1, <1>2, <1>3, <1>4, TypeParts, Zenon DEF Init, HookInv

LEMMA NextInv == HookInv /\ [Next]_vars => HookInv' /\ Stands
<1> SUFFICES ASSUME HookInv, [Next]_vars PROVE HookInv' /\ Stands
  OBVIOUS
<1>0. UI \in Procs /\ Scripts \subseteq Procs /\ (\A k \in Ids : k \in Keys /\ k \notin Tools)
      /\ Tools \subseteq Keys
  BY DEF Procs, Keys
<1>1. ASSUME NEW p \in Procs, TfHookAdd(p) \/ TfHookSet(p) PROVE HookInv' /\ Stands
  BY <1>1, BeginHookInv DEF TfHookAdd, TfHookSet
<1>2. ASSUME ApiHookAdd \/ ApiHookState \/ ApiSetHook PROVE HookInv' /\ Stands
  <2>1. ASSUME ApiHookAdd \/ ApiHookState PROVE HookInv' /\ Stands
    BY <1>0, <2>1, BeginHookInv DEF ApiHookAdd, ApiHookState
  <2>2. ASSUME NEW t \in Tools, NEW on \in BOOLEAN, Begin(UI, "switch", t, on)
        PROVE  HookInv' /\ Stands
    BY <1>0, <2>2, BeginInv
  <2> QED BY <1>2, <2>1, <2>2 DEF ApiSetHook
<1>3. ASSUME NEW p \in Procs, Step(p) PROVE HookInv' /\ Stands
  <2>1. ASSUME Write(p) PROVE HookInv' /\ Stands
    BY <2>1, WriteSetInv, WriteAddInv, WriteRemoveInv, WriteOnInv, WriteOffInv DEF Write
  <2> QED BY <1>3, <2>1, LoadInv, ApplyOverlayInv, ReadInv, ReadStateInv, WriteStateInv DEF Step
<1>4. ASSUME Edit PROVE HookInv' /\ Stands
  BY <1>4, EditTypoInv, EditRowInv DEF Edit
<1>5. ASSUME ReloadRead \/ ReloadApply \/ UNCHANGED vars PROVE HookInv' /\ Stands
  BY <1>5, ReloadInv
<1> QED BY <1>1, <1>2, <1>3, <1>4, <1>5, AbortInv DEF Next

(* In every state: an operation that met no other knows what it has read   *)
(* is still so, no answer stands about what it touches, and the overlay is *)
(* ahead of the manifest by at most the row it is removing.                *)
THEOREM HookInvHolds == Spec => []HookInv
<1> QED BY InitInv, NextInv, PTL DEF Spec

(* The two files, the operations and the engine have their types.          *)
THEOREM HookTypeCorrect == Spec => []TypeOK
<1>1. HookInv => TypeOK
  BY DEF HookInv
<1> QED BY <1>1, HookInvHolds, PTL

(* What setEnabled, addEntry, removeEntry and the per-tool switch answer   *)
(* of a row or a switch, meeting no other writer, is what any later load   *)
(* of the two files sees; but for an add over a key left in the overlay,   *)
(* and a switch over a manifest that does not parse.                       *)
THEOREM AnswersStandHolds == Spec => AnswersStand
<1>1. HookInv /\ [Next]_vars => [Stands]_vars
  BY NextInv
<1> QED BY <1>1, HookInvHolds, PTL DEF Spec, AnswersStand

(* Without faults and overlaps the overlay keeps no key of a row that is   *)
(* gone: removeEntry and the switch clear the keys of the rows they take.  *)
THEOREM NoStrayKeysHolds == Spec => []NoStrayKeys
<1>1. HookInv => NoStrayKeys
  BY DEF HookInv, NoStrayKeys
<1> QED BY <1>1, HookInvHolds, PTL

-----------------------------------------------------------------------------
(* The gateway misses no change.                                           *)

(* Every step of a writer leaves the two files and the gateway as they     *)
(* were, or leaves its watchers something to report.                       *)
LEMMA WriterTells ==
  ASSUME NEW p \in Procs, Step(p) \/ Abort(p)
  PROVE  /\ live' = live /\ snap' = snap
         /\ dirty' = TRUE \/ (dirty' = dirty /\ UNCHANGED storeVars)
<1>1. CASE Load(p) \/ ApplyOverlay(p) \/ Read(p) \/ ReadState(p) \/ Abort(p)
  BY <1>1 DEF Load, ApplyOverlay, Read, ReadState, Abort, gatewayVars
<1>2. CASE Write(p)
  <2>1. live' = live /\ snap' = snap /\ overlay' = overlay
    BY <1>2 DEF Write
  <2>2. dirty' = TRUE \/ Keep
    <3>1. CASE WriteSet(p)
      BY <3>1 DEF WriteSet, Put
    <3>2. CASE WriteAdd(p)
      BY <3>2 DEF WriteAdd, Put
    <3>3. CASE WriteRemove(p)
      BY <3>3 DEF WriteRemove, Put
    <3>4. CASE WriteOn(p)
      BY <3>4 DEF WriteOn, Put
    <3>5. CASE WriteOff(p)
      BY <3>5 DEF WriteOff, Put
    <3> QED BY <1>2, <3>1, <3>2, <3>3, <3>4, <3>5 DEF Write
  <2> QED BY <2>1, <2>2 DEF Keep, storeVars
<1>3. CASE WriteState(p)
  BY <1>3 DEF WriteState
<1> QED BY <1>1, <1>2, <1>3 DEF Step

(* Whatever the two writers of reloadHooks' two files do between its reads,*)
(* the engine is the one the files enable, or a change to report is left.  *)
THEOREM NothingMissedHolds == Spec => []NothingMissed
<1>1. ASSUME Init PROVE NothingMissed
  <2>1. DOMAIN Nothing = {}
    BY NothingFacts
  <2>2. Effective(manifest, overlay) = {}
    BY <1>1, <2>1 DEF Init, Effective
  <2> QED BY <1>1, <2>2 DEF Init, NothingMissed
<1>2. ASSUME NothingMissed, [Next]_vars PROVE NothingMissed'
  <2> USE <1>2
  <2>0. ASSUME UNCHANGED storeVars, UNCHANGED gatewayVars PROVE NothingMissed'
    BY <2>0, Zenon DEF storeVars, gatewayVars, NothingMissed, Effective, Enabled
  <2>1. CASE \E p \in Procs : Step(p) \/ Abort(p)
    <3>1. /\ live' = live /\ snap' = snap
          /\ dirty' = TRUE \/ (dirty' = dirty /\ UNCHANGED storeVars)
      BY <2>1, WriterTells
    <3>2. dirty' = TRUE => NothingMissed'
      BY Zenon DEF NothingMissed
    <3> QED BY <2>0, <3>1, <3>2, Zenon DEF gatewayVars
  <2>2. ASSUME NEW p, NEW kind, NEW k, NEW want, Begin(p, kind, k, want) PROVE NothingMissed'
    BY <2>0, <2>2 DEF Begin
  <2>3. CASE (\E p \in Procs : TfHookAdd(p) \/ TfHookSet(p)) \/ ApiHookAdd \/ ApiHookState \/ ApiSetHook
    BY <2>2, <2>3 DEF TfHookAdd, TfHookSet, ApiHookAdd, ApiHookState, ApiSetHook
  <2>4. CASE Edit
    BY <2>4 DEF Edit, EditTypo, EditRow, NothingMissed
  <2>5. CASE ReloadRead
    BY <2>5 DEF ReloadRead, storeVars, NothingMissed
  <2>6. CASE ReloadApply
    <3>1. PICK m \in snap : live' = Effective(m, overlay)
      BY <2>6 DEF ReloadApply
    <3>2. snap' = {} /\ UNCHANGED <<manifest, typo, overlay, dirty>>
      BY <2>6 DEF ReloadApply, storeVars
    <3>3. dirty \/ typo \/ m = manifest
      BY <3>1 DEF NothingMissed
    <3> QED BY <3>1, <3>2, <3>3 DEF NothingMissed, Effective, Enabled
  <2>7. CASE UNCHANGED vars
    BY <2>0, <2>7 DEF vars
  <2> QED BY <2>1, <2>3, <2>4, <2>5, <2>6, <2>7 DEF Next
<1> QED BY <1>1, <1>2, PTL DEF Spec
=============================================================================
