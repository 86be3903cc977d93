------------------------- MODULE ConfigStores_proofs -------------------------
(* Proofs about ConfigStores, for every set of tools, upstreams, names and *)
(* processes and every number of operations and faults: the operator's     *)
(* policy follows a tool, the wrap and the aliases have their targets, and *)
(* a refused operation leaves no trace.                                    *)
EXTENDS ConfigStores, TLAPS

USE ConfigSets, ConfigBounds

-----------------------------------------------------------------------------
(* Files as partial functions.                                             *)
LEMMA PartialFacts ==
  ASSUME NEW S, NEW T, NEW f
  PROVE  f \in Partial(S, T) <=> DOMAIN f \subseteq S /\ f \in [DOMAIN f -> T]
<1>1. \A R : f \in [R -> T] => DOMAIN f = R
  OBVIOUS
<1>2. f \in Partial(S, T) <=> \E R \in SUBSET S : f \in [R -> T]
  BY DEF Partial
<1> QED BY <1>1, <1>2

LEMMA WithType ==
  ASSUME NEW S, NEW T, NEW f \in Partial(S, T), NEW k \in S, NEW v \in T
  PROVE  With(f, k, v) \in Partial(S, T)
<1>1. DOMAIN f \subseteq S /\ f \in [DOMAIN f -> T]
  BY PartialFacts
<1>2. With(f, k, v) \in [DOMAIN f \cup {k} -> T]
  BY <1>1 DEF With
<1> QED BY <1>1, <1>2, PartialFacts

LEMMA WithoutFacts ==
  ASSUME NEW f, NEW S
  PROVE  /\ DOMAIN Without(f, S) = DOMAIN f \ S
         /\ \A j \in DOMAIN f \ S : Without(f, S)[j] = f[j]
  BY DEF Without

LEMMA WithoutType ==
  ASSUME NEW S, NEW T, NEW f \in Partial(S, T), NEW R
  PROVE  Without(f, R) \in Partial(S, T)
<1>1. DOMAIN f \subseteq S /\ f \in [DOMAIN f -> T]
  BY PartialFacts
<1>2. Without(f, R) \in [DOMAIN f \ R -> T]
  BY <1>1 DEF Without
<1> QED BY <1>1, <1>2, PartialFacts

LEMMA EmptyType ==
  ASSUME NEW S, NEW T, NEW v
  PROVE  [k \in {} |-> v] \in Partial(S, T) /\ DOMAIN [k \in {} |-> v] = {}
<1>1. DOMAIN [k \in {} |-> v] = {} /\ [k \in {} |-> v] \in [{} -> T]
  OBVIOUS
<1> QED BY <1>1, PartialFacts

LEMMA EmptyStateType == EmptyState \in State /\ EmptyState.flags = [k \in {} |-> Unset]
                        /\ EmptyState.wrap = None /\ DOMAIN EmptyState.flags = {}
  BY EmptyType DEF EmptyState, State

-----------------------------------------------------------------------------
(* The record of an operation.                                             *)
Stages == {"load", "script", "restore", "plan", "hooks", "state", "save",
           "read", "write", "refused"}

LEMMA OpFields ==
  ASSUME NEW o \in Op
  PROVE  /\ o.at \in Stages /\ o.kind \in Kinds /\ o.tool \in Tools \cup {None}
         /\ o.up \in Ups \cup {None} /\ o.name \in Names \cup {None}
         /\ o.on \in BOOLEAN /\ o.hot \in BOOLEAN /\ o.text \in BOOLEAN
         /\ o.live \in BOOLEAN /\ o.reg \in Register /\ o.sto \in Store /\ o.sta \in State
         /\ o.gat \in SUBSET Names /\ o.prior \in Bodies
         /\ o.found \in {None} \cup Files
  BY DEF Op, Stages

LEMMA BusyFacts ==
  ASSUME TypeOK, NEW p \in Procs
  PROVE  (op[p] # Idle <=> op[p] \in Op) /\ (op[p] = Idle <=> op[p].at = "idle")
<1>1. op[p] \in Op \cup {Idle} /\ Idle.at = "idle"
  BY DEF TypeOK, Idle
<1>2. op[p] \in Op => op[p].at # "idle"
  BY OpFields DEF Stages
<1> QED BY <1>1, <1>2

(* The same request: what an operation was asked, however far it is.       *)
Aim(o, n) ==
  /\ n.kind = o.kind /\ n.tool = o.tool /\ n.up = o.up /\ n.name = o.name
  /\ n.on = o.on /\ n.hot = o.hot /\ n.text = o.text

LEMMA AtStep ==
  ASSUME NEW o \in Op, NEW a \in Stages, NEW n, n = [o EXCEPT !.at = a]
  PROVE  /\ n \in Op /\ n.at = a /\ Aim(o, n)
         /\ n.reg = o.reg /\ n.sto = o.sto /\ n.sta = o.sta /\ n.gat = o.gat
         /\ n.prior = o.prior /\ n.found = o.found
  BY DEF Op, Stages, Aim

LEMMA RegStep ==
  ASSUME NEW o \in Op, NEW r \in Register, NEW n, n = [o EXCEPT !.reg = r]
  PROVE  /\ n \in Op /\ n.at = o.at /\ Aim(o, n)
         /\ n.reg = r /\ n.sto = o.sto /\ n.sta = o.sta /\ n.gat = o.gat
         /\ n.prior = o.prior /\ n.found = o.found
  BY DEF Op, Aim

LEMMA StoStep ==
  ASSUME NEW o \in Op, NEW s \in Store, NEW n, n = [o EXCEPT !.sto = s]
  PROVE  /\ n \in Op /\ n.at = o.at /\ Aim(o, n)
         /\ n.reg = o.reg /\ n.sto = s /\ n.sta = o.sta /\ n.gat = o.gat
         /\ n.prior = o.prior /\ n.found = o.found
  BY DEF Op, Aim

LEMMA FoundStep ==
  ASSUME NEW o \in Op, NEW f \in {None} \cup Files, NEW n, n = [o EXCEPT !.found = f]
  PROVE  /\ n \in Op /\ n.at = o.at /\ Aim(o, n)
         /\ n.reg = o.reg /\ n.sto = o.sto /\ n.sta = o.sta /\ n.gat = o.gat
         /\ n.prior = o.prior /\ n.found = f
  BY DEF Op, Aim

LEMMA BlankType == Blank \in Op
<1>1. Blank.reg \in Register /\ Blank.sto \in Store
  BY EmptyType DEF Blank, Register, Store
<1> QED BY <1>1, EmptyStateType DEF Op, Blank, Kinds, Bodies

-----------------------------------------------------------------------------
(* What the shape of a request says of its rename.                         *)
LEMMA RenameFacts ==
  ASSUME NEW o \in Op, AboutShape(o), Renames(o)
  PROVE  /\ o.kind \in ExposeKinds \cup {"toolUpdate"} /\ o.kind # "toolAdd"
         /\ o.tool \in Tools /\ NewName(o) \in Names /\ OldName(o) # NewName(o)
         /\ o.kind = "toolUpdate" => o.tool \in Locals
         /\ o.kind # "toolUpdate" => o.tool \in Remotes
         /\ {"hooks"} \subseteq Touches(o.kind)
         /\ o.tool \in Remotes => "state" \in Touches(o.kind) /\ "store" \in Touches(o.kind)
         /\ o.tool \in Locals => "register" \in Touches(o.kind)
<1>1. o.kind \in ExposeKinds \cup {"toolUpdate"} /\ OldName(o) # NewName(o)
  BY DEF Renames
<1>2. o.name \in Names \cup {None} /\ o.on \in BOOLEAN
  BY OpFields
<1>3. CASE o.kind = "toolUpdate"
  BY <1>1, <1>2, <1>3 DEF Renames, AboutShape, RegistryKinds, ExposeKinds, NewName, Touches, Tools
<1>4. CASE o.kind \in ExposeKinds
  <2>1. o.tool \in Remotes /\ (o.kind # "removeExpose" => o.name \in Names)
    BY <1>4 DEF AboutShape, ExposeKinds
  <2>2. Default[o.tool] \in Names
    BY <2>1
  <2>3. NewName(o) \in Names
    BY <1>2, <1>4, <2>1, <2>2 DEF NewName, ExposeKinds
  <2>4. Touches(o.kind) = {"store", "state", "hooks"}
    BY <1>4 DEF Touches, ExposeKinds
  <2> QED BY <1>1, <1>4, <2>1, <2>3, <2>4 DEF Tools, ExposeKinds
<1> QED BY <1>1, <1>3, <1>4

LEMMA AimFacts ==
  ASSUME NEW o \in Op, NEW n \in Op, Aim(o, n)
  PROVE  /\ AboutShape(o) <=> AboutShape(n)
         /\ NewName(n) = NewName(o)
         /\ n.reg = o.reg /\ n.sto = o.sto =>
              /\ OldName(n) = OldName(o) /\ (Renames(n) <=> Renames(o))
              /\ n.sta = o.sta => (Moves(n) <=> Moves(o)) /\ (Collides(n) <=> Collides(o))
<1>1. AboutShape(o) <=> AboutShape(n)
  BY DEF Aim, AboutShape
<1>2. NewName(n) = NewName(o)
  BY DEF Aim, NewName
<1>3. ASSUME n.reg = o.reg, n.sto = o.sto
      PROVE  OldName(n) = OldName(o) /\ (Renames(n) <=> Renames(o))
  <2>1. OldName(n) = OldName(o)
    BY <1>3 DEF Aim, OldName
  <2> QED BY <1>2, <2>1 DEF Aim, Renames
<1>4. ASSUME n.reg = o.reg, n.sto = o.sto, n.sta = o.sta
      PROVE  (Moves(n) <=> Moves(o)) /\ (Collides(n) <=> Collides(o))
  <2>1. Moves(n) <=> Moves(o)
    BY <1>3, <1>4 DEF Aim, Moves
  <2> QED BY <1>2, <1>3, <1>4, <2>1 DEF Collides, TwoEntries
<1> QED BY <1>1, <1>2, <1>3, <1>4

(* Forward plans a rename when there is one, and otherwise saves.          *)
LEMMA ForwardFacts ==
  ASSUME NEW o
  PROVE  Forward(o) = (IF Renames(o) THEN "plan" ELSE "save") /\ Forward(o) \in Stages
  BY DEF Forward, Stages

LEMMA PresentTyped ==
  ASSUME NEW r \in Register, NEW s
  PROVE  Present(r, s) \subseteq Tools /\ Sharing(r, s) \subseteq Present(r, s)
<1>1. DOMAIN r \subseteq Locals
  BY PartialFacts DEF Register
<1> QED BY <1>1 DEF Present, Sharing, Tools

LEMMA TouchFacts ==
  ASSUME NEW k \in Kinds
  PROVE  /\ "store" \in Touches(k) => "state" \in Touches(k)
         /\ k \in RegistryKinds => "register" \in Touches(k)
         /\ k \in StoreKinds => "store" \in Touches(k)
         /\ k \in {"toggle", "toolRemove"} => "state" \in Touches(k)
  BY DEF Touches, Kinds, RegistryKinds, StoreKinds, ExposeKinds

-----------------------------------------------------------------------------
(* What a step of one process leaves alone.                                *)
LEMMA KnowsFrame ==
  ASSUME NEW o \in Op, OpShape(o), o.at # "refused", Knows(o),
         "register" \in Touches(o.kind) => register' = register,
         "store" \in Touches(o.kind) => store' = store,
         o.kind = "toolRemove" => store' = store,
         "hooks" \in Touches(o.kind) => gates' = gates,
         "state" \in Touches(o.kind) => state' = state /\ off' \subseteq off,
         loose \subseteq loose', faults \in Nat, faults' \in Nat, faults <= faults'
  PROVE  Knows(o)'
<1>0. o.kind \in Kinds /\ AboutShape(o) /\ StageShape(o)
  BY OpFields DEF OpShape
<1>1. (o.kind \in RegistryKinds /\ o.at \in {"script", "restore", "plan", "hooks", "state", "save"}) =>
        o.reg = register'
  BY <1>0, TouchFacts DEF Knows
<1>2. (o.kind \in StoreKinds /\ o.at \in {"plan", "hooks", "state", "save"}) => o.sto = store'
  BY <1>0, TouchFacts DEF Knows
<1>3. ASSUME o.at \in {"hooks", "state", "save"}, Renames(o)
      PROVE  gates' = gates /\ (o.tool \in Remotes => state' = state)
  BY <1>0, <1>3, RenameFacts
<1>4. o.at \in {"hooks", "state"} => Renames(o)
  BY <1>0 DEF StageShape
<1>5. o.at = "state" => o.tool \in Remotes
  BY <1>0 DEF StageShape, Moves
<1>6. /\ o.at = "hooks" => o.gat = gates'
      /\ (o.at = "hooks" /\ o.tool \in Remotes) =>
            o.sta = state' \/ (o.sta = EmptyState /\ o.tool \in loose')
      /\ o.at = "state" => o.sta = state'
      /\ (o.at \in {"state", "save"} /\ Renames(o) /\ o.tool \notin loose') => OldName(o) \notin gates'
      /\ (o.at = "save" /\ Renames(o) /\ o.tool \in Remotes \ loose') =>
            OldName(o) \notin DOMAIN state'.flags
  BY <1>3, <1>4, <1>5 DEF Knows
<1>7. o.at = "write" => o.sta = state' \/ (off' = {} /\ faults' > 0)
  <2>1. o.at = "write" => "state" \in Touches(o.kind)
    BY <1>0 DEF StageShape, Touches
  <2> QED BY <2>1 DEF Knows
<1>8. (o.at \in {"read", "write"} /\ o.kind = "toolRemove") =>
        /\ o.tool \notin DOMAIN register'
        /\ \A t \in Present(register', store') : KeyOf(register', store', t) = o.tool => t \in loose'
  <2>1. o.kind = "toolRemove" => register' = register /\ store' = store
    BY <1>0, TouchFacts DEF RegistryKinds
  <2> QED BY <2>1 DEF Knows
<1> QED BY <1>1, <1>2, <1>6, <1>7, <1>8 DEF Knows

LEMMA TypeFacts ==
  ASSUME TypeOK
  PROVE  /\ register \in Register /\ store \in Store /\ state \in State
         /\ scripts \in [Locals -> Bodies] /\ gates \in SUBSET Names
         /\ op \in [Procs -> Op \cup {Idle}] /\ files \in Files
         /\ ops \in 0..MaxOps /\ faults \in 0..MaxFaults /\ faults \in Nat
         /\ apart \in BOOLEAN /\ loose \in SUBSET Tools /\ torn \in SUBSET (Tools \X Names)
  BY DEF TypeOK, files, Files

LEMMA OpUpdate ==
  ASSUME TypeOK, NEW p \in Procs, NEW n \in Op \cup {Idle}, op' = [op EXCEPT ![p] = n]
  PROVE  /\ op' \in [Procs -> Op \cup {Idle}] /\ op'[p] = n
         /\ \A q \in Procs \ {p} : op'[q] = op[q]
         /\ Busy' = IF n = Idle THEN Busy \ {p} ELSE Busy \cup {p}
<1>1. op \in [Procs -> Op \cup {Idle}]
  BY TypeFacts
<1>2. op' \in [Procs -> Op \cup {Idle}] /\ op'[p] = n /\ \A q \in Procs \ {p} : op'[q] = op[q]
  BY <1>1
<1>3. Busy' = {q \in Procs : op'[q] # Idle} /\ Busy = {q \in Procs : op[q] # Idle}
  BY DEF Busy
<1> QED BY <1>2, <1>3

LEMMA BusyOp ==
  ASSUME TypeOK, NEW p \in Procs, op[p].at # "idle"
  PROVE  p \in Busy /\ op[p] \in Op
  BY BusyFacts DEF Busy

(* One process moves: what holds of every operation holds still when it    *)
(* holds of the one that moved, and of files only it may change.           *)
LEMMA StepFrame ==
  ASSUME ConfInv, NEW p \in Busy, NEW n \in Op \cup {Idle}, op' = [op EXCEPT ![p] = n],
         apart' = apart, TypeOK',
         n # Idle => OpShape(n) /\ Touches(n.kind) \subseteq Touches(op[p].kind),
         n # Idle /\ n.found # None => op[p].found # None /\ (Busy = {p} => Traced(n)'),
         "register" \notin Touches(op[p].kind) => register' = register,
         "store" \notin Touches(op[p].kind) => store' = store,
         "hooks" \notin Touches(op[p].kind) => gates' = gates,
         "state" \notin Touches(op[p].kind) => state' = state /\ off' \subseteq off,
         loose \subseteq loose', faults <= faults',
         apart /\ n # Idle /\ n.at # "refused" => Knows(n)'
  PROVE  Shaped' /\ Traceable' /\ (apart' => Apart' /\ Informed')
<1>0. TypeOK /\ p \in Procs /\ op[p] \in Op
  BY BusyFacts DEF ConfInv, Busy
<1>1. /\ op'[p] = n /\ \A q \in Procs \ {p} : op'[q] = op[q]
      /\ Busy' = IF n = Idle THEN Busy \ {p} ELSE Busy \cup {p}
  BY <1>0, OpUpdate
<1>2. \A q \in Busy' : q \in Busy /\ q \in Procs
  BY <1>0, <1>1 DEF Busy
<1>3. Shaped'
  <2> SUFFICES ASSUME NEW q \in Busy' PROVE OpShape(op'[q])
    BY DEF Shaped
  <2> QED BY <1>1, <1>2 DEF ConfInv, Shaped
<1>4. Traceable'
  <2> SUFFICES ASSUME NEW q \in Busy', op'[q].found # None
               PROVE  Busy' = {q} /\ Traced(op[q])'
    BY DEF Traceable
  <2>1. CASE q = p
    <3>1. Busy = {p} /\ Traced(n)'
      BY <1>1, <2>1 DEF ConfInv, Traceable
    <3> QED BY <1>1, <2>1, <3>1
  <2>2. CASE q # p
    <3>1. op[q].found # None /\ q \in Busy
      BY <1>1, <1>2, <2>2
    <3> QED BY <2>2, <3>1 DEF ConfInv, Traceable
  <2> QED BY <2>1, <2>2
<1>5. ASSUME apart'
      PROVE  Apart'
  <2>1. Apart
    BY <1>5 DEF ConfInv
  <2> SUFFICES ASSUME NEW q \in Busy', NEW s \in Busy', q # s
               PROVE  Touches(op'[q].kind) \cap Touches(op'[s].kind) = {}
    BY DEF Apart
  <2>2. \A z \in Busy' : Touches(op'[z].kind) \subseteq Touches(op[z].kind)
    BY <1>1, <1>2
  <2> QED BY <1>2, <2>1, <2>2 DEF Apart
<1>6. ASSUME apart'
      PROVE  Informed'
  <2> SUFFICES ASSUME NEW q \in Busy', op'[q].at # "refused"
               PROVE  Knows(op[q])'
    BY DEF Informed
  <2>1. CASE q = p
    <3>1. Knows(n)'
      BY <1>1, <1>6, <2>1
    <3> QED BY <1>1, <2>1, <3>1
  <2>2. CASE q # p
    <3>1. q \in Busy /\ op'[q] = op[q] /\ op[q] \in Op
      BY <1>0, <1>1, <1>2, <2>2, BusyFacts DEF Busy
    <3> PICK o : o = op[q]
      OBVIOUS
    <3>2. o \in Op /\ OpShape(o) /\ o.at # "refused" /\ Knows(o)
      BY <1>6, <3>1 DEF ConfInv, Shaped, Informed
    <3>3. Touches(o.kind) \cap Touches(op[p].kind) = {}
      BY <1>6, <2>2, <3>1 DEF ConfInv, Apart
    <3>4. o.kind = "toolRemove" => store' = store
      BY <1>0, <3>2, <3>3, TouchFacts, OpFields
    <3>5. faults \in Nat /\ faults' \in Nat
      BY <1>0, TypeFacts DEF TypeOK
    <3>6. Knows(o)'
      BY <3>2, <3>3, <3>4, <3>5, KnowsFrame
    <3> QED BY <3>1, <3>6
  <2> QED BY <2>1, <2>2
<1> QED BY <1>3, <1>4, <1>5, <1>6

-----------------------------------------------------------------------------
(* Where a tool's policy may be, before and after a step.                  *)
Carries(o, t, m) == o.at \in {"state", "save"} /\ o.tool = t /\ Renames(o) /\ m = NewName(o)

LEMMA MayBeCases ==
  ASSUME TypeOK, NEW p \in Busy, NEW n \in Op \cup {Idle}, op' = [op EXCEPT ![p] = n],
         NEW t, NEW m \in MayBe(t)
  PROVE  \/ m = Surfaced(register, store, t)
         \/ m \in Names /\ Carries(op[p], t, m)
         \/ m \in Names /\ <<t, m>> \in torn
         \/ m \in Becoming(t)' /\ \E q \in Busy \ {p} : Carries(op[q], t, m)
<1>0. p \in Procs
  BY DEF Busy
<1>1. CASE m \in Becoming(t)
  <2>1. m \in Names
    BY <1>1 DEF Becoming
  <2>2. PICK q \in Busy : Carries(op[q], t, m)
    BY <1>1 DEF Becoming, Carries
  <2>3. CASE q # p
    <3>1. q \in Busy' /\ op'[q] = op[q]
      BY <1>0, <2>3, OpUpdate DEF Busy
    <3>2. m \in Becoming(t)'
      BY <2>1, <2>2, <3>1 DEF Becoming, Carries
    <3> QED BY <2>2, <2>3, <3>2
  <2> QED BY <2>1, <2>2, <2>3
<1> QED BY <1>1 DEF MayBe

LEMMA MayBeNext ==
  ASSUME TypeOK, NEW p \in Busy, NEW n \in Op \cup {Idle}, op' = [op EXCEPT ![p] = n],
         NEW t, NEW m,
         \/ m = Surfaced(register', store', t)
         \/ m \in Names /\ n # Idle /\ Carries(n, t, m)
         \/ m \in Names /\ <<t, m>> \in torn'
         \/ m \in Becoming(t)'
  PROVE  m \in MayBe(t)'
<1>0. p \in Procs
  BY DEF Busy
<1>1. ASSUME m \in Names, n # Idle, Carries(n, t, m)
      PROVE  m \in Becoming(t)'
  <2>1. op'[p] = n /\ Busy' = IF n = Idle THEN Busy \ {p} ELSE Busy \cup {p}
    BY <1>0, OpUpdate
  <2>2. p \in Busy' /\ op'[p] = n
    BY <1>1, <2>1
  <2> QED BY <1>1, <2>2 DEF Becoming, Carries
<1> QED BY <1>1 DEF MayBe

(* A step that changes no file keeps every place a policy may be in, when  *)
(* the operation it moves keeps the one it carries, or leaves it torn.     *)
LEMMA PolicyFrame ==
  ASSUME TypeOK, PolicyKept, NEW p \in Busy, NEW n \in Op \cup {Idle},
         op' = [op EXCEPT ![p] = n],
         register' = register, store' = store, state' = state, gates' = gates,
         gated' = gated, off' \subseteq off, loose \subseteq loose', torn \subseteq torn',
         \A t \in Tools, m \in Names : Carries(op[p], t, m) =>
            (n # Idle /\ Carries(n, t, m)) \/ <<t, m>> \in torn'
  PROVE  PolicyKept'
<1>1. ASSUME NEW t \in Tools
      PROVE  MayBe(t) \subseteq MayBe(t)'
  <2> SUFFICES ASSUME NEW m \in MayBe(t) PROVE m \in MayBe(t)'
    OBVIOUS
  <2>1. \/ m = Surfaced(register, store, t)
        \/ m \in Names /\ Carries(op[p], t, m)
        \/ m \in Names /\ <<t, m>> \in torn
        \/ m \in Becoming(t)'
    BY MayBeCases
  <2>2. \/ m = Surfaced(register', store', t)
        \/ m \in Names /\ n # Idle /\ Carries(n, t, m)
        \/ m \in Names /\ <<t, m>> \in torn'
        \/ m \in Becoming(t)'
    BY <1>1, <2>1
  <2> QED BY <2>2, MayBeNext
<1>2. gated \cup off \subseteq Tools
  BY TypeFacts DEF TypeOK
<1>3. Sharing(register, store)' \subseteq loose' /\ gated' \cup off' \subseteq Present(register, store)'
  BY DEF PolicyKept
<1>4. \A t \in gated' \ loose' : MayBe(t)' \cap gates' # {}
  BY <1>1, <1>2 DEF PolicyKept
<1>5. ASSUME NEW t \in off' \ loose'
      PROVE  \E k \in Keys(t)' : IsOff(k)'
  <2>1. PICK k \in Keys(t) : IsOff(k)
    BY <1>5 DEF PolicyKept
  <2>2. k \in Keys(t)'
    BY <1>1, <1>2, <1>5 DEF Keys
  <2>3. IsOff(k)'
    BY <2>1 DEF IsOff
  <2> QED BY <2>2, <2>3
<1> QED BY <1>3, <1>4, <1>5 DEF PolicyKept

(* A step that changes neither expose.json nor the overlay keeps the wrap. *)
LEMMA WrapFrame ==
  ASSUME TypeOK, WrapKept, NEW p \in Busy, NEW n \in Op \cup {Idle},
         op' = [op EXCEPT ![p] = n], store' = store, state'.wrap = state.wrap,
         (op[p].at \in {"read", "write"} /\ op[p].kind \in {"mcpSet", "mcpRemove"}
            /\ op[p].up = state.wrap) =>
           n # Idle /\ n.at \in {"read", "write"} /\ n.kind = op[p].kind /\ n.up = op[p].up,
         (n # Idle /\ n.kind = "wrap" /\ n.at \in {"read", "write"} /\ n.up # None) =>
           Served(n.up)
  PROVE  WrapKept'
<1>0. p \in Procs
  BY DEF Busy
<1>1. /\ op'[p] = n /\ \A q \in Procs \ {p} : op'[q] = op[q]
      /\ Busy' = IF n = Idle THEN Busy \ {p} ELSE Busy \cup {p}
  BY <1>0, OpUpdate
<1>2. \A u : Served(u)' <=> Served(u)
  BY DEF Served
<1>3. \/ state'.wrap = None \/ Served(state.wrap)'
      \/ \E q \in Busy' : /\ op'[q].at \in {"read", "write"} /\ op'[q].up = state'.wrap
                          /\ op'[q].kind \in {"mcpSet", "mcpRemove"}
  <2>1. CASE state.wrap = None \/ Served(state.wrap)
    BY <1>2, <2>1 DEF Served
  <2>2. ASSUME NEW q \in Busy, op[q].at \in {"read", "write"}, op[q].up = state.wrap,
               op[q].kind \in {"mcpSet", "mcpRemove"}
        PROVE  \E s \in Busy' : /\ op'[s].at \in {"read", "write"} /\ op'[s].up = state'.wrap
                                /\ op'[s].kind \in {"mcpSet", "mcpRemove"}
    <3>1. CASE q = p
      BY <1>1, <2>2, <3>1
    <3>2. CASE q # p
      BY <1>1, <2>2, <3>2 DEF Busy
    <3> QED BY <3>1, <3>2
  <2> QED BY <2>1, <2>2 DEF WrapKept
<1>4. ASSUME NEW q \in Busy', op'[q].kind = "wrap", op'[q].at \in {"read", "write"}, op'[q].up # None
      PROVE  Served(op[q].up)'
  <2>1. CASE q = p
    BY <1>1, <1>4, <2>1 DEF Served
  <2>2. CASE q # p
    <3>1. q \in Busy /\ op'[q] = op[q]
      BY <1>1, <1>4, <2>2 DEF Busy
    <3>2. Served(op[q].up)
      BY <1>4, <3>1 DEF WrapKept
    <3> QED BY <3>1, <3>2 DEF Served
  <2> QED BY <2>1, <2>2
<1> QED BY <1>3, <1>4 DEF WrapKept

-----------------------------------------------------------------------------
(* The steps of an operation.                                              *)
LEMMA Standing ==
  ASSUME ConfInv, NEW p \in Procs, op[p].at # "idle"
  PROVE  /\ TypeOK /\ p \in Busy /\ op[p] \in Op
         /\ op[p].found # None => Busy = {p} /\ Traced(op[p])
         /\ op[p].at # "refused" => /\ AboutShape(op[p]) /\ StageShape(op[p]) /\ LoadShape(op[p])
                                    /\ apart => Knows(op[p])
<1>1. TypeOK /\ p \in Busy /\ op[p] \in Op
  BY BusyOp DEF ConfInv
<1> QED BY <1>1 DEF ConfInv, Shaped, Traceable, Informed, OpShape

(* A step that writes none of the four files.                              *)
LEMMA QuietStep ==
  ASSUME ConfInv, NEW p \in Busy, NEW n \in Op \cup {Idle}, op' = [op EXCEPT ![p] = n],
         TypeOK', bad' = bad, faults' = faults, apart' = apart,
         register' = register, store' = store, state' = state, gates' = gates,
         gated' = gated, off' \subseteq off, loose \subseteq loose', torn' = torn,
         n # Idle => OpShape(n) /\ n.kind = op[p].kind,
         n # Idle /\ n.found # None => op[p].found # None /\ (Busy = {p} => Traced(n)'),
         apart /\ n # Idle /\ n.at # "refused" => Knows(n)',
         \A t \in Tools, m \in Names : Carries(op[p], t, m) => n # Idle /\ Carries(n, t, m),
         (apart /\ faults = 0 /\ op[p].at \in {"read", "write"}
            /\ op[p].kind \in {"mcpSet", "mcpRemove"} /\ op[p].up = state.wrap) =>
           n # Idle /\ n.at \in {"read", "write"} /\ n.up = op[p].up,
         (apart /\ faults = 0 /\ n # Idle /\ n.kind = "wrap" /\ n.at \in {"read", "write"}
            /\ n.up # None) => Served(n.up)
  PROVE  ConfInv'
<1>0. TypeOK
  BY DEF ConfInv
<1>1. Shaped' /\ Traceable' /\ (apart' => Apart' /\ Informed')
  <2>1. faults <= faults'
    BY <1>0, TypeFacts
  <2> QED BY <2>1, StepFrame
<1>2. ASSUME apart'
      PROVE  PolicyKept'
  <2>1. PolicyKept /\ torn \subseteq torn'
    BY <1>2 DEF ConfInv
  <2> QED BY <1>0, <2>1, PolicyFrame
<1>3. ASSUME apart', faults' = 0
      PROVE  WrapKept'
  <2>1. WrapKept
    BY <1>3 DEF ConfInv
  <2> QED BY <1>0, <1>3, <2>1, WrapFrame
<1>4. AliasesOf(store)' /\ (faults' = 0 => bad' = {})
  BY DEF ConfInv, AliasesOf
<1> QED BY <1>1, <1>2, <1>3, <1>4 DEF ConfInv

LEMMA RefuseFacts ==
  ASSUME TypeOK, NEW p \in Busy, Refuse(p)
  PROVE  \E n \in Op : /\ op' = [op EXCEPT ![p] = n] /\ n # Idle
                       /\ n.at = "refused" /\ n.kind = op[p].kind /\ n.found = op[p].found
<1>1. op[p] \in Op
  BY BusyFacts DEF Busy
<1>2. PICK k, f : k = op[p].kind /\ f = op[p].found
  OBVIOUS
<1>b. PICK b : b = Blank
  OBVIOUS
<1>3. PICK n : n = [b EXCEPT !.at = "refused", !.kind = k, !.found = f]
  OBVIOUS
<1>4. k \in Kinds /\ f \in {None} \cup Files /\ b \in Op
  BY <1>1, <1>2, <1>b, OpFields, BlankType
<1>5. n \in Op /\ n.at = "refused" /\ n.kind = k /\ n.found = f
  BY <1>3, <1>4 DEF Op
<1>6. n # Idle
  BY <1>5 DEF Idle
<1> QED BY <1>2, <1>b, <1>3, <1>5, <1>6 DEF Refuse, Becomes

(* A refusal before anything was written, or after it was taken back.      *)
LEMMA RefuseStep ==
  ASSUME ConfInv, NEW p \in Busy, Refuse(p), TypeOK',
         bad' = bad, faults' = faults, apart' = apart,
         register' = register, store' = store, state' = state, gates' = gates,
         gated' = gated, off' = off, loose' = loose, torn' = torn,
         op[p].at \in {"load", "restore", "plan"},
         op[p].found # None /\ Traced(op[p]) => op[p].found = files'
  PROVE  ConfInv'
<1>0. TypeOK /\ (op[p].found # None => Traced(op[p]))
  BY DEF ConfInv, Traceable
<1>1. PICK n \in Op : /\ op' = [op EXCEPT ![p] = n] /\ n # Idle
                      /\ n.at = "refused" /\ n.kind = op[p].kind /\ n.found = op[p].found
  BY <1>0, RefuseFacts
<1>2. OpShape(n)
  BY <1>1 DEF OpShape
<1>3. n.found # None => op[p].found # None /\ Traced(n)'
  BY <1>0, <1>1 DEF Traced
<1>4. \A t, m : ~Carries(op[p], t, m)
  BY DEF Carries
<1>5. op[p].at \notin {"read", "write"} /\ n.at \notin {"read", "write"}
  BY <1>1
<1> QED BY <1>1, <1>2, <1>3, <1>4, <1>5, QuietStep

LEMMA LoadRegistryStep ==
  ASSUME ConfInv, NEW p \in Procs, LoadRegistry(p)
  PROVE  ConfInv'
<1>o. PICK o : o = op[p]
  OBVIOUS
<1>0. /\ o.at = "load" /\ o.kind \in RegistryKinds
      /\ UNCHANGED <<register, store, state, scripts, gates, row, bad, ops, faults, apart>>
      /\ UNCHANGED <<gated, off, loose, torn>>
  BY <1>o DEF LoadRegistry, diskVars, files, countVars, policyVars
<1>1. /\ TypeOK /\ p \in Busy /\ o \in Op
      /\ o.found # None => Busy = {p} /\ Traced(o)
      /\ AboutShape(o) /\ StageShape(o) /\ LoadShape(o)
  BY <1>o, <1>0, Standing
<1>m. PICK m : m = [o EXCEPT !.reg = register]
  OBVIOUS
<1>2. /\ m \in Op /\ m.at = o.at /\ Aim(o, m) /\ m.found = o.found
      /\ m.reg = register /\ m.sto = o.sto /\ m.sta = o.sta /\ m.gat = o.gat
  BY <1>m, <1>1, TypeFacts, RegStep
<1>3. CASE "register" \in bad \/ RegistryRejects(m)
  <2>1. Refuse(p)
    BY <1>o, <1>m, <1>3 DEF LoadRegistry
  <2>2. TypeOK'
    <3>1. op' \in [Procs -> Op \cup {Idle}]
      BY <1>1, <2>1, RefuseFacts, OpUpdate
    <3> QED BY <1>0, <1>1, <3>1 DEF TypeOK
  <2>3. files' = files
    BY <1>0 DEF files
  <2> QED BY <1>o, <1>0, <1>1, <2>1, <2>2, <2>3, RefuseStep DEF Traced
<1>4. CASE ~("register" \in bad \/ RegistryRejects(m))
  <2>a. PICK a : a = IF m.text THEN "script" ELSE Forward(m)
    OBVIOUS
  <2>n. PICK n : n = [m EXCEPT !.at = a]
    OBVIOUS
  <2>0. a \in Stages /\ op' = [op EXCEPT ![p] = n]
    BY <1>o, <1>m, <1>4, <2>a, <2>n, ForwardFacts DEF LoadRegistry, Becomes, Stages
  <2>1. /\ n \in Op /\ n.at = a /\ Aim(m, n) /\ n.found = m.found
        /\ n.reg = m.reg /\ n.sto = m.sto /\ n.sta = m.sta
    BY <1>2, <2>n, <2>0, AtStep
  <2>2. /\ Renames(n) <=> Renames(m)
        /\ Aim(o, n) /\ n.reg = register /\ n.found = o.found
    BY <1>2, <2>1, AimFacts DEF Aim
  <2>3. n.at = IF n.text THEN "script" ELSE IF Renames(n) THEN "plan" ELSE "save"
    BY <2>a, <2>1, <2>2, ForwardFacts DEF Aim
  <2>4. /\ n.kind \in RegistryKinds /\ AboutShape(n)
        /\ n.kind \in {"toolUpdate", "toolRemove"} => n.tool \in DOMAIN register
        /\ n.kind = "toolAdd" /\ ~n.text => n.tool \notin DOMAIN register
    BY <1>0, <1>1, <1>2, <1>4, <2>1, <2>2, AimFacts DEF Aim, RegistryRejects
  <2>5. OpShape(n)
    <3>1. StageShape(n)
      BY <2>3, <2>4 DEF StageShape, AboutShape, RegistryKinds
    <3>2. LoadShape(n)
      BY <2>2, <2>3, <2>4 DEF LoadShape, StoreKinds, RegistryKinds, ExposeKinds
    <3> QED BY <2>4, <3>1, <3>2 DEF OpShape
  <2>6. TypeOK'
    <3>1. op' \in [Procs -> Op \cup {Idle}]
      BY <1>1, <2>0, <2>1, OpUpdate
    <3> QED BY <1>0, <1>1, <3>1 DEF TypeOK
  <2>7. n.found # None => o.found # None /\ (Busy = {p} => Traced(n)')
    <3>1. n.at = "save" => ~n.text
      BY <2>3
    <3>2. n.at # "restore"
      BY <2>3
    <3>3. n.found # None => n.found = files'
      BY <1>0, <1>1, <2>2 DEF Traced, files
    <3> QED BY <2>2, <3>1, <3>2, <3>3 DEF Traced
  <2>8. Knows(n)'
    <3>1. n.at \in {"script", "plan", "save"} /\ n.kind \notin StoreKinds
      BY <2>3, <2>4 DEF RegistryKinds, StoreKinds, ExposeKinds
    <3>2. n.at = "save" => ~Renames(n)
      BY <2>3
    <3> QED BY <1>0, <2>2, <3>1, <3>2 DEF Knows
  <2>9. /\ \A t, k : ~Carries(o, t, k)
        /\ o.at \notin {"read", "write"} /\ n.at \notin {"read", "write"}
    BY <1>0, <2>3 DEF Carries
  <2>10. n.kind = o.kind
    BY <2>2 DEF Aim
  <2> QED BY <1>o, <1>0, <1>1, <2>0, <2>1, <2>5, <2>6, <2>7, <2>8, <2>9, <2>10, QuietStep
<1> QED BY <1>3, <1>4

LEMMA LoadExposeStep ==
  ASSUME ConfInv, NEW p \in Procs, LoadExposeStore(p)
  PROVE  ConfInv'
<1>o. PICK o : o = op[p]
  OBVIOUS
<1>0. /\ o.at = "load" /\ o.kind \notin RegistryKinds
      /\ UNCHANGED <<register, store, state, scripts, gates, row, bad, ops, faults, apart>>
      /\ UNCHANGED <<gated, off, loose, torn>>
  BY <1>o DEF LoadExposeStore, diskVars, files, countVars, policyVars
<1>1. /\ TypeOK /\ p \in Busy /\ o \in Op
      /\ o.found # None => Busy = {p} /\ Traced(o)
      /\ AboutShape(o) /\ StageShape(o) /\ LoadShape(o)
  BY <1>o, <1>0, Standing
<1>m. PICK m : m = [o EXCEPT !.sto = store]
  OBVIOUS
<1>2. /\ m \in Op /\ m.at = o.at /\ Aim(o, m) /\ m.found = o.found
      /\ m.reg = o.reg /\ m.sto = store /\ m.sta = o.sta /\ m.gat = o.gat
  BY <1>m, <1>1, TypeFacts, StoStep
<1>3. CASE "store" \in bad \/ ExposeRejects(m)
  <2>1. Refuse(p)
    BY <1>o, <1>m, <1>3 DEF LoadExposeStore
  <2>2. TypeOK'
    <3>1. op' \in [Procs -> Op \cup {Idle}]
      BY <1>1, <2>1, RefuseFacts, OpUpdate
    <3> QED BY <1>0, <1>1, <3>1 DEF TypeOK
  <2>3. files' = files
    BY <1>0 DEF files
  <2> QED BY <1>o, <1>0, <1>1, <2>1, <2>2, <2>3, RefuseStep DEF Traced
<1>4. CASE ~("store" \in bad \/ ExposeRejects(m))
  <2>a. PICK a : a = IF m.kind = "wrap" THEN "read" ELSE Forward(m)
    OBVIOUS
  <2>n. PICK n : n = [m EXCEPT !.at = a]
    OBVIOUS
  <2>0. a \in Stages /\ op' = [op EXCEPT ![p] = n]
    BY <1>o, <1>m, <1>4, <2>a, <2>n, ForwardFacts DEF LoadExposeStore, Becomes, Stages
  <2>1. /\ n \in Op /\ n.at = a /\ Aim(m, n) /\ n.found = m.found
        /\ n.reg = m.reg /\ n.sto = m.sto /\ n.sta = m.sta
    BY <1>2, <2>n, <2>0, AtStep
  <2>2. /\ Renames(n) <=> Renames(m)
        /\ Aim(o, n) /\ n.sto = store /\ n.found = o.found
    BY <1>2, <2>1, AimFacts DEF Aim
  <2>3. n.at = IF n.kind = "wrap" THEN "read" ELSE IF Renames(n) THEN "plan" ELSE "save"
    BY <2>a, <2>1, <2>2, ForwardFacts DEF Aim
  <2>4. /\ n.kind \in Kinds \ RegistryKinds /\ n.kind # "toggle" /\ AboutShape(n) /\ ~n.text
        /\ ~ExposeRejects(n)
    <3>1. n.kind = o.kind /\ n.text = o.text /\ n.kind \in Kinds
      BY <2>1, <2>2, OpFields DEF Aim
    <3>2. AboutShape(n)
      BY <1>1, <2>1, <2>2, AimFacts
    <3>3. ExposeRejects(n) <=> ExposeRejects(m)
      BY <1>2, <2>1 DEF Aim, ExposeRejects
    <3> QED BY <1>0, <1>1, <1>4, <3>1, <3>2, <3>3 DEF StageShape, AboutShape, RegistryKinds
  <2>5. OpShape(n)
    <3>1. StageShape(n)
      BY <2>3, <2>4 DEF StageShape, AboutShape, RegistryKinds
    <3>2. n.kind \in {"updateExpose", "removeExpose"} =>
            n.tool \in DOMAIN store.expose /\ UpOf[n.tool] \in DOMAIN store.ups
      BY <2>4 DEF ExposeRejects, ConfInv, AliasesOf
    <3>3. LoadShape(n)
      BY <2>2, <2>3, <2>4, <3>2 DEF LoadShape, StoreKinds, RegistryKinds, ExposeKinds,
            ExposeRejects, ConfInv
    <3> QED BY <2>4, <3>1, <3>3 DEF OpShape
  <2>6. TypeOK'
    <3>1. op' \in [Procs -> Op \cup {Idle}]
      BY <1>1, <2>0, <2>1, OpUpdate
    <3> QED BY <1>0, <1>1, <3>1 DEF TypeOK
  <2>7. n.found # None => o.found # None /\ (Busy = {p} => Traced(n)')
    <3>1. n.at # "restore" /\ ~n.text
      BY <2>3, <2>4
    <3>2. n.found # None => n.found = files'
      BY <1>0, <1>1, <2>2 DEF Traced, files
    <3> QED BY <2>2, <3>1, <3>2 DEF Traced
  <2>8. Knows(n)'
    <3>1. n.at \in {"read", "plan", "save"} /\ n.kind # "toolRemove"
      BY <2>3, <2>4 DEF RegistryKinds
    <3>2. n.at = "save" => ~Renames(n)
      BY <2>3
    <3> QED BY <1>0, <2>2, <2>4, <3>1, <3>2 DEF Knows
  <2>9. (n.kind = "wrap" /\ n.up # None) => Served(n.up)
    BY <2>4 DEF ExposeRejects, Served
  <2>10. (\A t, k : ~Carries(o, t, k)) /\ o.at \notin {"read", "write"} /\ n.kind = o.kind
    BY <1>0, <2>2 DEF Carries, Aim
  <2> QED BY <1>o, <1>0, <1>1, <2>0, <2>1, <2>5, <2>6, <2>7, <2>8, <2>9, <2>10, QuietStep
<1> QED BY <1>3, <1>4

LEMMA AnsweredStep ==
  ASSUME ConfInv, NEW p \in Procs, Answered(p)
  PROVE  ConfInv'
<1>0. /\ op[p].at = "refused" /\ op' = [op EXCEPT ![p] = Idle]
      /\ UNCHANGED <<register, store, state, scripts, gates, row, bad, ops, faults, apart>>
      /\ UNCHANGED <<gated, off, loose, torn>>
  BY DEF Answered, Done, Becomes, diskVars, files, countVars, policyVars
<1>1. TypeOK /\ p \in Busy
  BY <1>0, Standing
<1>2. TypeOK'
  <2>1. op' \in [Procs -> Op \cup {Idle}]
    BY <1>0, <1>1, OpUpdate
  <2> QED BY <1>0, <1>1, <2>1 DEF TypeOK
<1>3. (\A t, k : ~Carries(op[p], t, k)) /\ op[p].at \notin {"read", "write"}
  BY <1>0 DEF Carries
<1> QED BY <1>0, <1>1, <1>2, <1>3, QuietStep

LEMMA RestoreScriptStep ==
  ASSUME ConfInv, NEW p \in Procs, RestoreScript(p)
  PROVE  ConfInv'
<1>0. /\ op[p].at = "restore" /\ Refuse(p)
      /\ scripts' = [scripts EXCEPT ![op[p].tool] = op[p].prior]
      /\ UNCHANGED <<register, store, state, gates, row, bad, ops, faults, apart>>
      /\ UNCHANGED <<gated, off, loose, torn>>
  BY DEF RestoreScript, countVars, policyVars
<1>1. TypeOK /\ p \in Busy /\ op[p] \in Op
  BY <1>0, Standing
<1>2. TypeOK'
  <2>1. op' \in [Procs -> Op \cup {Idle}]
    BY <1>0, <1>1, RefuseFacts, OpUpdate
  <2>2. op[p].prior \in Bodies
    BY <1>1, OpFields
  <2>3. scripts' \in [Locals -> Bodies]
    BY <1>0, <1>1, <2>2, TypeFacts
  <2> QED BY <1>0, <1>1, <2>1, <2>3 DEF TypeOK
<1>3. op[p].found # None /\ Traced(op[p]) => op[p].found = files'
  BY <1>0 DEF Traced, files
<1> QED BY <1>0, <1>1, <1>2, <1>3, RefuseStep

LEMMA WriteScriptStep ==
  ASSUME ConfInv, NEW p \in Procs, WriteScript(p)
  PROVE  ConfInv'
<1>o. PICK o : o = op[p]
  OBVIOUS
<1>0. /\ o.at = "script" /\ scripts' = [scripts EXCEPT ![o.tool] = "new"]
      /\ UNCHANGED <<register, store, state, gates, row, bad, ops, faults, apart>>
      /\ UNCHANGED <<gated, off, loose, torn>>
  BY <1>o DEF WriteScript, countVars, policyVars
<1>1. /\ TypeOK /\ p \in Busy /\ o \in Op
      /\ o.found # None => Busy = {p} /\ Traced(o)
      /\ AboutShape(o) /\ StageShape(o) /\ LoadShape(o) /\ (apart => Knows(o))
  BY <1>o, <1>0, Standing
<1>2. o.kind \in {"toolAdd", "toolUpdate"} /\ o.text /\ o.tool \in Locals
  BY <1>0, <1>1 DEF StageShape, AboutShape, RegistryKinds
<1>f. PICK f : f = IF TakesBack(p, o) THEN o.found ELSE None
  OBVIOUS
<1>m. PICK m : m = [o EXCEPT !.prior = scripts[o.tool], !.found = f]
  OBVIOUS
<1>3. /\ m \in Op /\ m.at = o.at /\ Aim(o, m) /\ m.found = f
      /\ m.reg = o.reg /\ m.sto = o.sto /\ m.sta = o.sta /\ m.gat = o.gat
      /\ m.prior = scripts[o.tool]
  <2>1. scripts[o.tool] \in Bodies /\ f \in {None} \cup Files
    BY <1>1, <1>2, <1>f, TypeFacts, OpFields
  <2>2. PICK b : b = scripts[o.tool]
    OBVIOUS
  <2>3. m = [o EXCEPT !.prior = b, !.found = f] /\ b \in Bodies /\ f \in {None} \cup Files
    BY <1>m, <2>1, <2>2
  <2>4. /\ m \in Op /\ m.at = o.at /\ m.found = f
        /\ m.reg = o.reg /\ m.sto = o.sto /\ m.sta = o.sta /\ m.gat = o.gat
        /\ m.prior = b
    BY <1>1, <2>3 DEF Op
  <2>5. Aim(o, m)
    BY <1>1, <2>3 DEF Op, Aim
  <2> QED BY <2>2, <2>4, <2>5
<1>4. TypeOK' <=> op' \in [Procs -> Op \cup {Idle}]
  <2>1. scripts' \in [Locals -> Bodies]
    BY <1>0, <1>1, TypeFacts DEF Bodies
  <2> QED BY <1>0, <1>1, <2>1 DEF TypeOK
<1>5. (\A t, k : ~Carries(o, t, k)) /\ o.at \notin {"read", "write"}
  BY <1>0 DEF Carries
<1>6. ASSUME NEW a \in Stages, NEW n, n = [m EXCEPT !.at = a], op' = [op EXCEPT ![p] = n],
             \/ a = "restore" /\ TakesBack(p, o)
             \/ ~(o.kind = "toolAdd" /\ o.tool \in DOMAIN o.reg) /\ a = Forward(m)
      PROVE  ConfInv'
  <2>1. /\ n \in Op /\ n.at = a /\ Aim(m, n) /\ n.found = f
        /\ n.reg = o.reg /\ n.sto = o.sto /\ n.prior = scripts[o.tool]
    BY <1>3, <1>6, AtStep
  <2>2. /\ Renames(n) <=> Renames(m)
        /\ Aim(o, n) /\ n.kind = o.kind /\ n.tool = o.tool /\ n.text
    BY <1>2, <1>3, <2>1, AimFacts DEF Aim
  <2>3. \/ n.at = "restore" /\ o.kind = "toolAdd"
        \/ /\ ~(o.kind = "toolAdd" /\ o.tool \in DOMAIN o.reg)
           /\ n.at = IF Renames(n) THEN "plan" ELSE "save"
    BY <1>6, <2>1, <2>2, ForwardFacts DEF TakesBack
  <2>4. OpShape(n)
    <3>1. AboutShape(n)
      BY <1>1, <2>1, <2>2, AimFacts
    <3>2. StageShape(n)
      BY <1>2, <2>2, <2>3 DEF StageShape
    <3>3. LoadShape(n)
      BY <1>0, <1>1, <1>2, <2>1, <2>2, <2>3 DEF LoadShape, StoreKinds, ExposeKinds
    <3> QED BY <3>1, <3>2, <3>3 DEF OpShape
  <2>5. n.found # None => o.found # None /\ (Busy = {p} => Traced(n)')
    <3> SUFFICES ASSUME n.found # None
                 PROVE  o.found # None /\ Traced(n)'
      OBVIOUS
    <3>1. n.found = o.found /\ o.kind = "toolAdd"
      BY <1>f, <2>1 DEF TakesBack
    <3>2. n.found = files
      BY <1>0, <1>1, <3>1 DEF Traced
    <3>3. [scripts' EXCEPT ![n.tool] = n.prior] = scripts
      BY <1>0, <1>1, <1>2, <2>1, <2>2, TypeFacts
    <3>4. n.found = <<register', store', state', [scripts' EXCEPT ![n.tool] = n.prior], gates'>>
      BY <1>0, <3>2, <3>3 DEF files
    <3>5. n.at \in {"restore", "save"}
      BY <2>2, <2>3, <3>1 DEF Renames, ExposeKinds
    <3> QED BY <3>1, <3>4, <3>5 DEF Traced
  <2>6. apart => Knows(n)'
    <3>1. n.at \in {"restore", "plan", "save"} /\ (n.at = "save" => ~Renames(n))
      BY <2>3
    <3>2. n.kind \notin StoreKinds /\ n.kind # "toolRemove"
      BY <1>2, <2>2 DEF StoreKinds, ExposeKinds
    <3>3. apart => n.reg = register'
      BY <1>0, <1>1, <1>2, <2>1 DEF Knows, RegistryKinds
    <3> QED BY <3>1, <3>2, <3>3 DEF Knows
  <2>7. op' \in [Procs -> Op \cup {Idle}]
    BY <1>1, <1>6, <2>1, OpUpdate
  <2>8. n.at \notin {"read", "write"}
    BY <2>3
  <2> QED BY <1>o, <1>0, <1>1, <1>4, <1>5, <1>6, <2>1, <2>2, <2>4, <2>5, <2>6, <2>7, <2>8, QuietStep
<1>7. ASSUME NEW n, n = [Blank EXCEPT !.at = "refused", !.kind = o.kind], op' = [op EXCEPT ![p] = n]
      PROVE  ConfInv'
  <2>b. PICK b : b = Blank
    OBVIOUS
  <2>1. b \in Op /\ b.found = None /\ o.kind \in Kinds
    BY <1>1, <2>b, BlankType, OpFields DEF Blank
  <2>2. n = [b EXCEPT !.at = "refused", !.kind = o.kind]
    BY <1>7, <2>b
  <2>3. n \in Op /\ n.at = "refused" /\ n.kind = o.kind /\ n.found = None
    BY <2>1, <2>2 DEF Op
  <2>4. OpShape(n)
    BY <2>3 DEF OpShape
  <2>5. op' \in [Procs -> Op \cup {Idle}]
    BY <1>1, <1>7, <2>3, OpUpdate
  <2> QED BY <1>o, <1>0, <1>1, <1>4, <1>5, <1>7, <2>3, <2>4, <2>5, QuietStep
<1>8. \/ TakesBack(p, m) /\ op' = [op EXCEPT ![p] = [m EXCEPT !.at = "restore"]]
      \/ op' = [op EXCEPT ![p] = [Blank EXCEPT !.at = "refused", !.kind = m.kind]]
      \/ /\ ~(m.kind = "toolAdd" /\ m.tool \in DOMAIN m.reg)
         /\ op' = [op EXCEPT ![p] = [m EXCEPT !.at = Forward(m)]]
  <2>1. m = [o EXCEPT !.prior = scripts[o.tool], !.found = IF TakesBack(p, o) THEN @ ELSE None]
    BY <1>f, <1>m
  <2> QED BY <1>o, <2>1 DEF WriteScript, Becomes
<1>9. /\ TakesBack(p, m) <=> TakesBack(p, o)
      /\ m.kind = o.kind /\ m.tool = o.tool /\ m.reg = o.reg
  BY <1>3 DEF Aim, TakesBack
<1>10. Forward(m) \in Stages /\ "restore" \in Stages
  BY ForwardFacts DEF Stages
<1> QED BY <1>6, <1>7, <1>8, <1>9, <1>10

LEMMA ReadStateStep ==
  ASSUME ConfInv, NEW p \in Procs, ReadState(p)
  PROVE  ConfInv'
<1>o. PICK o : o = op[p]
  OBVIOUS
<1>s. PICK seen : seen = IF "state" \in bad THEN EmptyState ELSE state
  OBVIOUS
<1>0. /\ o.at = "read" /\ off' = IF "state" \in bad THEN {} ELSE off
      /\ UNCHANGED <<register, store, state, scripts, gates, row, bad, ops, faults, apart>>
      /\ UNCHANGED <<gated, loose, torn>>
  BY <1>o DEF ReadState, diskVars, files, countVars
<1>1. /\ TypeOK /\ p \in Busy /\ o \in Op
      /\ o.found # None => Busy = {p} /\ Traced(o)
      /\ AboutShape(o) /\ StageShape(o) /\ LoadShape(o) /\ (apart => Knows(o))
  BY <1>o, <1>0, Standing
<1>2. TypeOK' <=> op' \in [Procs -> Op \cup {Idle}]
  BY <1>0, <1>1 DEF TypeOK
<1>3. (\A t, k : ~Carries(o, t, k)) /\ off' \subseteq off
  BY <1>0 DEF Carries
<1>4. faults = 0 => bad = {} /\ seen = state
  BY <1>s DEF ConfInv
<1>5. \/ o.kind \in {"mcpSet", "mcpRemove"} /\ seen.wrap # o.up /\ op' = [op EXCEPT ![p] = Idle]
      \/ op' = [op EXCEPT ![p] = [o EXCEPT !.at = "write", !.sta = seen]]
  BY <1>o, <1>s DEF ReadState, Done, Becomes
<1>6. CASE o.kind \in {"mcpSet", "mcpRemove"} /\ seen.wrap # o.up /\ op' = [op EXCEPT ![p] = Idle]
  <2>1. op' \in [Procs -> Op \cup {Idle}]
    BY <1>1, <1>6, OpUpdate
  <2> QED BY <1>o, <1>0, <1>1, <1>2, <1>3, <1>4, <1>6, <2>1, QuietStep
<1>7. CASE op' = [op EXCEPT ![p] = [o EXCEPT !.at = "write", !.sta = seen]]
  <2>n. PICK n : n = [o EXCEPT !.at = "write", !.sta = seen]
    OBVIOUS
  <2>0. op' = [op EXCEPT ![p] = n] /\ seen \in State
    BY <1>1, <1>7, <1>s, <2>n, TypeFacts, EmptyStateType
  <2>1. n \in Op /\ n.at = "write" /\ n.sta = seen /\ n.found = o.found
    BY <1>1, <2>n, <2>0 DEF Op
  <2>2. Aim(o, n)
    BY <1>1, <2>n, <2>0 DEF Op, Aim
  <2>3. OpShape(n)
    <3>1. AboutShape(n) /\ n.kind = o.kind /\ n.on = o.on
      BY <1>1, <2>1, <2>2, AimFacts DEF Aim
    <3>2. StageShape(n)
      BY <1>0, <1>1, <2>1, <3>1 DEF StageShape
    <3>3. LoadShape(n)
      BY <2>1 DEF LoadShape
    <3> QED BY <3>1, <3>2, <3>3 DEF OpShape
  <2>4. op' \in [Procs -> Op \cup {Idle}]
    BY <1>1, <2>0, <2>1, OpUpdate
  <2>5. n.found # None => o.found # None /\ (Busy = {p} => Traced(n)')
    BY <2>1 DEF Traced
  <2>6. apart => Knows(n)'
    <3>1. n.kind = o.kind /\ n.tool = o.tool
      BY <2>2 DEF Aim
    <3>2. n.sta = state' \/ (off' = {} /\ faults' > 0)
      <4>1. faults \in Nat
        BY <1>1, TypeFacts
      <4> QED BY <1>0, <1>4, <1>s, <2>1, <4>1
    <3> QED BY <1>0, <1>1, <2>1, <3>1, <3>2 DEF Knows
  <2>7. apart /\ faults = 0 /\ n.kind = "wrap" /\ n.up # None => Served(n.up)
    <3>1. n.kind = o.kind /\ n.up = o.up
      BY <2>2 DEF Aim
    <3> QED BY <1>o, <1>0, <1>1, <3>1 DEF ConfInv, WrapKept
  <2>8. n.kind = o.kind /\ n.up = o.up
    BY <2>2 DEF Aim
  <2>9. n # Idle /\ n.at \in {"read", "write"} /\ n.at # "refused"
    BY <2>1 DEF Idle
  <2>10. TypeOK' /\ op[p] = o /\ n \in Op \cup {Idle}
    BY <1>o, <1>2, <2>1, <2>4
  <2> QED BY <1>0, <1>1, <1>3, <2>0, <2>3, <2>5, <2>6, <2>7, <2>8, <2>9, <2>10, QuietStep
<1> QED BY <1>5, <1>6, <1>7

LEMMA PlanOk ==
  ASSUME ConfInv, NEW p \in Procs, Plan(p)
  PROVE  ConfInv'
<1>o. PICK o : o = op[p]
  OBVIOUS
<1>g. PICK g : g = IF "hooks" \in bad THEN {} ELSE gates
  OBVIOUS
<1>s. PICK s : s = IF "state" \in bad THEN EmptyState ELSE state
  OBVIOUS
<1>m. PICK m : m = [o EXCEPT !.gat = g, !.sta = s]
  OBVIOUS
<1>0. /\ o.at = "plan"
      /\ UNCHANGED <<register, store, state, scripts, gates, row, bad, ops, faults, apart>>
      /\ UNCHANGED <<gated, off, torn>>
  BY <1>o DEF Plan, diskVars, files, countVars
<1>1. /\ TypeOK /\ p \in Busy /\ o \in Op
      /\ o.found # None => Busy = {p} /\ Traced(o)
      /\ AboutShape(o) /\ StageShape(o) /\ LoadShape(o) /\ (apart => Knows(o))
  BY <1>o, <1>0, Standing
<1>2. /\ m \in Op /\ m.at = o.at /\ Aim(o, m) /\ m.found = o.found
      /\ m.reg = o.reg /\ m.sto = o.sto /\ m.sta = s /\ m.gat = g
  <2>1. g \in SUBSET Names /\ s \in State
    BY <1>1, <1>g, <1>s, TypeFacts, EmptyStateType
  <2>2. /\ m \in Op /\ m.at = o.at /\ m.found = o.found
        /\ m.reg = o.reg /\ m.sto = o.sto /\ m.sta = s /\ m.gat = g
    BY <1>1, <1>m, <2>1 DEF Op
  <2>3. Aim(o, m)
    BY <1>1, <1>m, <2>1 DEF Op, Aim
  <2> QED BY <2>2, <2>3
<1>3. \/ Refuse(p) /\ loose' = loose
      \/ /\ ~Collides(m)
         /\ Becomes(p, [m EXCEPT !.at = IF OldName(m) \in m.gat THEN "hooks" ELSE AfterHooks(m)])
         /\ loose' = IF PastBad(m) THEN loose \cup {m.tool} ELSE loose
  BY <1>o, <1>g, <1>s, <1>m DEF Plan
<1>4. CASE Refuse(p) /\ loose' = loose
  <2>1. op' \in [Procs -> Op \cup {Idle}]
    BY <1>1, <1>4, RefuseFacts, OpUpdate
  <2>2. TypeOK'
    BY <1>0, <1>1, <1>4, <2>1 DEF TypeOK
  <2>3. files' = files
    BY <1>0 DEF files
  <2> QED BY <1>o, <1>0, <1>1, <1>4, <2>2, <2>3, RefuseStep DEF Traced
<1>5. CASE /\ ~Collides(m)
           /\ Becomes(p, [m EXCEPT !.at = IF OldName(m) \in m.gat THEN "hooks" ELSE AfterHooks(m)])
           /\ loose' = IF PastBad(m) THEN loose \cup {m.tool} ELSE loose
  <2>a. PICK a : a = IF OldName(m) \in m.gat THEN "hooks" ELSE AfterHooks(m)
    OBVIOUS
  <2>n. PICK n : n = [m EXCEPT !.at = a]
    OBVIOUS
  <2>0. op' = [op EXCEPT ![p] = n] /\ a \in Stages
    BY <1>5, <2>a, <2>n DEF Becomes, AfterHooks, Stages
  <2>1. /\ n \in Op /\ n.at = a /\ Aim(m, n) /\ n.found = o.found
        /\ n.reg = o.reg /\ n.sto = o.sto /\ n.sta = s /\ n.gat = g
    BY <1>2, <2>n, <2>0, AtStep
  <2>2. Aim(o, n) /\ n.kind = o.kind /\ n.tool = o.tool /\ n.text = o.text
    BY <1>2, <2>1 DEF Aim
  <2>3. AboutShape(n) /\ Renames(n)
    <3>1. Renames(o)
      BY <1>0, <1>1 DEF StageShape
    <3> QED BY <1>1, <2>1, <2>2, <3>1, AimFacts
  <2>4. /\ ~Collides(n) /\ (Moves(n) <=> Moves(m)) /\ OldName(n) = OldName(m)
    BY <1>2, <1>5, <2>1, AimFacts
  <2>5. n.at = IF OldName(n) \in g THEN "hooks" ELSE IF Moves(n) THEN "state" ELSE "save"
    BY <1>2, <2>a, <2>1, <2>4 DEF AfterHooks
  <2>6. n.tool \in Tools /\ n.kind \in ExposeKinds \cup {"toolUpdate"}
    BY <2>1, <2>3, RenameFacts
  <2>7. OpShape(n)
    <3>1. StageShape(n)
      BY <2>3, <2>4, <2>5, <2>6 DEF StageShape, ExposeKinds
    <3>2. LoadShape(n)
      BY <1>0, <1>1, <2>1, <2>2, <2>5, <2>6 DEF LoadShape, ExposeKinds
    <3> QED BY <2>3, <3>1, <3>2 DEF OpShape
  <2>8. TypeOK'
    <3>1. op' \in [Procs -> Op \cup {Idle}]
      BY <1>1, <2>0, <2>1, OpUpdate
    <3>2. m.tool \in Tools
      BY <1>2, <2>2, <2>6 DEF Aim
    <3>3. loose' \in SUBSET Tools
      BY <1>1, <1>5, <3>2, TypeFacts
    <3> QED BY <1>0, <1>1, <3>1, <3>3 DEF TypeOK
  <2>9. n.found # None => o.found # None /\ (Busy = {p} => Traced(n)')
    BY <2>1, <2>5, <2>6 DEF Traced, ExposeKinds
  <2>10. ASSUME apart
         PROVE  Knows(n)'
    <3>1. /\ o.kind \in RegistryKinds => n.reg = register'
          /\ o.kind \in StoreKinds => n.sto = store'
      BY <1>0, <1>1, <2>1, <2>10 DEF Knows
    <3>2. m.tool = n.tool
      BY <2>1 DEF Aim
    <3>3. n.tool \notin loose' => g = gates /\ (n.tool \in Remotes => s = state)
      BY <1>5, <1>g, <1>s, <3>2 DEF PastBad
    <3>4. OldName(n) \in g => g = gates'
      BY <1>0, <1>g
    <3>5. \/ s = state'
          \/ s = EmptyState /\ (n.tool \in Remotes => n.tool \in loose')
      BY <1>0, <1>5, <1>s, <3>2 DEF PastBad
    <3>6. n.at = "state" => s = state'
      BY <2>1, <2>5, <3>5, EmptyStateType DEF Moves
    <3>7. n.at = "save" /\ n.tool \in Remotes => OldName(n) \notin DOMAIN s.flags
      BY <2>1, <2>5 DEF Moves
    <3>8. n.at \in {"hooks", "state", "save"} /\ n.kind # "toolRemove"
      BY <2>5, <2>6 DEF ExposeKinds
    <3>9. n.at \in {"state", "save"} => OldName(n) \notin g
      BY <2>5
    <3>a. /\ n.at = "hooks" => n.gat = gates'
          /\ n.at = "hooks" /\ n.tool \in Remotes =>
                n.sta = state' \/ (n.sta = EmptyState /\ n.tool \in loose')
          /\ n.at = "state" => n.sta = state'
      BY <2>1, <2>5, <3>4, <3>5, <3>6
    <3>b. /\ n.at \in {"state", "save"} /\ n.tool \notin loose' => OldName(n) \notin gates'
          /\ n.at = "save" /\ n.tool \in Remotes \ loose' => OldName(n) \notin DOMAIN state'.flags
      BY <1>0, <3>3, <3>7, <3>9
    <3> QED BY <2>2, <3>1, <3>8, <3>a, <3>b DEF Knows
  <2>11. /\ \A t, k : ~Carries(o, t, k)
         /\ o.at \notin {"read", "write"} /\ n.at \notin {"read", "write"} /\ loose \subseteq loose'
    BY <1>0, <1>5, <2>5 DEF Carries
  <2> QED BY <1>o, <1>0, <1>1, <2>0, <2>1, <2>2, <2>7, <2>8, <2>9, <2>10, <2>11, QuietStep
<1> QED BY <1>3, <1>4, <1>5

(* While a rename is carried, no other operation on its files is under way.*)
LEMMA CarriedApart ==
  ASSUME ConfInv, apart, NEW p \in Busy, NEW q \in Busy \ {p}, NEW t, NEW m, Carries(op[q], t, m)
  PROVE  /\ "hooks" \notin Touches(op[p].kind)
         /\ t \in Remotes => "state" \notin Touches(op[p].kind)
         /\ t \in Locals => "register" \notin Touches(op[p].kind)
<1>1. q \in Procs /\ TypeOK
  BY DEF Busy, ConfInv
<1>2. op[q] \in Op /\ AboutShape(op[q]) /\ Renames(op[q]) /\ op[q].tool = t
  BY <1>1, BusyFacts DEF Busy, ConfInv, Shaped, OpShape, Carries
<1>3. Touches(op[p].kind) \cap Touches(op[q].kind) = {}
  BY DEF ConfInv, Apart
<1> QED BY <1>2, <1>3, RenameFacts

(* The tool a rename is about goes by the old name, and who else does is   *)
(* excused.                                                                *)
LEMMA RenamedAlone ==
  ASSUME ConfInv, apart, NEW p \in Busy, op[p].at \in {"plan", "hooks", "state", "save"},
         op[p].kind \in ExposeKinds \cup {"toolUpdate"}
  PROVE  /\ OldName(op[p]) = Surfaced(register, store, op[p].tool)
         /\ op[p].tool \in Present(register, store)
         /\ \A t \in Present(register, store) \ {op[p].tool} :
              t \notin loose => /\ Surfaced(register, store, t) # OldName(op[p])
                                /\ op[p].tool \in Remotes =>
                                     KeyOf(register, store, t) # OldName(op[p])
<1> PICK o : o = op[p]
  OBVIOUS
<1>0. p \in Procs /\ TypeOK /\ op[p].at # "idle"
  BY DEF Busy, ConfInv
<1>1. AboutShape(o) /\ LoadShape(o) /\ Knows(o)
  BY <1>0, Standing
<1>4. OldName(o) = Surfaced(register, store, o.tool) /\ o.tool \in Present(register, store)
  <2>1. o.kind \in ExposeKinds \cup {"toolUpdate"}
    OBVIOUS
  <2>2. CASE o.kind = "toolUpdate"
    <3>1. o.tool \in Locals /\ o.tool \in DOMAIN o.reg /\ o.reg = register
      BY <1>1, <2>2 DEF AboutShape, LoadShape, Knows, RegistryKinds
    <3> QED BY <3>1 DEF OldName, Surfaced, Present
  <2>3. CASE o.kind \in ExposeKinds
    <3>1. o.tool \in Remotes /\ UpOf[o.tool] \in DOMAIN o.sto.ups /\ o.sto = store
      BY <1>1, <2>3 DEF AboutShape, LoadShape, Knows, ExposeKinds, StoreKinds
    <3>2. o.tool \notin Locals
      BY <3>1
    <3> QED BY <3>1, <3>2 DEF OldName, Surfaced, Present
  <2> QED BY <2>1, <2>2, <2>3
<1>5. o.tool \in Remotes => KeyOf(register, store, o.tool) = OldName(o)
  <2>1. o.tool \in Remotes => o.tool \notin Locals
    OBVIOUS
  <2> QED BY <1>4, <2>1 DEF KeyOf, Surfaced
<1>6. Sharing(register, store) \subseteq loose
  BY DEF ConfInv, PolicyKept
<1> QED BY <1>4, <1>5, <1>6 DEF Sharing

LEMMA WriteHooksStep ==
  ASSUME ConfInv, NEW p \in Procs, WriteHooks(p)
  PROVE  ConfInv'
<1>o. PICK o : o = op[p]
  OBVIOUS
<1>0. /\ o.at = "hooks" /\ gates' = (o.gat \ {OldName(o)}) \cup {NewName(o)}
      /\ bad' = bad \ {"hooks"} /\ loose' = loose \cup (Stranded(OldName(o)) \ {o.tool})
      /\ UNCHANGED <<register, store, state, scripts, row, ops, faults, apart, gated, off, torn>>
  BY <1>o DEF WriteHooks, countVars
<1>1. /\ TypeOK /\ p \in Busy /\ o \in Op
      /\ o.found # None => Busy = {p} /\ Traced(o)
      /\ AboutShape(o) /\ StageShape(o) /\ LoadShape(o) /\ (apart => Knows(o))
  BY <1>o, <1>0, Standing
<1>2. Renames(o) /\ ~Collides(o)
  BY <1>0, <1>1 DEF StageShape
<1>3. /\ o.kind \in ExposeKinds \cup {"toolUpdate"} /\ o.tool \in Tools
      /\ NewName(o) \in Names /\ OldName(o) # NewName(o) /\ "hooks" \in Touches(o.kind)
  BY <1>1, <1>2, RenameFacts
<1>a. PICK a : a = AfterHooks(o)
  OBVIOUS
<1>n. PICK n : n = [o EXCEPT !.at = a]
  OBVIOUS
<1>4. op' = [op EXCEPT ![p] = n] /\ a \in Stages
  BY <1>o, <1>a, <1>n DEF WriteHooks, Goto, Becomes, AfterHooks, Stages
<1>5. /\ n \in Op /\ n.at = a /\ Aim(o, n) /\ n.found = o.found
      /\ n.reg = o.reg /\ n.sto = o.sto /\ n.sta = o.sta /\ n.gat = o.gat
  BY <1>1, <1>n, <1>4, AtStep
<1>6. /\ n.at = IF Moves(n) THEN "state" ELSE "save"
      /\ AboutShape(n) /\ Renames(n) /\ ~Collides(n)
      /\ OldName(n) = OldName(o) /\ NewName(n) = NewName(o)
      /\ n.kind = o.kind /\ n.tool = o.tool /\ n.text = o.text
  BY <1>1, <1>2, <1>5, <1>a, AimFacts DEF AfterHooks, Aim
<1>7. OpShape(n)
  <2>1. StageShape(n)
    BY <1>3, <1>6 DEF StageShape, ExposeKinds
  <2>2. LoadShape(n)
    BY <1>0, <1>1, <1>3, <1>5, <1>6 DEF LoadShape, ExposeKinds
  <2> QED BY <1>6, <2>1, <2>2 DEF OpShape
<1>8. TypeOK'
  <2>1. op' \in [Procs -> Op \cup {Idle}]
    BY <1>1, <1>4, <1>5, OpUpdate
  <2>2. loose' \in SUBSET Tools /\ gates' \in SUBSET Names
    BY <1>0, <1>1, <1>3, TypeFacts, OpFields DEF Stranded
  <2> QED BY <1>0, <1>1, <2>1, <2>2 DEF TypeOK
<1>9. ASSUME apart
      PROVE  Knows(n)'
  <2>1. /\ o.kind \in RegistryKinds => n.reg = register'
        /\ o.kind \in StoreKinds => n.sto = store'
    BY <1>0, <1>1, <1>5, <1>9 DEF Knows
  <2>2. OldName(n) \notin gates'
    BY <1>0, <1>3, <1>6
  <2>3. o.tool \in Remotes => o.sta = state \/ (o.sta = EmptyState /\ o.tool \in loose)
    BY <1>0, <1>1, <1>9 DEF Knows
  <2>4. n.at = "state" => n.sta = state'
    BY <1>0, <1>5, <1>6, <2>3, EmptyStateType DEF Moves
  <2>5. n.at = "save" /\ n.tool \in Remotes \ loose' => OldName(n) \notin DOMAIN state'.flags
    BY <1>0, <1>5, <1>6, <2>3 DEF Moves
  <2>6. n.at \in {"state", "save"} /\ n.kind # "toolRemove"
    BY <1>3, <1>6 DEF ExposeKinds
  <2> QED BY <1>6, <2>1, <2>2, <2>4, <2>5, <2>6 DEF Knows
<1>10. Shaped' /\ Traceable' /\ (apart' => Apart' /\ Informed')
  <2>1. n.found # None => o.found # None /\ (Busy = {p} => Traced(n)')
    BY <1>3, <1>5, <1>6 DEF Traced, ExposeKinds
  <2>2. loose \subseteq loose' /\ faults <= faults' /\ apart' = apart
    BY <1>0, <1>1, TypeFacts
  <2> QED BY <1>o, <1>0, <1>1, <1>3, <1>4, <1>5, <1>6, <1>7, <1>8, <1>9, <2>1, <2>2, StepFrame
<1>11. ASSUME apart
       PROVE  PolicyKept'
  <2>0. /\ Sharing(register, store) \subseteq loose
        /\ gated \cup off \subseteq Present(register, store)
        /\ o.gat = gates
    BY <1>0, <1>1, <1>11 DEF Knows, ConfInv, PolicyKept
  <2>1. ASSUME NEW t \in Tools, NEW m \in MayBe(t)
        PROVE  /\ m \in MayBe(t)'
               /\ m = OldName(o) /\ t \in Present(register, store) \ loose' => t = o.tool
    <3>1. \/ m = Surfaced(register, store, t)
          \/ m \in Names /\ Carries(o, t, m)
          \/ m \in Names /\ <<t, m>> \in torn
          \/ m \in Becoming(t)' /\ \E q \in Busy \ {p} : Carries(op[q], t, m)
      BY <1>1, <1>4, <1>5, <1>o, <2>1, MayBeCases
    <3>2. ~Carries(o, t, m)
      BY <1>0 DEF Carries
    <3>3. ~\E q \in Busy \ {p} : Carries(op[q], t, m)
      BY <1>o, <1>1, <1>3, <1>11, CarriedApart
    <3>4. m \in MayBe(t)'
      BY <1>0, <1>1, <1>4, <1>5, <3>1, <3>2, MayBeNext
    <3>5. m = OldName(o) /\ t \in Present(register, store) \ loose' => t = o.tool
      <4> SUFFICES ASSUME m = OldName(o), t \in Present(register, store), t \notin loose', t # o.tool
                   PROVE  FALSE
        OBVIOUS
      <4>1. m # Surfaced(register, store, t)
        <5>1. t \notin loose
          BY <1>0
        <5> QED BY <1>o, <1>0, <1>1, <1>3, <1>11, <5>1, RenamedAlone
      <4>2. <<t, m>> \notin torn
        BY <1>0 DEF Stranded
      <4> QED BY <3>1, <3>2, <3>3, <4>1, <4>2
    <3> QED BY <3>4, <3>5
  <2>2. ASSUME NEW t \in gated' \ loose'
        PROVE  MayBe(t)' \cap gates' # {}
    <3>0. t \in Tools /\ t \in gated \ loose /\ t \in Present(register, store) \ loose'
      BY <1>0, <1>1, <2>0, <2>2, TypeFacts DEF TypeOK
    <3>1. PICK m \in MayBe(t) : m \in gates
      BY <1>11, <3>0 DEF ConfInv, PolicyKept
    <3>2. CASE m # OldName(o)
      BY <1>0, <2>0, <2>1, <3>0, <3>1, <3>2
    <3>3. CASE m = OldName(o)
      <4>1. t = o.tool
        BY <2>1, <3>0, <3>1, <3>3
      <4>2. n # Idle /\ Carries(n, t, NewName(o)) /\ NewName(o) \in Names
        BY <1>3, <1>6, <4>1 DEF Carries, Idle
      <4>3. NewName(o) \in MayBe(t)'
        BY <1>1, <1>4, <1>5, <4>2, MayBeNext
      <4> QED BY <1>0, <4>3
    <3> QED BY <3>2, <3>3
  <2>3. ASSUME NEW t \in off' \ loose'
        PROVE  \E k \in Keys(t)' : IsOff(k)'
    <3>0. t \in Tools /\ t \in off \ loose
      BY <1>0, <1>1, <2>3 DEF TypeOK
    <3>1. PICK k \in Keys(t) : IsOff(k)
      BY <1>11, <3>0 DEF ConfInv, PolicyKept
    <3>2. k \in Keys(t)'
      BY <2>1, <3>0, <3>1 DEF Keys
    <3>3. IsOff(k)'
      BY <1>0, <3>1 DEF IsOff
    <3> QED BY <3>2, <3>3
  <2>4. Sharing(register, store)' \subseteq loose' /\ gated' \cup off' \subseteq Present(register, store)'
    BY <1>0, <2>0
  <2> QED BY <2>2, <2>3, <2>4 DEF PolicyKept
<1>12. ASSUME apart, faults = 0
       PROVE  WrapKept'
  <2>1. WrapKept
    BY <1>12 DEF ConfInv
  <2>2. o.at \notin {"read", "write"} /\ n.at \notin {"read", "write"}
    BY <1>0, <1>6
  <2> QED BY <1>o, <1>0, <1>1, <1>4, <1>5, <2>1, <2>2, WrapFrame
<1>13. AliasesOf(store)' /\ (faults' = 0 => bad' = {})
  BY <1>0 DEF ConfInv, AliasesOf
<1> QED BY <1>0, <1>8, <1>10, <1>11, <1>12, <1>13 DEF ConfInv

LEMMA WriteStateStep ==
  ASSUME ConfInv, NEW p \in Procs, WriteState(p)
  PROVE  ConfInv'
<1>o. PICK o : o = op[p]
  OBVIOUS
<1>0. /\ o.at = "state"
      /\ state' = [o.sta EXCEPT !.flags =
                     With(Without(@, {OldName(o)}), NewName(o), @[OldName(o)])]
      /\ bad' = bad \ {"state"} /\ loose' = loose \cup (Stranded(OldName(o)) \ {o.tool})
      /\ UNCHANGED <<register, store, gates, scripts, row, ops, faults, apart, gated, off, torn>>
  BY <1>o DEF WriteState, countVars
<1>1. /\ TypeOK /\ p \in Busy /\ o \in Op
      /\ o.found # None => Busy = {p} /\ Traced(o)
      /\ AboutShape(o) /\ StageShape(o) /\ LoadShape(o) /\ (apart => Knows(o))
  BY <1>o, <1>0, Standing
<1>2. Renames(o) /\ ~Collides(o) /\ Moves(o)
  BY <1>0, <1>1 DEF StageShape
<1>3. /\ o.kind \in ExposeKinds \cup {"toolUpdate"} /\ o.tool \in Remotes /\ o.tool \in Tools
      /\ NewName(o) \in Names /\ OldName(o) # NewName(o) /\ "hooks" \in Touches(o.kind)
      /\ "state" \in Touches(o.kind) /\ "store" \in Touches(o.kind) /\ o.kind \in ExposeKinds
  BY <1>1, <1>2, RenameFacts DEF Moves
<1>n. PICK n : n = [o EXCEPT !.at = "save"]
  OBVIOUS
<1>4. op' = [op EXCEPT ![p] = n] /\ "save" \in Stages
  BY <1>o, <1>n DEF WriteState, Goto, Becomes, Stages
<1>5. /\ n \in Op /\ n.at = "save" /\ Aim(o, n) /\ n.found = o.found
      /\ n.reg = o.reg /\ n.sto = o.sto /\ n.sta = o.sta /\ n.gat = o.gat
  BY <1>1, <1>n, <1>4, AtStep
<1>6. /\ AboutShape(n) /\ Renames(n)
      /\ OldName(n) = OldName(o) /\ NewName(n) = NewName(o)
      /\ n.kind = o.kind /\ n.tool = o.tool /\ n.text = o.text
  BY <1>1, <1>2, <1>5, AimFacts DEF Aim
<1>7. OpShape(n)
  <2>1. StageShape(n)
    BY <1>3, <1>5, <1>6 DEF StageShape, ExposeKinds
  <2>2. LoadShape(n)
    BY <1>0, <1>1, <1>3, <1>5, <1>6 DEF LoadShape, ExposeKinds
  <2> QED BY <1>6, <2>1, <2>2 DEF OpShape
(* The overlay after the move: the flag of the old name, at the new one.   *)
<1>8. /\ state' \in State /\ state'.wrap = o.sta.wrap
      /\ DOMAIN state'.flags = (DOMAIN o.sta.flags \ {OldName(o)}) \cup {NewName(o)}
      /\ state'.flags[NewName(o)] = o.sta.flags[OldName(o)]
      /\ \A k \in DOMAIN o.sta.flags \ {OldName(o), NewName(o)} : state'.flags[k] = o.sta.flags[k]
  <2>f. PICK f : f = o.sta.flags
    OBVIOUS
  <2>1. f \in Partial(Names, Flags) /\ o.sta \in State
    BY <1>1, <2>f, OpFields DEF State
  <2>2. OldName(o) \in DOMAIN f
    BY <1>2, <2>f DEF Moves
  <2>w. PICK w : w = Without(f, {OldName(o)})
    OBVIOUS
  <2>3. w \in Partial(Names, Flags) /\ DOMAIN w = DOMAIN f \ {OldName(o)}
        /\ \A k \in DOMAIN f \ {OldName(o)} : w[k] = f[k]
    BY <2>1, <2>w, WithoutType, WithoutFacts
  <2>4. f[OldName(o)] \in Flags
    BY <2>1, <2>2, PartialFacts
  <2>v. PICK v, k : v = f[OldName(o)] /\ k = NewName(o)
    OBVIOUS
  <2>g. PICK g : g = With(w, k, v)
    OBVIOUS
  <2>5. /\ g \in Partial(Names, Flags) /\ DOMAIN g = DOMAIN w \cup {k}
        /\ g[k] = v /\ \A j \in DOMAIN w \ {k} : g[j] = w[j]
    <3>1. k \in Names /\ v \in Flags
      BY <1>3, <2>4, <2>v
    <3>2. With(w, k, v) \in Partial(Names, Flags)
      BY <2>3, <3>1, WithType
    <3>3. /\ DOMAIN With(w, k, v) = DOMAIN w \cup {k} /\ With(w, k, v)[k] = v
          /\ \A j \in DOMAIN w \ {k} : With(w, k, v)[j] = w[j]
      BY DEF With
    <3> QED BY <2>g, <3>2, <3>3
  <2>6. state' = [o.sta EXCEPT !.flags = g]
    BY <1>0, <2>f, <2>w, <2>v, <2>g
  <2>7. state' \in State /\ state'.wrap = o.sta.wrap /\ state'.flags = g
    BY <2>1, <2>5, <2>6 DEF State
  <2> QED BY <2>f, <2>v, <2>3, <2>5, <2>7
<1>9. TypeOK'
  <2>1. op' \in [Procs -> Op \cup {Idle}]
    BY <1>1, <1>4, <1>5, OpUpdate
  <2>2. loose' \in SUBSET Tools
    BY <1>0, <1>1, <1>3, TypeFacts DEF Stranded
  <2> QED BY <1>0, <1>1, <1>8, <2>1, <2>2 DEF TypeOK
<1>10. ASSUME apart
       PROVE  Knows(n)'
  <2>1. n.sto = store' /\ n.kind \notin RegistryKinds
    BY <1>0, <1>1, <1>3, <1>5, <1>6, <1>10 DEF Knows, StoreKinds, RegistryKinds, ExposeKinds
  <2>2. n.tool \notin loose' => OldName(n) \notin gates'
    BY <1>0, <1>1, <1>2, <1>6, <1>10 DEF Knows
  <2>3. OldName(n) \notin DOMAIN state'.flags
    BY <1>3, <1>6, <1>8
  <2>4. n.kind # "toolRemove"
    BY <1>3, <1>6 DEF ExposeKinds
  <2> QED BY <1>5, <2>1, <2>2, <2>3, <2>4 DEF Knows
<1>11. Shaped' /\ Traceable' /\ (apart' => Apart' /\ Informed')
  <2>1. n.found # None => o.found # None /\ (Busy = {p} => Traced(n)')
    BY <1>3, <1>5, <1>6 DEF Traced, ExposeKinds
  <2>2. loose \subseteq loose' /\ faults <= faults' /\ apart' = apart
    BY <1>0, <1>1, TypeFacts
  <2> QED BY <1>o, <1>0, <1>1, <1>3, <1>4, <1>5, <1>6, <1>7, <1>9, <1>10, <2>1, <2>2, StepFrame
<1>12. ASSUME apart
       PROVE  PolicyKept' /\ o.sta = state
  <2>0. /\ Sharing(register, store) \subseteq loose
        /\ gated \cup off \subseteq Present(register, store)
        /\ o.sta = state
    BY <1>0, <1>1, <1>12 DEF Knows, ConfInv, PolicyKept
  <2>1. ASSUME NEW t \in Tools, NEW m \in MayBe(t)
        PROVE  /\ m \in MayBe(t)'
               /\ m = OldName(o) /\ t \in Present(register, store) \ loose' => t = o.tool
    <3>1. \/ m = Surfaced(register, store, t)
          \/ m \in Names /\ Carries(o, t, m)
          \/ m \in Names /\ <<t, m>> \in torn
          \/ m \in Becoming(t)' /\ \E q \in Busy \ {p} : Carries(op[q], t, m)
      BY <1>1, <1>4, <1>5, <1>o, <2>1, MayBeCases
    <3>2. Carries(o, t, m) => n # Idle /\ Carries(n, t, m) /\ t = o.tool
      BY <1>5, <1>6 DEF Carries, Idle
    <3>3. ~\E q \in Busy \ {p} : Carries(op[q], t, m)
      BY <1>o, <1>1, <1>3, <1>12, CarriedApart
    <3>4. m \in MayBe(t)'
      BY <1>0, <1>1, <1>4, <1>5, <3>1, <3>2, MayBeNext
    <3>5. m = OldName(o) /\ t \in Present(register, store) \ loose' => t = o.tool
      <4> SUFFICES ASSUME m = OldName(o), t \in Present(register, store), t \notin loose', t # o.tool
                   PROVE  FALSE
        OBVIOUS
      <4>1. m # Surfaced(register, store, t)
        <5>1. t \notin loose
          BY <1>0
        <5> QED BY <1>o, <1>0, <1>1, <1>3, <1>12, <5>1, RenamedAlone
      <4>2. <<t, m>> \notin torn
        BY <1>0 DEF Stranded
      <4> QED BY <3>1, <3>2, <3>3, <4>1, <4>2
    <3> QED BY <3>4, <3>5
  <2>2. ASSUME NEW t \in gated' \ loose'
        PROVE  MayBe(t)' \cap gates' # {}
    <3>0. t \in Tools /\ t \in gated \ loose
      BY <1>0, <1>1, <2>2 DEF TypeOK
    <3>1. PICK m \in MayBe(t) : m \in gates
      BY <1>12, <3>0 DEF ConfInv, PolicyKept
    <3> QED BY <1>0, <2>1, <3>0, <3>1
  <2>3. ASSUME NEW t \in off' \ loose'
        PROVE  \E k \in Keys(t)' : IsOff(k)'
    <3>0. t \in Tools /\ t \in off \ loose /\ t \in Present(register, store) \ loose'
      BY <1>0, <1>1, <2>0, <2>3 DEF TypeOK
    <3>1. PICK k \in Keys(t) : IsOff(k)
      BY <1>12, <3>0 DEF ConfInv, PolicyKept
    <3>2. k \in Keys(t)'
      BY <2>1, <3>0, <3>1 DEF Keys
    <3>3. CASE k # OldName(o)
      <4>1. k \in DOMAIN state'.flags
        BY <1>8, <2>0, <3>1, <3>3 DEF IsOff
      <4>2. state'.flags[k] = state.flags[k]
        <5>1. CASE k # NewName(o)
          BY <1>8, <2>0, <3>1, <3>3, <5>1 DEF IsOff
        <5>2. CASE k = NewName(o)
          <6>1. state.flags[NewName(o)] = state.flags[OldName(o)]
            BY <1>2, <2>0, <3>1, <5>2 DEF Collides, TwoEntries, IsOff
          <6> QED BY <1>8, <2>0, <5>2, <6>1
        <5> QED BY <5>1, <5>2
      <4>3. IsOff(k)'
        BY <3>1, <4>1, <4>2 DEF IsOff
      <4> QED BY <3>2, <4>3
    <3>4. CASE k = OldName(o)
      <4>1. t = o.tool
        <5>1. CASE t \in Locals
          <6>1. k = t /\ KeyOf(register, store, t) = t
            BY <3>1, <5>1 DEF Keys, KeyOf
          <6>2. t # o.tool
            BY <1>3, <5>1
          <6> QED BY <1>o, <1>0, <1>1, <1>3, <1>12, <3>0, <3>4, <6>1, <6>2, RenamedAlone
        <5>2. CASE t \notin Locals
          <6>1. k \in MayBe(t)
            BY <3>1, <5>2 DEF Keys
          <6> QED BY <2>1, <3>0, <3>4, <6>1
        <5> QED BY <5>1, <5>2
      <4>2. n # Idle /\ Carries(n, t, NewName(o)) /\ NewName(o) \in Names
        BY <1>3, <1>5, <1>6, <4>1 DEF Carries, Idle
      <4>3. NewName(o) \in MayBe(t)'
        BY <1>1, <1>4, <1>5, <4>2, MayBeNext
      <4>4. t \notin Locals
        BY <1>3, <4>1
      <4>5. NewName(o) \in Keys(t)'
        BY <4>3, <4>4 DEF Keys
      <4>6. IsOff(NewName(o))'
        BY <1>8, <2>0, <3>1, <3>4 DEF IsOff
      <4> QED BY <4>5, <4>6
    <3> QED BY <3>3, <3>4
  <2>4. Sharing(register, store)' \subseteq loose' /\ gated' \cup off' \subseteq Present(register, store)'
    BY <1>0, <2>0
  <2> QED BY <2>0, <2>2, <2>3, <2>4 DEF PolicyKept
<1>13. ASSUME apart, faults = 0
       PROVE  WrapKept'
  <2>1. WrapKept /\ state'.wrap = state.wrap
    BY <1>8, <1>12, <1>13 DEF ConfInv
  <2>2. o.at \notin {"read", "write"} /\ n.at \notin {"read", "write"}
    BY <1>0, <1>5
  <2> QED BY <1>o, <1>0, <1>1, <1>4, <1>5, <2>1, <2>2, WrapFrame
<1>14. AliasesOf(store)' /\ (faults' = 0 => bad' = {})
  BY <1>0 DEF ConfInv, AliasesOf
<1> QED BY <1>0, <1>9, <1>11, <1>12, <1>13, <1>14 DEF ConfInv

(* What each operation saves in the register.                              *)
LEMMA RegisterFacts ==
  ASSUME NEW o \in Op, o.kind \in RegistryKinds, AboutShape(o),
         o.kind \in {"toolUpdate", "toolRemove"} => o.tool \in DOMAIN o.reg
  PROVE  /\ NewRegister(o) \in Register
         /\ DOMAIN NewRegister(o) = CASE o.kind = "toolAdd" -> DOMAIN o.reg \cup {o.tool}
                                      [] o.kind = "toolRemove" -> DOMAIN o.reg \ {o.tool}
                                      [] OTHER -> DOMAIN o.reg
         /\ \A t \in DOMAIN o.reg \ {o.tool} : NewRegister(o)[t] = o.reg[t]
         /\ o.kind = "toolUpdate" =>
              NewRegister(o)[o.tool] = IF o.name # None THEN o.name ELSE o.reg[o.tool]
<1>r. PICK r, t, v : r = o.reg /\ t = o.tool /\ v = o.name
  OBVIOUS
<1>1. r \in Partial(Locals, Names) /\ t \in Locals /\ v \in Names \cup {None}
  BY <1>r, OpFields DEF AboutShape, Register
<1>2. CASE o.kind = "toolAdd"
  <2>1. NewRegister(o) = With(r, t, v) /\ v \in Names
    BY <1>r, <1>2 DEF NewRegister, AboutShape
  <2>2. With(r, t, v) \in Partial(Locals, Names)
    BY <1>1, <2>1, WithType
  <2>3. DOMAIN With(r, t, v) = DOMAIN r \cup {t} /\ \A j \in DOMAIN r \ {t} : With(r, t, v)[j] = r[j]
    BY DEF With
  <2> QED BY <1>r, <1>2, <2>1, <2>2, <2>3 DEF Register
<1>3. CASE o.kind = "toolRemove"
  <2>1. NewRegister(o) = Without(r, {t})
    BY <1>r, <1>3 DEF NewRegister
  <2>2. Without(r, {t}) \in Partial(Locals, Names)
    BY <1>1, WithoutType
  <2>3. DOMAIN Without(r, {t}) = DOMAIN r \ {t} /\ \A j \in DOMAIN r \ {t} : Without(r, {t})[j] = r[j]
    BY WithoutFacts
  <2> QED BY <1>r, <1>3, <2>1, <2>2, <2>3 DEF Register
<1>4. CASE o.kind = "toolUpdate"
  <2>1. r \in [DOMAIN r -> Names] /\ DOMAIN r \subseteq Locals /\ t \in DOMAIN r
    BY <1>r, <1>1, <1>4, PartialFacts
  <2>2. CASE v = None
    <3>1. NewRegister(o) = r
      BY <1>r, <1>4, <2>2 DEF NewRegister
    <3> QED BY <1>r, <1>1, <1>4, <2>2, <3>1 DEF Register
  <2>3. CASE v # None
    <3>1. NewRegister(o) = [r EXCEPT ![t] = v] /\ v \in Names
      BY <1>r, <1>1, <1>4, <2>3 DEF NewRegister
    <3>n. PICK s : s = [r EXCEPT ![t] = v]
      OBVIOUS
    <3>2. s \in [DOMAIN r -> Names] /\ DOMAIN s = DOMAIN r /\ s[t] = v
          /\ \A j \in DOMAIN r \ {t} : s[j] = r[j]
      BY <2>1, <3>1, <3>n
    <3>3. s \in Partial(Locals, Names)
      BY <2>1, <3>2, PartialFacts
    <3> QED BY <1>r, <1>4, <2>3, <3>1, <3>n, <3>2, <3>3 DEF Register
  <2> QED BY <2>2, <2>3
<1> QED BY <1>2, <1>3, <1>4 DEF RegistryKinds

LEMMA SaveRegisterStep ==
  ASSUME ConfInv, NEW p \in Procs, SaveRegister(p)
  PROVE  ConfInv'
<1>o. PICK o : o = op[p]
  OBVIOUS
<1>0. /\ o.at = "save" /\ o.kind \in RegistryKinds
      /\ register' = NewRegister(o) /\ bad' = bad \ {"register"}
      /\ UNCHANGED <<store, state, scripts, gates, row, ops, faults, apart>>
      /\ gated' = gated \cap Present(register', store') /\ off' = off \cap Present(register', store')
      /\ loose' = loose \cup Sharing(register', store')
      /\ torn' = IF o.kind = "toolUpdate" /\ NewName(o) # None
                 THEN torn \ {<<o.tool, NewName(o)>>} ELSE torn
  BY <1>o DEF SaveRegister, countVars, Settle, RegistryKinds, ExposeKinds
<1>1. /\ TypeOK /\ p \in Busy /\ o \in Op
      /\ o.found # None => Busy = {p} /\ Traced(o)
      /\ AboutShape(o) /\ StageShape(o) /\ LoadShape(o) /\ (apart => Knows(o))
  BY <1>o, <1>0, Standing
<1>2. /\ o.kind \in {"toolUpdate", "toolRemove"} => o.tool \in DOMAIN o.reg
      /\ o.kind = "toolAdd" => o.tool \notin DOMAIN o.reg
      /\ o.tool \in Locals /\ "register" \in Touches(o.kind)
  BY <1>0, <1>1, OpFields, TouchFacts DEF LoadShape, AboutShape
<1>3. /\ register' \in Register
      /\ DOMAIN register' = CASE o.kind = "toolAdd" -> DOMAIN o.reg \cup {o.tool}
                              [] o.kind = "toolRemove" -> DOMAIN o.reg \ {o.tool}
                              [] OTHER -> DOMAIN o.reg
      /\ \A t \in DOMAIN o.reg \ {o.tool} : register'[t] = o.reg[t]
      /\ o.kind = "toolUpdate" =>
           register'[o.tool] = IF o.name # None THEN o.name ELSE o.reg[o.tool]
  BY <1>0, <1>1, <1>2, RegisterFacts
<1>m. PICK m : m = [o EXCEPT !.at = "read"]
  OBVIOUS
<1>n. PICK n : n = IF o.kind = "toolRemove" THEN m ELSE Idle
  OBVIOUS
<1>4. /\ m \in Op /\ m.at = "read" /\ Aim(o, m) /\ m.found = o.found
  <2>1. "read" \in Stages
    BY DEF Stages
  <2> QED BY <1>1, <1>m, <2>1, AtStep
<1>5. /\ op' = [op EXCEPT ![p] = n] /\ n \in Op \cup {Idle}
      /\ n # Idle => n \in Op /\ n.at = "read" /\ Aim(o, n) /\ o.kind = "toolRemove"
                     /\ n.found = o.found /\ n.kind = o.kind /\ n.tool = o.tool
  BY <1>o, <1>m, <1>n, <1>4 DEF SaveRegister, Goto, Done, Becomes, Aim
<1>6. n # Idle => OpShape(n)
  <2> SUFFICES ASSUME n # Idle PROVE OpShape(n)
    OBVIOUS
  <2>1. AboutShape(n)
    BY <1>1, <1>5, AimFacts
  <2> QED BY <1>5, <2>1 DEF OpShape, StageShape, LoadShape
<1>7. TypeOK'
  <2>1. op' \in [Procs -> Op \cup {Idle}]
    BY <1>1, <1>5, OpUpdate
  <2>2. loose' \in SUBSET Tools
    BY <1>0, <1>1, <1>3, TypeFacts, PresentTyped
  <2> QED BY <1>0, <1>1, <1>3, <2>1, <2>2 DEF TypeOK
<1>8. apart => o.reg = register
  BY <1>0, <1>1 DEF Knows
(* Who is still there goes by the name it had, unless it was renamed.      *)
<1>9. ASSUME apart, NEW t \in Present(register, store), t \in Present(register', store')
      PROVE  /\ t # o.tool => Surfaced(register', store', t) = Surfaced(register, store, t)
             /\ t = o.tool => /\ o.kind = "toolUpdate"
                              /\ Surfaced(register', store', t) =
                                   IF o.name # None THEN o.name ELSE OldName(o)
                              /\ Surfaced(register, store, t) = OldName(o)
  <2>1. CASE t \in Locals
    <3>1. t \in DOMAIN register /\ t \in DOMAIN register'
      BY <1>9, <2>1 DEF Present
    <3>2. Surfaced(register', store', t) = register'[t] /\ Surfaced(register, store, t) = register[t]
      BY <2>1 DEF Surfaced
    <3>3. t = o.tool => o.kind = "toolUpdate"
      BY <1>0, <1>2, <1>3, <1>8, <1>9, <3>1 DEF RegistryKinds
    <3>4. t = o.tool => OldName(o) = register[t]
      BY <1>2, <1>8, <1>9 DEF OldName, Surfaced
    <3> QED BY <1>3, <1>8, <1>9, <3>1, <3>2, <3>3, <3>4
  <2>2. CASE t \notin Locals
    BY <1>0, <1>2, <2>2 DEF Surfaced
  <2> QED BY <2>1, <2>2
<1>10. ASSUME apart
       PROVE  n # Idle => Knows(n)'
  <2> SUFFICES ASSUME n # Idle PROVE Knows(n)'
    OBVIOUS
  <2>1. o.tool \notin DOMAIN register' /\ o.tool \in DOMAIN register
    BY <1>2, <1>3, <1>5, <1>8, <1>10
  <2>2. ASSUME NEW t \in Present(register', store'), KeyOf(register', store', t) = o.tool
        PROVE  t \in loose'
    <3>1. t \notin Locals
      <4>1. t \in Locals => t = o.tool /\ t \in DOMAIN register'
        BY <2>2 DEF KeyOf, Present
      <4> QED BY <2>1, <4>1
    <3>2. t \in Present(register, store) /\ o.tool \in Present(register, store) /\ t # o.tool
      <4>1. DOMAIN register' \subseteq Locals
        BY <1>3, PartialFacts DEF Register
      <4> QED BY <1>0, <1>2, <2>1, <2>2, <3>1, <4>1 DEF Present
    <3>3. KeyOf(register, store, t) = o.tool /\ KeyOf(register, store, o.tool) = o.tool
      BY <1>0, <1>2, <2>2, <3>1 DEF KeyOf
    <3>4. t \in Sharing(register, store)
      BY <3>2, <3>3 DEF Sharing
    <3> QED BY <1>0, <1>10, <3>4 DEF ConfInv, PolicyKept
  <2>3. /\ n.kind = "toolRemove" /\ n.at = "read" /\ n.tool = o.tool
    BY <1>5
  <2> QED BY <2>1, <2>2, <2>3 DEF Knows, StoreKinds, ExposeKinds
<1>11. Shaped' /\ Traceable' /\ (apart' => Apart' /\ Informed')
  <2>1. n # Idle /\ n.found # None => o.found # None /\ (Busy = {p} => Traced(n)')
    BY <1>5 DEF Traced
  <2>2. loose \subseteq loose' /\ faults <= faults' /\ apart' = apart /\ off' \subseteq off
    BY <1>0, <1>1, TypeFacts
  <2>3. op[p] = o /\ (n # Idle => n.kind = o.kind)
    BY <1>o, <1>5
  <2> QED BY <1>0, <1>1, <1>2, <1>5, <1>6, <1>7, <1>10, <2>1, <2>2, <2>3, StepFrame
<1>12. ASSUME apart
       PROVE  PolicyKept'
  <2>0. gated \cup off \subseteq Present(register, store) /\ Present(register, store) \subseteq Tools
    BY <1>1, <1>12, TypeFacts, PresentTyped DEF ConfInv, PolicyKept
  (* A place that held a policy is still one, but for the name given up.   *)
  <2>1. ASSUME NEW t \in Present(register, store), t \in Present(register', store'),
               NEW k \in MayBe(t)
        PROVE  k \in MayBe(t)' \/ (t = o.tool /\ k = OldName(o) /\ Renames(o))
    <3>1. \/ k = Surfaced(register, store, t)
          \/ k \in Names /\ Carries(o, t, k)
          \/ k \in Names /\ <<t, k>> \in torn
          \/ k \in Becoming(t)'
      BY <1>o, <1>1, <1>5, <2>1, MayBeCases
    <3>2. CASE t # o.tool
      <4>1. Surfaced(register', store', t) = Surfaced(register, store, t)
        BY <1>9, <1>12, <2>1, <3>2
      <4>2. ~Carries(o, t, k) /\ (<<t, k>> \in torn => <<t, k>> \in torn')
        BY <1>0, <3>2 DEF Carries
      <4> QED BY <1>1, <1>5, <3>1, <4>1, <4>2, MayBeNext
    <3>3. CASE t = o.tool
      <4>1. /\ o.kind = "toolUpdate" /\ Surfaced(register, store, t) = OldName(o)
            /\ Surfaced(register', store', t) = IF o.name # None THEN o.name ELSE OldName(o)
        BY <1>9, <1>12, <2>1, <3>3
      <4>2. NewName(o) = o.name
        BY <4>1 DEF NewName
      <4>3. Renames(o) <=> o.name # None /\ OldName(o) # o.name
        BY <4>1, <4>2 DEF Renames, ExposeKinds
      <4>4. o.name = k /\ k \in Names => k = Surfaced(register', store', t)
        BY <4>1
      <4>5. \/ k = Surfaced(register', store', t)
            \/ k \in Names /\ <<t, k>> \in torn'
            \/ k \in Becoming(t)'
            \/ k = OldName(o) /\ Renames(o)
        <5>1. CASE k = Surfaced(register, store, t)
          BY <4>1, <4>3, <5>1
        <5>2. CASE k \in Names /\ Carries(o, t, k)
          BY <4>2, <4>4, <5>2 DEF Carries
        <5>3. CASE k \in Names /\ <<t, k>> \in torn
          BY <1>0, <4>2, <4>4, <5>3
        <5> QED BY <3>1, <5>1, <5>2, <5>3
      <4> QED BY <1>1, <1>5, <3>3, <4>5, MayBeNext
    <3> QED BY <3>2, <3>3
  <2>2. ASSUME NEW t \in gated' \ loose'
        PROVE  MayBe(t)' \cap gates' # {}
    <3>0. t \in gated \ loose /\ t \in Present(register, store) /\ t \in Present(register', store')
      BY <1>0, <2>0, <2>2
    <3>1. PICK k \in MayBe(t) : k \in gates
      BY <1>12, <3>0 DEF ConfInv, PolicyKept
    <3>2. ~(t = o.tool /\ k = OldName(o) /\ Renames(o))
      BY <1>0, <1>1, <1>12, <3>0, <3>1 DEF Knows
    <3> QED BY <1>0, <2>1, <3>0, <3>1, <3>2
  <2>3. ASSUME NEW t \in off' \ loose'
        PROVE  \E k \in Keys(t)' : IsOff(k)'
    <3>0. t \in off \ loose /\ t \in Present(register, store) /\ t \in Present(register', store')
      BY <1>0, <2>0, <2>3
    <3>1. PICK k \in Keys(t) : IsOff(k)
      BY <1>12, <3>0 DEF ConfInv, PolicyKept
    <3>2. k \in Keys(t)'
      BY <1>2, <2>1, <3>0, <3>1 DEF Keys
    <3>3. IsOff(k)'
      BY <1>0, <3>1 DEF IsOff
    <3> QED BY <3>2, <3>3
  <2>4. Sharing(register, store)' \subseteq loose' /\ gated' \cup off' \subseteq Present(register, store)'
    BY <1>0
  <2> QED BY <2>2, <2>3, <2>4 DEF PolicyKept
<1>13. ASSUME apart, faults = 0
       PROVE  WrapKept'
  <2>1. WrapKept
    BY <1>13 DEF ConfInv
  <2>2. o.at \notin {"read", "write"} /\ (n # Idle => n.kind # "wrap")
    BY <1>0, <1>5
  <2> QED BY <1>o, <1>0, <1>1, <1>5, <2>1, <2>2, WrapFrame
<1>14. AliasesOf(store)' /\ (faults' = 0 => bad' = {})
  BY <1>0 DEF ConfInv, AliasesOf
<1> QED BY <1>0, <1>7, <1>11, <1>12, <1>13, <1>14 DEF ConfInv

(* What each operation saves in expose.json.                               *)
LEMMA StoreFacts ==
  ASSUME NEW o \in Op, o.kind \in StoreKinds \ {"wrap"}, AboutShape(o), AliasesOf(o.sto),
         o.kind \in ExposeKinds => UpOf[o.tool] \in DOMAIN o.sto.ups,
         o.kind = "mcpSet" => o.up \in DOMAIN o.sto.ups
  PROVE  /\ NewStore(o) \in Store /\ AliasesOf(NewStore(o))
         /\ DOMAIN NewStore(o).ups = CASE o.kind = "mcpAdd" -> DOMAIN o.sto.ups \cup {o.up}
                                       [] o.kind = "mcpRemove" -> DOMAIN o.sto.ups \ {o.up}
                                       [] OTHER -> DOMAIN o.sto.ups
         /\ \A u \in DOMAIN o.sto.ups :
              u # o.up \/ o.kind \in ExposeKinds => NewStore(o).ups[u] = o.sto.ups[u]
         /\ o.kind \in {"mcpAdd", "mcpSet"} =>
              NewStore(o).ups[o.up] = IF o.kind = "mcpAdd" THEN o.live ELSE o.on
         /\ \A x \in Remotes :
              \/ o.kind \in {"mcpAdd", "mcpSet"}
              \/ o.kind = "mcpRemove" /\ UpOf[x] # o.up
              \/ o.kind \in ExposeKinds /\ x # o.tool
              => SurfacedOf(NewStore(o), x) = SurfacedOf(o.sto, x)
         /\ o.kind \in ExposeKinds => SurfacedOf(NewStore(o), o.tool) = NewName(o)
<1>r. PICK s, ups, exp, t, u, v, b :
        /\ s = o.sto /\ ups = s.ups /\ exp = s.expose
        /\ t = o.tool /\ u = o.up /\ v = o.name /\ b = o.on
  OBVIOUS
<1>l. PICK l : l = o.live
  OBVIOUS
<1>1. /\ s \in Store /\ ups \in Partial(Ups, BOOLEAN) /\ exp \in Partial(Remotes, Entry)
      /\ b \in BOOLEAN /\ v \in Names \cup {None}
      /\ \A x \in DOMAIN exp : UpOf[x] \in DOMAIN ups
  BY <1>r, OpFields DEF Store, AliasesOf
<1>2. ASSUME NEW w \in Partial(Ups, BOOLEAN), NEW n, n = [s EXCEPT !.ups = w]
      PROVE  n \in Store /\ n.ups = w /\ n.expose = exp
  BY <1>r, <1>1, <1>2 DEF Store
<1>3. ASSUME NEW e \in Partial(Remotes, Entry), NEW n, n = [s EXCEPT !.expose = e]
      PROVE  n \in Store /\ n.expose = e /\ n.ups = ups
  BY <1>r, <1>1, <1>3 DEF Store
<1>4. CASE o.kind = "mcpAdd"
  <2>w. PICK w : w = With(ups, u, l)
    OBVIOUS
  <2>0. l \in BOOLEAN
    BY <1>l, OpFields
  <2>1. u \in Ups
    BY <1>r, <1>4 DEF AboutShape
  <2>2. w \in Partial(Ups, BOOLEAN)
    <3>1. With(ups, u, l) \in Partial(Ups, BOOLEAN)
      BY <1>1, <2>0, <2>1, WithType
    <3> QED BY <2>w, <3>1
  <2>3. DOMAIN w = DOMAIN ups \cup {u} /\ w[u] = l /\ \A j \in DOMAIN ups \ {u} : w[j] = ups[j]
    BY <2>w DEF With
  <2>n. PICK n : n = [s EXCEPT !.ups = w]
    OBVIOUS
  <2>4. n \in Store /\ n.ups = w /\ n.expose = exp
    BY <1>2, <2>2, <2>n
  <2>5. NewStore(o) = n
    <3>1. NewStore(o) = AddUpstream(o)
      BY <1>4 DEF NewStore
    <3>2. AddUpstream(o) = [s EXCEPT !.ups = With(ups, u, l)]
      BY <1>r, <1>l DEF AddUpstream
    <3> QED BY <2>w, <2>n, <3>1, <3>2
  <2>6. \A x : SurfacedOf(n, x) = SurfacedOf(s, x)
    BY <1>r, <2>4 DEF SurfacedOf
  <2>7. AliasesOf(n)
    BY <1>1, <2>3, <2>4 DEF AliasesOf
  <2>8. DOMAIN NewStore(o).ups = DOMAIN o.sto.ups \cup {o.up}
    BY <1>r, <2>3, <2>4, <2>5
  <2> QED BY <1>r, <1>l, <1>4, <2>3, <2>4, <2>5, <2>6, <2>7, <2>8 DEF ExposeKinds
<1>5. CASE o.kind = "mcpSet"
  <2>w. PICK w : w = [ups EXCEPT ![u] = b]
    OBVIOUS
  <2>1. ups \in [DOMAIN ups -> BOOLEAN] /\ DOMAIN ups \subseteq Ups /\ u \in DOMAIN ups
    BY <1>r, <1>1, <1>5, PartialFacts
  <2>2. /\ w \in [DOMAIN ups -> BOOLEAN] /\ DOMAIN w = DOMAIN ups /\ w[u] = b
        /\ \A j \in DOMAIN ups \ {u} : w[j] = ups[j]
    BY <1>1, <2>1, <2>w
  <2>3. w \in Partial(Ups, BOOLEAN)
    BY <2>1, <2>2, PartialFacts
  <2>n. PICK n : n = [s EXCEPT !.ups = w]
    OBVIOUS
  <2>4. n \in Store /\ n.ups = w /\ n.expose = exp
    BY <1>2, <2>3, <2>n
  <2>5. NewStore(o) = n
    <3>1. NewStore(o) = [s EXCEPT !.ups[u] = b]
      BY <1>r, <1>5 DEF NewStore, SetUpstreamEnabled
    <3> QED BY <1>r, <2>w, <2>n, <3>1
  <2>6. \A x : SurfacedOf(n, x) = SurfacedOf(s, x)
    BY <1>r, <2>4 DEF SurfacedOf
  <2>7. AliasesOf(n)
    BY <1>1, <2>2, <2>4 DEF AliasesOf
  <2> QED BY <1>r, <1>5, <2>2, <2>4, <2>5, <2>6, <2>7 DEF ExposeKinds
<1>6. CASE o.kind = "mcpRemove"
  <2>w. PICK w, e : w = Without(ups, {u}) /\ e = Without(exp, {x \in Remotes : UpOf[x] = u})
    OBVIOUS
  <2>1. w \in Partial(Ups, BOOLEAN) /\ e \in Partial(Remotes, Entry)
    BY <1>1, <2>w, WithoutType
  <2>2. /\ DOMAIN w = DOMAIN ups \ {u} /\ \A j \in DOMAIN ups \ {u} : w[j] = ups[j]
        /\ DOMAIN e = DOMAIN exp \ {x \in Remotes : UpOf[x] = u}
        /\ \A x \in DOMAIN exp \ {y \in Remotes : UpOf[y] = u} : e[x] = exp[x]
    BY <2>w DEF Without
  <2>n. PICK n : n = [ups |-> w, expose |-> e]
    OBVIOUS
  <2>3. n \in Store /\ n.ups = w /\ n.expose = e
    BY <2>1, <2>n DEF Store
  <2>4. NewStore(o) = n
    BY <1>r, <1>6, <2>w, <2>n DEF NewStore, RemoveUpstream
  <2>5. \A x \in Remotes : UpOf[x] # u => SurfacedOf(n, x) = SurfacedOf(s, x)
    BY <1>r, <2>2, <2>3 DEF SurfacedOf
  <2>6. AliasesOf(n)
    <3>1. DOMAIN exp \subseteq Remotes
      BY <1>1, PartialFacts
    <3> QED BY <1>1, <2>2, <2>3, <3>1 DEF AliasesOf
  <2> QED BY <1>r, <1>6, <2>2, <2>3, <2>4, <2>5, <2>6 DEF ExposeKinds
<1>7. CASE o.kind \in {"addExpose", "updateExpose"}
  <2>1. t \in Remotes /\ v \in Names
    BY <1>r, <1>7 DEF AboutShape, ExposeKinds
  <2>d. PICK d : d = [as |-> v, on |-> b]
    OBVIOUS
  <2>2. d \in Entry /\ d.as = v /\ d.on = b
    BY <1>1, <2>1, <2>d DEF Entry
  <2>w. PICK e : e = With(exp, t, d)
    OBVIOUS
  <2>3. e \in Partial(Remotes, Entry)
    <3>1. With(exp, t, d) \in Partial(Remotes, Entry)
      BY <1>1, <2>1, <2>2, WithType
    <3> QED BY <2>w, <3>1
  <2>4. DOMAIN e = DOMAIN exp \cup {t} /\ e[t] = d /\ \A j \in DOMAIN exp \ {t} : e[j] = exp[j]
    BY <2>w DEF With
  <2>n. PICK n : n = [s EXCEPT !.expose = e]
    OBVIOUS
  <2>5. n \in Store /\ n.expose = e /\ n.ups = ups
    BY <1>3, <2>3, <2>n
  <2>6. NewStore(o) = n
    <3>1. NewStore(o) = PutExpose(o)
      BY <1>7 DEF NewStore
    <3>2. PutExpose(o) = [s EXCEPT !.expose = With(exp, t, [as |-> v, on |-> b])]
      BY <1>r DEF PutExpose
    <3> QED BY <2>d, <2>w, <2>n, <3>1, <3>2
  <2>7. \A x : x # t => SurfacedOf(n, x) = SurfacedOf(s, x)
    BY <1>r, <2>4, <2>5 DEF SurfacedOf
  <2>8. SurfacedOf(n, t) = NewName(o)
    <3>1. SurfacedOf(n, t) = IF b THEN v ELSE Default[t]
      BY <2>2, <2>4, <2>5 DEF SurfacedOf
    <3>2. NewName(o) = IF b THEN v ELSE Default[t]
      BY <1>r, <1>7 DEF NewName
    <3> QED BY <3>1, <3>2
  <2>9. AliasesOf(n)
    BY <1>r, <1>1, <1>7, <2>4, <2>5 DEF AliasesOf, ExposeKinds
  <2> QED BY <1>r, <1>7, <2>4, <2>5, <2>6, <2>7, <2>8, <2>9 DEF ExposeKinds
<1>8. CASE o.kind = "removeExpose"
  <2>w. PICK e : e = Without(exp, {t})
    OBVIOUS
  <2>1. e \in Partial(Remotes, Entry)
    BY <1>1, <2>w, WithoutType
  <2>2. DOMAIN e = DOMAIN exp \ {t} /\ \A j \in DOMAIN exp \ {t} : e[j] = exp[j]
    BY <2>w DEF Without
  <2>n. PICK n : n = [s EXCEPT !.expose = e]
    OBVIOUS
  <2>3. n \in Store /\ n.expose = e /\ n.ups = ups
    BY <1>3, <2>1, <2>n
  <2>4. NewStore(o) = n
    BY <1>r, <1>8, <2>w, <2>n DEF NewStore, RemoveExpose
  <2>5. /\ \A x : x # t => SurfacedOf(n, x) = SurfacedOf(s, x)
        /\ SurfacedOf(n, t) = Default[t]
    BY <1>r, <2>2, <2>3 DEF SurfacedOf
  <2>6. NewName(o) = Default[t]
    BY <1>r, <1>8 DEF NewName
  <2>7. AliasesOf(n)
    BY <1>1, <2>2, <2>3 DEF AliasesOf
  <2> QED BY <1>r, <1>8, <2>3, <2>4, <2>5, <2>6, <2>7 DEF ExposeKinds
<1> QED BY <1>4, <1>5, <1>6, <1>7, <1>8 DEF StoreKinds, ExposeKinds

LEMMA SaveStoreStep ==
  ASSUME ConfInv, NEW p \in Procs, SaveStore(p)
  PROVE  ConfInv'
<1>o. PICK o : o = op[p]
  OBVIOUS
<1>0. /\ o.at = "save" /\ o.kind \notin RegistryKinds
      /\ store' = NewStore(o) /\ bad' = bad \ {"store"}
      /\ UNCHANGED <<register, state, scripts, gates, row, ops, faults, apart>>
      /\ gated' = gated \cap Present(register', store') /\ off' = off \cap Present(register', store')
      /\ loose' = loose \cup Sharing(register', store')
  BY <1>o DEF SaveStore, countVars, Settle
<1>1. /\ TypeOK /\ p \in Busy /\ o \in Op
      /\ o.found # None => Busy = {p} /\ Traced(o)
      /\ AboutShape(o) /\ StageShape(o) /\ LoadShape(o) /\ (apart => Knows(o))
  BY <1>o, <1>0, Standing
<1>2. o.kind \in ExposeKinds \cup {"mcpAdd", "mcpSet", "mcpRemove"} /\ o.kind \in StoreKinds \ {"wrap"}
  BY <1>0, <1>1, OpFields DEF StageShape, Kinds, ExposeKinds, StoreKinds
<1>t. torn' = IF o.kind \in ExposeKinds /\ NewName(o) # None
              THEN torn \ {<<o.tool, NewName(o)>>} ELSE torn
  <2>1. o.kind # "toolUpdate"
    BY <1>2 DEF ExposeKinds
  <2> QED BY <1>o, <2>1 DEF SaveStore, Settle
<1>3. /\ AliasesOf(o.sto)
      /\ o.kind \in ExposeKinds => UpOf[o.tool] \in DOMAIN o.sto.ups /\ o.tool \in Remotes
      /\ o.kind = "mcpSet" => o.up \in DOMAIN o.sto.ups
  BY <1>0, <1>1, <1>2 DEF LoadShape, StoreKinds, ExposeKinds, AboutShape
<1>4. /\ store' \in Store /\ AliasesOf(store')
      /\ DOMAIN store'.ups = CASE o.kind = "mcpAdd" -> DOMAIN o.sto.ups \cup {o.up}
                               [] o.kind = "mcpRemove" -> DOMAIN o.sto.ups \ {o.up}
                               [] OTHER -> DOMAIN o.sto.ups
      /\ \A u \in DOMAIN o.sto.ups :
           u # o.up \/ o.kind \in ExposeKinds => store'.ups[u] = o.sto.ups[u]
      /\ o.kind \in {"mcpAdd", "mcpSet"} => store'.ups[o.up] = IF o.kind = "mcpAdd" THEN o.live ELSE o.on
      /\ \A x \in Remotes :
           \/ o.kind \in {"mcpAdd", "mcpSet"}
           \/ o.kind = "mcpRemove" /\ UpOf[x] # o.up
           \/ o.kind \in ExposeKinds /\ x # o.tool
           => SurfacedOf(store', x) = SurfacedOf(o.sto, x)
      /\ o.kind \in ExposeKinds => SurfacedOf(store', o.tool) = NewName(o)
  BY <1>0, <1>1, <1>2, <1>3, StoreFacts
<1>m. PICK m : m = [o EXCEPT !.kind = "addExpose", !.sto = NewStore(o), !.found = None]
  OBVIOUS
<1>f. PICK f : f = [m EXCEPT !.at = Forward(m)]
  OBVIOUS
<1>r. PICK r : r = [o EXCEPT !.at = "read"]
  OBVIOUS
<1>n. PICK n : n = CASE AfterSave(o) = "idle" -> Idle
                     [] AfterSave(o) = "alias" -> f
                     [] OTHER -> r
  OBVIOUS
<1>5. op' = [op EXCEPT ![p] = n]
  BY <1>o, <1>m, <1>f, <1>r, <1>n DEF SaveStore, Becomes
<1>6. \/ n = Idle /\ ~(o.kind = "mcpRemove" \/ (o.kind = "mcpSet" /\ ~o.on))
      \/ n = f /\ o.kind = "mcpAdd" /\ o.tool # None
      \/ n = r /\ (o.kind = "mcpRemove" \/ (o.kind = "mcpSet" /\ ~o.on))
  BY <1>2, <1>n DEF AfterSave, ExposeKinds
<1>7. r \in Op /\ r.at = "read" /\ Aim(o, r) /\ r.found = o.found
  <2>1. "read" \in Stages
    BY DEF Stages
  <2> QED BY <1>1, <1>r, <2>1, AtStep
<1>8. /\ m \in Op /\ m.kind = "addExpose" /\ m.tool = o.tool /\ m.up = o.up /\ m.name = o.name
      /\ m.text = o.text /\ m.sto = store' /\ m.found = None
  <2>s. PICK s : s = NewStore(o)
    OBVIOUS
  <2>1. m = [o EXCEPT !.kind = "addExpose", !.sto = s, !.found = None] /\ s \in Store /\ s = store'
    BY <1>0, <1>4, <1>m, <2>s
  <2>2. "addExpose" \in Kinds
    BY DEF Kinds, ExposeKinds
  <2> QED BY <1>1, <2>1, <2>2 DEF Op
<1>9. /\ f \in Op /\ f.kind = "addExpose" /\ f.tool = o.tool /\ f.up = o.up /\ f.name = o.name
      /\ f.text = o.text /\ f.sto = store' /\ f.found = None
      /\ f.at = IF Renames(f) THEN "plan" ELSE "save"
  <2>a. PICK a : a = Forward(m)
    OBVIOUS
  <2>1. f = [m EXCEPT !.at = a] /\ a \in Stages
    BY <1>f, <2>a, ForwardFacts
  <2>2. f \in Op /\ f.at = a /\ Aim(m, f) /\ f.reg = m.reg /\ f.sto = m.sto /\ f.found = m.found
    BY <1>8, <2>1, AtStep
  <2>3. Renames(f) <=> Renames(m)
    BY <1>8, <2>2, AimFacts
  <2> QED BY <1>8, <2>a, <2>2, <2>3, ForwardFacts DEF Aim
<1>10. n \in Op \cup {Idle}
  BY <1>6, <1>7, <1>9
<1>11. n # Idle => OpShape(n) /\ Touches(n.kind) \subseteq Touches(o.kind)
  <2>1. CASE n = f /\ o.kind = "mcpAdd" /\ o.tool # None
    <3>1. o.tool \in Remotes /\ UpOf[o.tool] = o.up /\ o.name \in Names /\ ~o.text
      BY <1>1, <2>1 DEF AboutShape
    <3>2. AboutShape(n)
      BY <1>9, <2>1, <3>1 DEF AboutShape, RegistryKinds, ExposeKinds
    <3>3. StageShape(n)
      BY <1>9, <2>1 DEF StageShape
    <3>4. LoadShape(n)
      BY <1>4, <1>9, <2>1, <3>1 DEF LoadShape
    <3>5. Touches(n.kind) = Touches(o.kind)
      BY <1>9, <2>1 DEF Touches
    <3> QED BY <3>2, <3>3, <3>4, <3>5 DEF OpShape
  <2>2. CASE n = r /\ (o.kind = "mcpRemove" \/ (o.kind = "mcpSet" /\ ~o.on))
    <3>1. n.kind = o.kind /\ n.on = o.on /\ AboutShape(n) /\ n.at = "read"
      BY <1>1, <1>7, <2>2, AimFacts DEF Aim
    <3> QED BY <2>2, <3>1 DEF OpShape, StageShape, LoadShape
  <2> QED BY <1>6, <2>1, <2>2
<1>12. TypeOK'
  <2>1. op' \in [Procs -> Op \cup {Idle}]
    BY <1>1, <1>5, <1>10, OpUpdate
  <2>2. loose' \in SUBSET Tools
    BY <1>0, <1>1, <1>4, TypeFacts, PresentTyped
  <2>3. torn' \in SUBSET (Tools \X Names)
    BY <1>1, <1>t, TypeFacts
  <2> QED BY <1>0, <1>1, <1>4, <2>1, <2>2, <2>3 DEF TypeOK
<1>13. apart => o.sto = store
  BY <1>0, <1>1, <1>2 DEF Knows
<1>14. n # Idle => Knows(n)'
  <2>1. CASE n = f
    <3>1. /\ n.kind = "addExpose" /\ n.at \in {"plan", "save"} /\ (n.at = "save" => ~Renames(n))
          /\ n.sto = store'
      BY <1>9, <2>1
    <3> QED BY <3>1 DEF Knows, RegistryKinds
  <2>2. CASE n = r /\ (o.kind = "mcpRemove" \/ (o.kind = "mcpSet" /\ ~o.on))
    <3>1. n.kind \in {"mcpRemove", "mcpSet"} /\ n.at = "read"
      BY <1>7, <2>2 DEF Aim
    <3> QED BY <3>1 DEF Knows
  <2> QED BY <1>6, <2>1, <2>2
<1>15. Shaped' /\ Traceable' /\ (apart' => Apart' /\ Informed')
  <2>1. n # Idle /\ n.found # None => o.found # None /\ (Busy = {p} => Traced(n)')
    BY <1>6, <1>7, <1>9 DEF Traced
  <2>2. loose \subseteq loose' /\ faults <= faults' /\ apart' = apart /\ off' \subseteq off
    BY <1>0, <1>1, TypeFacts
  <2>3. op[p] = o /\ o.kind \in Kinds /\ "store" \in Touches(o.kind)
    BY <1>o, <1>1, <1>2, OpFields, TouchFacts
  <2> QED BY <1>0, <1>1, <1>5, <1>10, <1>11, <1>12, <1>14, <2>1, <2>2, <2>3, StepFrame
(* Who is still there goes by the name it had, unless it was renamed.      *)
<1>16. ASSUME apart, NEW t \in Present(register, store), t \in Present(register', store')
       PROVE  /\ ~(o.kind \in ExposeKinds /\ t = o.tool) =>
                    Surfaced(register', store', t) = Surfaced(register, store, t)
              /\ (o.kind \in ExposeKinds /\ t = o.tool) =>
                    /\ Surfaced(register', store', t) = NewName(o)
                    /\ Surfaced(register, store, t) = OldName(o)
  <2>1. CASE t \in Locals
    <3>1. o.kind \in ExposeKinds => t # o.tool
      BY <1>3, <2>1
    <3> QED BY <1>0, <2>1, <3>1 DEF Surfaced
  <2>2. CASE t \notin Locals
    <3>1. t \in Remotes /\ UpOf[t] \in DOMAIN store'.ups
      <4>1. DOMAIN register' \subseteq Locals
        BY <1>0, <1>1, TypeFacts, PartialFacts DEF Register
      <4> QED BY <1>16, <2>2, <4>1 DEF Present
    <3>2. /\ Surfaced(register', store', t) = SurfacedOf(store', t)
          /\ Surfaced(register, store, t) = SurfacedOf(o.sto, t)
      BY <1>13, <1>16, <2>2 DEF Surfaced
    <3>3. o.kind = "mcpRemove" => UpOf[t] # o.up
      BY <1>4, <3>1
    <3>4. o.kind \in ExposeKinds /\ t = o.tool => OldName(o) = SurfacedOf(o.sto, t)
      BY <2>2 DEF OldName, Surfaced
    <3> QED BY <1>2, <1>4, <3>1, <3>2, <3>3, <3>4
  <2> QED BY <2>1, <2>2
<1>17. ASSUME apart
       PROVE  PolicyKept'
  <2>0. gated \cup off \subseteq Present(register, store) /\ Present(register, store) \subseteq Tools
    BY <1>1, <1>17, TypeFacts, PresentTyped DEF ConfInv, PolicyKept
  (* A place that held a policy is still one, but for the name given up.   *)
  <2>1. ASSUME NEW t \in Present(register, store), t \in Present(register', store'),
               NEW k \in MayBe(t)
        PROVE  k \in MayBe(t)' \/ (t = o.tool /\ k = OldName(o) /\ Renames(o) /\ o.tool \in Remotes)
    <3>1. \/ k = Surfaced(register, store, t)
          \/ k \in Names /\ Carries(o, t, k)
          \/ k \in Names /\ <<t, k>> \in torn
          \/ k \in Becoming(t)'
      BY <1>o, <1>1, <1>5, <1>10, <2>1, MayBeCases
    <3>2. CASE ~(o.kind \in ExposeKinds /\ t = o.tool)
      <4>1. Surfaced(register', store', t) = Surfaced(register, store, t)
        BY <1>16, <1>17, <2>1, <3>2
      <4>2. ~Carries(o, t, k) /\ (<<t, k>> \in torn => <<t, k>> \in torn')
        BY <1>2, <1>t, <3>2 DEF Carries, Renames, ExposeKinds
      <4> QED BY <1>1, <1>5, <1>10, <3>1, <4>1, <4>2, MayBeNext
    <3>3. CASE o.kind \in ExposeKinds /\ t = o.tool
      <4>1. /\ Surfaced(register', store', t) = NewName(o)
            /\ Surfaced(register, store, t) = OldName(o)
        BY <1>16, <1>17, <2>1, <3>3
      <4>2. Renames(o) <=> OldName(o) # NewName(o)
        BY <3>3 DEF Renames
      <4>3. \/ k = Surfaced(register', store', t)
            \/ k \in Names /\ <<t, k>> \in torn'
            \/ k \in Becoming(t)'
            \/ k = OldName(o) /\ Renames(o)
        <5>1. CASE k = Surfaced(register, store, t)
          BY <4>1, <4>2, <5>1
        <5>2. CASE k \in Names /\ Carries(o, t, k)
          BY <4>1, <5>2 DEF Carries
        <5>3. CASE k \in Names /\ <<t, k>> \in torn
          BY <1>t, <4>1, <5>3
        <5> QED BY <3>1, <5>1, <5>2, <5>3
      <4> QED BY <1>1, <1>3, <1>5, <1>10, <3>3, <4>3, MayBeNext
    <3> QED BY <3>2, <3>3
  <2>2. ASSUME NEW t \in gated' \ loose'
        PROVE  MayBe(t)' \cap gates' # {}
    <3>0. t \in gated \ loose /\ t \in Present(register, store) /\ t \in Present(register', store')
      BY <1>0, <2>0, <2>2
    <3>1. PICK k \in MayBe(t) : k \in gates
      BY <1>17, <3>0 DEF ConfInv, PolicyKept
    <3>2. ~(t = o.tool /\ k = OldName(o) /\ Renames(o))
      BY <1>0, <1>1, <1>17, <3>0, <3>1 DEF Knows
    <3> QED BY <1>0, <2>1, <3>0, <3>1, <3>2
  <2>3. ASSUME NEW t \in off' \ loose'
        PROVE  \E k \in Keys(t)' : IsOff(k)'
    <3>0. t \in off \ loose /\ t \in Present(register, store) /\ t \in Present(register', store')
      BY <1>0, <2>0, <2>3
    <3>1. PICK k \in Keys(t) : IsOff(k)
      BY <1>17, <3>0 DEF ConfInv, PolicyKept
    <3>2. ~(t = o.tool /\ k = OldName(o) /\ Renames(o) /\ o.tool \in Remotes)
      BY <1>0, <1>1, <1>17, <3>0, <3>1 DEF Knows, IsOff
    <3>3. k \in Keys(t)'
      BY <2>1, <3>0, <3>1, <3>2 DEF Keys
    <3>4. IsOff(k)'
      BY <1>0, <3>1 DEF IsOff
    <3> QED BY <3>3, <3>4
  <2>4. Sharing(register, store)' \subseteq loose' /\ gated' \cup off' \subseteq Present(register, store)'
    BY <1>0
  <2> QED BY <2>2, <2>3, <2>4 DEF PolicyKept
<1>18. ASSUME apart, faults = 0
       PROVE  WrapKept'
  <2>0. WrapKept /\ Apart
    BY <1>18 DEF ConfInv
  <2>1. /\ op'[p] = n /\ \A q \in Procs \ {p} : op'[q] = op[q]
        /\ Busy' = IF n = Idle THEN Busy \ {p} ELSE Busy \cup {p}
    BY <1>1, <1>5, <1>10, OpUpdate
  <2>2. \A q \in Busy \ {p} : op[q].kind \notin {"mcpSet", "mcpRemove", "wrap"}
    <3>1. "store" \in Touches(o.kind)
      BY <1>1, <1>2, OpFields, TouchFacts
    <3>2. \A k \in {"mcpSet", "mcpRemove", "wrap"} : "store" \in Touches(k)
      BY DEF Touches
    <3> QED BY <1>o, <1>1, <2>0, <3>1, <3>2 DEF Apart
  <2>3. state.wrap = None \/ Served(state.wrap)
    BY <1>o, <1>0, <2>0, <2>2 DEF WrapKept
  <2>4. CASE state.wrap = None \/ state.wrap # o.up \/ o.kind \in ExposeKinds
                 \/ o.kind = "mcpAdd" \/ (o.kind = "mcpSet" /\ o.on)
    <3>0. o.kind = "mcpAdd" /\ state.wrap # None => state.wrap # o.up
      BY <1>0, <1>1, <1>2, <1>13, <1>18, <2>3 DEF Served, LoadShape, StoreKinds, ExposeKinds
    <3>1. state'.wrap = state.wrap /\ (state.wrap # None => Served(state.wrap)')
      BY <1>0, <1>2, <1>4, <1>13, <1>18, <2>3, <2>4, <3>0 DEF Served, ExposeKinds
    <3>2. state' = state
      BY <1>0
    <3>3. \A q \in Busy' : op'[q].kind # "wrap"
      <4>1. n # Idle => n.kind # "wrap"
        BY <1>6, <1>7, <1>9 DEF Aim
      <4> QED BY <2>1, <2>2, <4>1 DEF Busy
    <3> QED BY <3>1, <3>2, <3>3 DEF WrapKept
  <2>5. CASE state.wrap = o.up /\ (o.kind = "mcpRemove" \/ (o.kind = "mcpSet" /\ ~o.on))
    <3>1. n = r
      BY <1>6, <2>5
    <3>2. n # Idle /\ n.at = "read" /\ n.up = state.wrap /\ n.kind \in {"mcpSet", "mcpRemove"}
      BY <1>7, <2>5, <3>1 DEF Aim, Idle
    <3>3. p \in Busy' /\ op'[p] = n
      BY <2>1, <3>2
    <3>4. \A q \in Busy' : op'[q].kind # "wrap"
      BY <2>1, <2>2, <3>2 DEF Busy
    <3>5. state' = state
      BY <1>0
    <3> QED BY <3>2, <3>3, <3>4, <3>5 DEF WrapKept
  <2> QED BY <1>2, <2>4, <2>5
<1>19. AliasesOf(store)' /\ (faults' = 0 => bad' = {})
  BY <1>0, <1>4 DEF ConfInv, AliasesOf
<1> QED BY <1>0, <1>12, <1>15, <1>17, <1>18, <1>19 DEF ConfInv

(* What each operation saves in the overlay: the wrap, and which keys are  *)
(* switched off.                                                           *)
OffIn(s, k) == k \in DOMAIN s.flags /\ s.flags[k].on = "no"

LEMMA StateFacts ==
  ASSUME NEW o \in Op, AboutShape(o),
         o.kind \in {"toggle", "toolRemove", "wrap", "mcpSet", "mcpRemove"}
  PROVE  /\ NewState(o) \in State
         /\ NewState(o).wrap = CASE o.kind \in {"toggle", "toolRemove"} -> o.sta.wrap
                                 [] o.kind = "wrap" -> o.up
                                 [] OTHER -> None
         /\ \A k : \/ o.kind \in {"wrap", "mcpSet", "mcpRemove"}
                   \/ o.kind = "toggle" /\ (o.hot \/ k # o.name)
                   \/ o.kind = "toolRemove" /\ k # o.tool
                   => (OffIn(NewState(o), k) <=> OffIn(o.sta, k))
         /\ o.kind = "toggle" /\ ~o.hot => (OffIn(NewState(o), o.name) <=> ~o.on)
<1>r. PICK s, fl, u, v, t, b :
        s = o.sta /\ fl = s.flags /\ u = o.up /\ v = o.name /\ t = o.tool /\ b = o.on
  OBVIOUS
<1>1. /\ s \in State /\ fl \in Partial(Names, Flags) /\ u \in Ups \cup {None} /\ b \in BOOLEAN
      /\ o.hot \in BOOLEAN /\ None \in Ups \cup {None}
  BY <1>r, OpFields DEF State
<1>2. ASSUME NEW f \in Partial(Names, Flags), NEW n, n = [s EXCEPT !.flags = f]
      PROVE  n \in State /\ n.flags = f /\ n.wrap = s.wrap
  BY <1>1, <1>2 DEF State
<1>3. ASSUME NEW w \in Ups \cup {None}, NEW n, n = [s EXCEPT !.wrap = w]
      PROVE  n \in State /\ n.flags = fl /\ n.wrap = w
  BY <1>r, <1>1, <1>3 DEF State
<1>4. CASE o.kind \in {"wrap", "mcpSet", "mcpRemove"}
  <2>w. PICK w : w = IF o.kind = "wrap" THEN u ELSE None
    OBVIOUS
  <2>n. PICK n : n = [s EXCEPT !.wrap = w]
    OBVIOUS
  <2>1. n \in State /\ n.flags = fl /\ n.wrap = w
    BY <1>1, <1>3, <2>w, <2>n
  <2>2. NewState(o) = n
    BY <1>r, <1>4, <2>w, <2>n DEF NewState, SetPassthrough
  <2>3. \A k : OffIn(n, k) <=> OffIn(s, k)
    BY <1>r, <2>1 DEF OffIn
  <2> QED BY <1>r, <1>4, <2>w, <2>1, <2>2, <2>3
<1>5. CASE o.kind = "toolRemove"
  <2>w. PICK f : f = Without(fl, {t})
    OBVIOUS
  <2>1. f \in Partial(Names, Flags)
    BY <1>1, <2>w, WithoutType
  <2>2. DOMAIN f = DOMAIN fl \ {t} /\ \A k \in DOMAIN fl \ {t} : f[k] = fl[k]
    BY <2>w DEF Without
  <2>n. PICK n : n = [s EXCEPT !.flags = f]
    OBVIOUS
  <2>3. n \in State /\ n.flags = f /\ n.wrap = s.wrap
    BY <1>2, <2>1, <2>n
  <2>4. NewState(o) = n
    BY <1>r, <1>5, <2>w, <2>n DEF NewState, ClearToolState
  <2>5. \A k : k # t => (OffIn(n, k) <=> OffIn(s, k))
    BY <1>r, <2>2, <2>3 DEF OffIn
  <2> QED BY <1>r, <1>5, <2>3, <2>4, <2>5
<1>6. CASE o.kind = "toggle"
  <2>1. v \in Names
    BY <1>r, <1>6 DEF AboutShape
  <2>w. PICK was : was = IF v \in DOMAIN fl THEN fl[v] ELSE Unset
    OBVIOUS
  <2>2. was \in Flags
    <3>1. v \in DOMAIN fl => fl[v] \in Flags
      BY <1>1, PartialFacts
    <3>2. Unset \in Flags
      BY DEF Unset, Flags
    <3> QED BY <2>w, <3>1, <3>2
  <2>d. PICK d : d = IF o.hot THEN [was EXCEPT !.hot = b]
                     ELSE [was EXCEPT !.on = IF b THEN "yes" ELSE "no"]
    OBVIOUS
  <2>3. /\ d \in Flags /\ (o.hot => d.on = was.on)
        /\ ~o.hot => (d.on = "no" <=> ~b)
    BY <1>1, <2>2, <2>d DEF Flags
  <2>f. PICK f : f = With(fl, v, d)
    OBVIOUS
  <2>4. f \in Partial(Names, Flags)
    <3>1. With(fl, v, d) \in Partial(Names, Flags)
      BY <1>1, <2>1, <2>3, WithType
    <3> QED BY <2>f, <3>1
  <2>5. DOMAIN f = DOMAIN fl \cup {v} /\ f[v] = d /\ \A k \in DOMAIN fl \ {v} : f[k] = fl[k]
    BY <2>f DEF With
  <2>n. PICK n : n = [s EXCEPT !.flags = f]
    OBVIOUS
  <2>6. n \in State /\ n.flags = f /\ n.wrap = s.wrap
    BY <1>2, <2>4, <2>n
  <2>7. NewState(o) = n
    <3>1. NewState(o) = [s EXCEPT !.flags = With(fl, v, SetTool(o))]
      BY <1>r, <1>6 DEF NewState
    <3>2. SetTool(o) = d
      BY <1>r, <2>w, <2>d DEF SetTool
    <3> QED BY <2>f, <2>n, <3>1, <3>2
  <2>8. \A k : k # v => (OffIn(n, k) <=> OffIn(s, k))
    BY <1>r, <2>5, <2>6 DEF OffIn
  <2>9. OffIn(n, v) <=> d.on = "no"
    BY <2>5, <2>6 DEF OffIn
  <2>10. OffIn(s, v) <=> was.on = "no"
    BY <1>r, <2>w DEF OffIn, Unset
  <2> QED BY <1>r, <1>6, <2>3, <2>6, <2>7, <2>8, <2>9, <2>10
<1> QED BY <1>4, <1>5, <1>6

LEMMA SaveStateStep ==
  ASSUME ConfInv, NEW p \in Procs, SaveState(p)
  PROVE  ConfInv'
<1>o. PICK o : o = op[p]
  OBVIOUS
<1>m. PICK meant : meant = {t \in Present(register, store) : KeyOf(register, store, t) = o.name}
  OBVIOUS
<1>0. /\ o.at = "write" /\ state' = NewState(o) /\ bad' = bad \ {"state"}
      /\ op' = [op EXCEPT ![p] = Idle]
      /\ off' = IF o.kind # "toggle" \/ o.hot THEN off
                ELSE IF o.on \/ ~apart THEN off \ meant ELSE off \cup meant
      /\ loose' = loose \cup CASE o.kind = "toolRemove" -> Stranded(o.tool)
                               [] o.kind = "toggle" /\ ~o.hot /\ o.on -> Stranded(o.name)
                               [] OTHER -> {}
      /\ UNCHANGED <<register, store, scripts, gates, row, ops, faults, apart, gated, torn>>
  BY <1>o, <1>m DEF SaveState, Done, Becomes, countVars
<1>1. /\ TypeOK /\ p \in Busy /\ o \in Op
      /\ AboutShape(o) /\ StageShape(o) /\ (apart => Knows(o))
  BY <1>o, <1>0, Standing
<1>2. /\ o.kind \in {"toggle", "toolRemove", "wrap", "mcpSet", "mcpRemove"}
      /\ "state" \in Touches(o.kind)
  BY <1>0, <1>1 DEF StageShape, Touches
<1>3. /\ state' \in State
      /\ state'.wrap = CASE o.kind \in {"toggle", "toolRemove"} -> o.sta.wrap
                         [] o.kind = "wrap" -> o.up
                         [] OTHER -> None
      /\ \A k : \/ o.kind \in {"wrap", "mcpSet", "mcpRemove"}
                \/ o.kind = "toggle" /\ (o.hot \/ k # o.name)
                \/ o.kind = "toolRemove" /\ k # o.tool
                => (OffIn(state', k) <=> OffIn(o.sta, k))
      /\ o.kind = "toggle" /\ ~o.hot => (OffIn(state', o.name) <=> ~o.on)
  BY <1>0, <1>1, <1>2, StateFacts
<1>4. meant \subseteq Present(register, store) /\ Present(register, store) \subseteq Tools
  BY <1>1, <1>m, TypeFacts, PresentTyped
<1>5. TypeOK'
  <2>1. op' \in [Procs -> Op \cup {Idle}]
    BY <1>0, <1>1, OpUpdate
  <2>2. loose' \in SUBSET Tools /\ off' \in SUBSET Tools
    BY <1>0, <1>1, <1>4 DEF TypeOK, Stranded
  <2> QED BY <1>0, <1>1, <1>3, <2>1, <2>2 DEF TypeOK
<1>6. Shaped' /\ Traceable' /\ (apart' => Apart' /\ Informed')
  <2>1. loose \subseteq loose' /\ faults <= faults' /\ apart' = apart
    BY <1>0, <1>1, TypeFacts
  <2>2. op[p] = o
    BY <1>o
  <2> QED BY <1>0, <1>1, <1>2, <1>5, <2>1, <2>2, StepFrame
<1>7. ASSUME apart
      PROVE  PolicyKept'
  <2>0. /\ Sharing(register, store) \subseteq loose
        /\ gated \cup off \subseteq Present(register, store)
        /\ o.sta = state \/ off = {}
    BY <1>0, <1>1, <1>7 DEF Knows, ConfInv, PolicyKept
  <2>1. ASSUME NEW t \in Tools, NEW m \in MayBe(t)
        PROVE  /\ m \in MayBe(t)'
               /\ m = Surfaced(register, store, t) \/ t \in Stranded(m)
                  \/ \E q \in Busy \ {p} : Carries(op[q], t, m)
    <3>1. \/ m = Surfaced(register, store, t)
          \/ m \in Names /\ Carries(o, t, m)
          \/ m \in Names /\ <<t, m>> \in torn
          \/ m \in Becoming(t)' /\ \E q \in Busy \ {p} : Carries(op[q], t, m)
      BY <1>0, <1>1, <1>o, <2>1, MayBeCases
    <3>2. ~Carries(o, t, m)
      BY <1>0 DEF Carries
    <3>3. m \in MayBe(t)'
      BY <1>0, <1>1, <3>1, <3>2, MayBeNext
    <3> QED BY <2>1, <3>1, <3>2, <3>3 DEF Stranded
  <2>2. ASSUME NEW t \in gated' \ loose'
        PROVE  MayBe(t)' \cap gates' # {}
    <3>0. t \in Tools /\ t \in gated \ loose
      BY <1>0, <1>1, <2>2 DEF TypeOK
    <3>1. PICK m \in MayBe(t) : m \in gates
      BY <1>7, <3>0 DEF ConfInv, PolicyKept
    <3> QED BY <1>0, <2>1, <3>0, <3>1
  (* The key a tool is meant by is the one that is looked up.              *)
  <2>3. ASSUME NEW t \in Present(register, store) \ loose', NEW k \in Keys(t),
               \/ o.kind = "toolRemove" /\ k = o.tool
               \/ o.kind = "toggle" /\ ~o.hot /\ o.on /\ k = o.name
        PROVE  KeyOf(register, store, t) = k
    <3>1. CASE t \in Locals
      BY <2>3, <3>1 DEF Keys, KeyOf
    <3>2. CASE t \notin Locals
      <4>1. t \in Remotes /\ t \in Tools /\ k \in MayBe(t)
        BY <1>4, <2>3, <3>2 DEF Keys, Tools
      <4>2. t \notin Stranded(k)
        BY <1>0, <2>3
      <4>3. ~\E q \in Busy \ {p} : Carries(op[q], t, k)
        BY <1>o, <1>1, <1>2, <1>7, <4>1, CarriedApart
      <4>4. k = Surfaced(register, store, t)
        BY <2>1, <4>1, <4>2, <4>3
      <4> QED BY <3>2, <4>4 DEF Surfaced, KeyOf
    <3> QED BY <3>1, <3>2
  <2>4. ASSUME NEW t \in off' \ loose'
        PROVE  \E k \in Keys(t)' : IsOff(k)'
    <3>0. t \in Tools /\ t \in Present(register, store) \ loose' /\ t \notin loose
      BY <1>0, <1>4, <2>0, <2>4
    <3>1. CASE o.kind = "toggle" /\ ~o.hot /\ ~o.on /\ t \in meant
      <4>1. o.name = KeyOf(register, store, t)
        BY <1>m, <3>1
      <4>2. KeyOf(register, store, t) \in Keys(t)'
        BY <1>0 DEF KeyOf, Keys, MayBe, Surfaced
      <4>3. IsOff(o.name)'
        BY <1>3, <3>1 DEF IsOff, OffIn
      <4> QED BY <4>1, <4>2, <4>3
    <3>2. CASE ~(o.kind = "toggle" /\ ~o.hot /\ ~o.on /\ t \in meant)
      <4>0. t \in off
        BY <1>0, <1>7, <2>4, <3>2
      <4>1. PICK k \in Keys(t) : IsOff(k)
        BY <1>7, <3>0, <4>0 DEF ConfInv, PolicyKept
      <4>2. k \in Keys(t)'
        BY <2>1, <3>0, <4>1 DEF Keys
      <4>3. OffIn(o.sta, k)
        BY <2>0, <4>0, <4>1 DEF IsOff, OffIn
      <4>4. ~(o.kind = "toolRemove" /\ k = o.tool)
        <5> SUFFICES ASSUME o.kind = "toolRemove", k = o.tool PROVE FALSE
          OBVIOUS
        <5>1. KeyOf(register, store, t) = o.tool
          BY <2>3, <3>0, <4>1
        <5> QED BY <1>0, <1>1, <1>7, <3>0, <5>1 DEF Knows
      <4>5. ~(o.kind = "toggle" /\ ~o.hot /\ o.on /\ k = o.name)
        <5> SUFFICES ASSUME o.kind = "toggle", ~o.hot, o.on, k = o.name PROVE FALSE
          OBVIOUS
        <5>1. KeyOf(register, store, t) = o.name
          BY <2>3, <3>0, <4>1
        <5>2. t \in meant
          BY <1>m, <3>0, <5>1
        <5> QED BY <1>0, <2>4, <5>2
      <4>6. OffIn(state', k)
        BY <1>2, <1>3, <4>3, <4>4, <4>5
      <4>7. IsOff(k)'
        BY <4>6 DEF IsOff, OffIn
      <4> QED BY <4>2, <4>7
    <3> QED BY <3>1, <3>2
  <2>5. Sharing(register, store)' \subseteq loose' /\ gated' \cup off' \subseteq Present(register, store)'
    BY <1>0, <1>4, <2>0
  <2> QED BY <2>2, <2>4, <2>5 DEF PolicyKept
<1>8. ASSUME apart, faults = 0
      PROVE  WrapKept'
  <2>0. WrapKept /\ Apart
    BY <1>8 DEF ConfInv
  <2>1. /\ \A q \in Procs \ {p} : op'[q] = op[q]
        /\ Busy' = Busy \ {p}
    BY <1>0, <1>1, OpUpdate
  <2>2. \A q \in Busy \ {p} : op[q].kind \notin {"mcpSet", "mcpRemove", "wrap"}
    <3>1. \A k \in {"mcpSet", "mcpRemove", "wrap"} : "state" \in Touches(k)
      BY DEF Touches
    <3> QED BY <1>o, <1>1, <1>2, <2>0, <3>1 DEF Apart
  <2>3. \A q \in Busy' : op'[q].kind # "wrap"
    BY <2>1, <2>2 DEF Busy
  <2>4. o.sta = state
    BY <1>0, <1>1, <1>8 DEF Knows
  <2>5. state'.wrap = None \/ (state'.wrap \in DOMAIN store.ups /\ store.ups[state'.wrap])
    <3>1. CASE o.kind \in {"toggle", "toolRemove"}
      <4>1. state'.wrap = state.wrap
        BY <1>3, <2>4, <3>1
      <4>2. state.wrap = None \/ Served(state.wrap)
        BY <1>o, <2>0, <2>2, <3>1 DEF WrapKept
      <4> QED BY <4>1, <4>2 DEF Served
    <3>2. CASE o.kind = "wrap"
      <4>1. state'.wrap = o.up
        BY <1>3, <3>2
      <4>2. o.up # None => Served(o.up)
        BY <1>o, <1>0, <1>1, <2>0, <3>2 DEF WrapKept
      <4> QED BY <4>1, <4>2 DEF Served
    <3>3. CASE o.kind \in {"mcpSet", "mcpRemove"}
      BY <1>3, <3>3
    <3> QED BY <1>2, <3>1, <3>2, <3>3
  <2>6. state'.wrap = None \/ (state'.wrap \in DOMAIN store'.ups /\ store'.ups[state'.wrap])
    BY <1>0, <2>5
  <2> QED BY <2>3, <2>6 DEF WrapKept, Served
<1>9. AliasesOf(store)' /\ (faults' = 0 => bad' = {})
  BY <1>0 DEF ConfInv, AliasesOf
<1> QED BY <1>0, <1>5, <1>6, <1>7, <1>8, <1>9 DEF ConfInv

LEMMA CrashStep ==
  ASSUME ConfInv, NEW p \in Procs, Crash(p)
  PROVE  ConfInv'
<1>o. PICK o : o = op[p]
  OBVIOUS
<1>0. /\ o.at \in {"script", "restore", "hooks", "state", "save", "write"}
      /\ apart /\ faults < MaxFaults /\ faults' = faults + 1
      /\ torn' = IF apart /\ o.at \in {"state", "save"} /\ Renames(o)
                 THEN torn \cup {<<o.tool, NewName(o)>>} ELSE torn
      /\ UNCHANGED <<register, store, state, scripts, gates, row, bad, ops, apart, gated, off, loose>>
  BY <1>o DEF Crash, diskVars, files
<1>1. /\ TypeOK /\ p \in Busy /\ o \in Op
      /\ o.found # None => Busy = {p} /\ Traced(o)
      /\ AboutShape(o) /\ StageShape(o) /\ LoadShape(o) /\ Knows(o)
  BY <1>o, <1>0, Standing
<1>r. PICK r : r = [o EXCEPT !.at = "restore"]
  OBVIOUS
<1>2. /\ r \in Op /\ r.at = "restore" /\ Aim(o, r) /\ r.found = o.found
      /\ r.reg = o.reg /\ r.prior = o.prior
  <2>1. "restore" \in Stages
    BY DEF Stages
  <2> QED BY <1>1, <1>r, <2>1, AtStep
<1>3. PICK n \in Op \cup {Idle} : /\ op' = [op EXCEPT ![p] = n]
                                  /\ \/ n = Idle
                                     \/ n = r /\ o.kind = "toolAdd" /\ o.at = "save" /\ o.text
  BY <1>o, <1>r, <1>2 DEF Crash, Done, Goto, Becomes, TakesBack
<1>4. n # Idle => /\ n.at = "restore" /\ n.kind = "toolAdd" /\ n.kind = o.kind /\ n.tool = o.tool
                  /\ n.reg = register /\ n.prior = o.prior /\ n.found = o.found
                  /\ o.at = "save" /\ o.text /\ AboutShape(n)
  <2>1. o.kind = "toolAdd" /\ o.at = "save" => o.reg = register
    BY <1>1 DEF Knows, RegistryKinds
  <2>2. AboutShape(r)
    BY <1>1, <1>2, AimFacts
  <2> QED BY <1>2, <1>3, <2>1, <2>2 DEF Aim
<1>5. n # Idle => OpShape(n)
  BY <1>4 DEF OpShape, StageShape, LoadShape, StoreKinds, ExposeKinds
<1>6. TypeOK'
  <2>1. op' \in [Procs -> Op \cup {Idle}]
    BY <1>1, <1>3, OpUpdate
  <2>2. torn' \in SUBSET (Tools \X Names)
    <3>1. Renames(o) => o.tool \in Tools /\ NewName(o) \in Names
      BY <1>1, RenameFacts
    <3> QED BY <1>0, <1>1, <3>1, TypeFacts
  <2>3. faults' \in 0..MaxFaults
    BY <1>0, <1>1, TypeFacts
  <2> QED BY <1>0, <1>1, <2>1, <2>2, <2>3 DEF TypeOK
<1>7. Shaped' /\ Traceable' /\ (apart' => Apart' /\ Informed')
  <2>1. n # Idle /\ n.found # None => o.found # None /\ (Busy = {p} => Traced(n)')
    <3> SUFFICES ASSUME n # Idle, n.found # None
                 PROVE  o.found # None /\ Traced(n)'
      OBVIOUS
    <3>1. n.found = <<register, store, state, [scripts EXCEPT ![n.tool] = n.prior], gates>>
      BY <1>1, <1>4 DEF Traced
    <3> QED BY <1>0, <1>4, <3>1 DEF Traced
  <2>2. n # Idle => Knows(n)'
    BY <1>0, <1>4 DEF Knows, RegistryKinds, StoreKinds, ExposeKinds
  <2>3. faults <= faults' /\ faults \in Nat
    BY <1>0, <1>1, TypeFacts
  <2>4. op[p] = o
    BY <1>o
  <2> QED BY <1>0, <1>1, <1>3, <1>4, <1>5, <1>6, <2>1, <2>2, <2>3, <2>4, StepFrame
<1>8. PolicyKept'
  <2>1. PolicyKept /\ torn \subseteq torn'
    BY <1>0 DEF ConfInv
  <2>2. \A t \in Tools, k \in Names : Carries(o, t, k) => <<t, k>> \in torn'
    BY <1>0 DEF Carries
  <2> QED BY <1>o, <1>0, <1>1, <1>3, <2>1, <2>2, PolicyFrame
<1>9. faults' > 0
  BY <1>0, <1>1, TypeFacts
<1>10. AliasesOf(store)'
  BY <1>0 DEF ConfInv, AliasesOf
<1> QED BY <1>6, <1>7, <1>8, <1>9, <1>10 DEF ConfInv

LEMMA SwitchGateStep ==
  ASSUME ConfInv, NEW t \in Present(register, store), NEW on \in BOOLEAN, SwitchGate(t, on)
  PROVE  ConfInv'
<1>s. PICK n : n = Surfaced(register, store, t)
  OBVIOUS
<1>0. /\ Busy = {} /\ apart /\ ops < MaxOps /\ ops' = ops + 1
      /\ gates' = IF on THEN gates \cup {n} ELSE gates \ {n}
      /\ gated' = IF on THEN gated \cup {t} ELSE {s \in gated : Surfaced(register, store, s) # n}
      /\ loose' = IF on THEN loose ELSE loose \cup Stranded(n)
      /\ UNCHANGED <<register, store, state, scripts, row, bad, op, faults, apart, off, torn>>
  BY <1>s DEF SwitchGate
<1>1. TypeOK /\ PolicyKept /\ t \in Tools
  BY <1>0, TypeFacts, PresentTyped DEF ConfInv
<1>2. n \in Names
  <2>1. CASE t \in Locals
    <3>1. register \in [DOMAIN register -> Names]
      BY <1>1, TypeFacts, PartialFacts DEF Register
    <3>2. t \in DOMAIN register
      BY <2>1 DEF Present
    <3> QED BY <1>s, <2>1, <3>1, <3>2 DEF Surfaced
  <2>2. CASE t \notin Locals
    <3>1. store.expose \in [DOMAIN store.expose -> Entry] /\ t \in Remotes
      BY <1>1, <2>2, TypeFacts, PartialFacts DEF Store, Tools
    <3>2. t \in DOMAIN store.expose => store.expose[t].as \in Names
      BY <3>1 DEF Entry
    <3> QED BY <1>s, <2>2, <3>1, <3>2 DEF Surfaced, SurfacedOf
  <2> QED BY <2>1, <2>2
<1>3. TypeOK'
  <2>1. ops' \in 0..MaxOps
    BY <1>0, <1>1, TypeFacts
  <2>2. gates' \in SUBSET Names /\ gated' \in SUBSET Tools /\ loose' \in SUBSET Tools
    BY <1>0, <1>1, <1>2 DEF TypeOK, Stranded
  <2> QED BY <1>0, <1>1, <2>1, <2>2 DEF TypeOK
<1>4. Busy' = {}
  BY <1>0 DEF Busy
<1>5. \A s : MayBe(s)' = MayBe(s) /\ Becoming(s) = {}
  BY <1>0, <1>4 DEF MayBe, Becoming
<1>6. ASSUME NEW s \in gated' \ loose'
      PROVE  MayBe(s)' \cap gates' # {}
  <2>1. CASE s = t /\ on
    BY <1>0, <1>s, <1>5, <2>1 DEF MayBe
  <2>2. CASE ~(s = t /\ on)
    <3>1. s \in gated \ loose
      BY <1>0, <1>6, <2>2
    <3>2. PICK m \in MayBe(s) : m \in gates
      BY <1>1, <3>1 DEF PolicyKept
    <3>3. ~on => m # n
      <4> SUFFICES ASSUME ~on, m = n PROVE FALSE
        OBVIOUS
      <4>1. m # Surfaced(register, store, s) /\ s \notin Stranded(n)
        BY <1>0, <1>6
      <4>2. m \in Names /\ <<s, m>> \in torn
        BY <1>5, <3>2, <4>1 DEF MayBe
      <4>3. s \in Tools
        BY <1>1, <3>1 DEF TypeOK
      <4> QED BY <4>1, <4>2, <4>3 DEF Stranded
    <3> QED BY <1>0, <1>5, <3>2, <3>3
  <2> QED BY <2>1, <2>2
<1>7. ASSUME NEW s \in off' \ loose'
      PROVE  \E k \in Keys(s)' : IsOff(k)'
  <2>1. PICK k \in Keys(s) : IsOff(k)
    BY <1>0, <1>1, <1>7 DEF PolicyKept
  <2>2. k \in Keys(s)' /\ IsOff(k)'
    BY <1>0, <1>5, <2>1 DEF Keys, IsOff
  <2> QED BY <2>2
<1>8. Sharing(register, store)' \subseteq loose' /\ gated' \cup off' \subseteq Present(register, store)'
  BY <1>0, <1>1 DEF PolicyKept
<1>9. PolicyKept'
  BY <1>6, <1>7, <1>8 DEF PolicyKept
<1>10. faults' = 0 => WrapKept'
  <2>1. faults = 0 => WrapKept
    BY <1>0 DEF ConfInv
  <2>2. WrapKept => state.wrap = None \/ Served(state.wrap)
    BY <1>0 DEF WrapKept
  <2> QED BY <1>0, <1>4, <2>1, <2>2 DEF WrapKept, Served
<1>11. AliasesOf(store)' /\ (faults' = 0 => bad' = {})
  BY <1>0 DEF ConfInv, AliasesOf
<1> QED BY <1>3, <1>4, <1>9, <1>10, <1>11 DEF ConfInv, Shaped, Traceable, Apart, Informed

LEMMA EditTypoStep ==
  ASSUME ConfInv, NEW f \in {"register", "store", "state", "hooks"}, EditTypo(f)
  PROVE  ConfInv'
<1>0. /\ f \in bad \/ (apart /\ Busy = {} /\ faults < MaxFaults)
      /\ faults' = IF f \in bad THEN faults ELSE faults + 1
      /\ bad' = IF f \in bad THEN bad \ {f} ELSE bad \cup {f}
      /\ UNCHANGED <<register, store, state, scripts, gates, row, op, ops, apart>>
      /\ UNCHANGED <<gated, off, loose, torn>>
  BY DEF EditTypo, files, policyVars
<1>1. TypeOK
  BY DEF ConfInv
<1>2. faults' \in 0..MaxFaults /\ faults <= faults' /\ faults \in Nat /\ faults' \in Nat
  BY <1>0, <1>1, TypeFacts
<1>3. TypeOK'
  <2>1. bad' \in SUBSET {"register", "store", "state", "hooks"}
    BY <1>0, <1>1 DEF TypeOK
  <2> QED BY <1>0, <1>1, <1>2, <2>1 DEF TypeOK
<1>4. Busy' = Busy
  BY <1>0 DEF Busy
<1>5. Shaped' /\ Traceable' /\ (apart' => Apart')
  BY <1>0, <1>4 DEF ConfInv, Shaped, Traceable, Apart, Traced, files
<1>6. ASSUME apart
      PROVE  Informed'
  <2> SUFFICES ASSUME NEW q \in Busy', op'[q].at # "refused"
               PROVE  Knows(op[q])'
    BY DEF Informed
  <2>o. PICK o : o = op[q]
    OBVIOUS
  <2>1. o \in Op /\ OpShape(o) /\ o.at # "refused" /\ Knows(o) /\ op'[q] = o
    BY <1>0, <1>1, <1>4, <1>6, <2>o, BusyFacts DEF ConfInv, Busy, Shaped, Informed
  <2>2. Knows(o)'
    BY <1>0, <1>2, <2>1, KnowsFrame
  <2> QED BY <2>1, <2>2
<1>7. ASSUME apart
      PROVE  PolicyKept'
  <2>1. \A t : MayBe(t)' = MayBe(t)
    BY <1>0, <1>4 DEF MayBe, Becoming
  <2>2. \A t : Keys(t)' = Keys(t)
    BY <2>1 DEF Keys
  <2>3. \A k : IsOff(k)' <=> IsOff(k)
    BY <1>0 DEF IsOff
  <2>4. PolicyKept
    BY <1>7 DEF ConfInv
  <2> QED BY <1>0, <2>1, <2>2, <2>3, <2>4 DEF PolicyKept
<1>8. ASSUME apart, faults' = 0
      PROVE  WrapKept'
  <2>1. faults = 0
    BY <1>2, <1>8
  <2>2. WrapKept
    BY <1>8, <2>1 DEF ConfInv
  <2> QED BY <1>0, <1>4, <2>2 DEF WrapKept, Served
<1>9. AliasesOf(store)' /\ (faults' = 0 => bad' = {})
  BY <1>0, <1>2 DEF ConfInv, AliasesOf
<1> QED BY <1>0, <1>3, <1>5, <1>6, <1>7, <1>8, <1>9 DEF ConfInv

-----------------------------------------------------------------------------
(* The requests.                                                           *)
LEMMA FoundFree ==
  ASSUME NEW o \in Op, NEW n \in Op, n.at = o.at, Aim(o, n), n.reg = o.reg, n.sto = o.sto,
         n.sta = o.sta, n.gat = o.gat, n.prior = o.prior
  PROVE  /\ OpShape(n) <=> OpShape(o)
         /\ Knows(n) <=> Knows(o)
         /\ \A t, m : Carries(n, t, m) <=> Carries(o, t, m)
<1>1. /\ n.kind = o.kind /\ n.tool = o.tool /\ n.up = o.up /\ n.name = o.name
      /\ n.on = o.on /\ n.hot = o.hot /\ n.text = o.text
  BY DEF Aim
<1>2. /\ AboutShape(o) <=> AboutShape(n)
      /\ NewName(n) = NewName(o) /\ OldName(n) = OldName(o) /\ (Renames(n) <=> Renames(o))
      /\ (Moves(n) <=> Moves(o)) /\ (Collides(n) <=> Collides(o))
  BY AimFacts
<1>3. StageShape(n) <=> StageShape(o)
  BY <1>1, <1>2 DEF StageShape
<1>4. LoadShape(n) <=> LoadShape(o)
  BY <1>1 DEF LoadShape
<1>5. Knows(n) <=> Knows(o)
  BY <1>1, <1>2 DEF Knows
<1>6. \A t, m : Carries(n, t, m) <=> Carries(o, t, m)
  BY <1>1, <1>2 DEF Carries
<1> QED BY <1>2, <1>3, <1>4, <1>5, <1>6 DEF OpShape

(* A request that says what it is about, and of which nothing is read yet. *)
Fresh(o) ==
  /\ o \in Op /\ AboutShape(o)
  /\ \/ o.at = "load" /\ o.kind # "toggle"
     \/ o.at = "read" /\ (o.kind = "toggle" \/ (o.kind = "wrap" /\ o.up = None))

LEMMA BeginStep ==
  ASSUME ConfInv, NEW p \in Procs, NEW o, Fresh(o), Begin(p, o)
  PROVE  ConfInv'
<1>0. /\ op[p] = Idle /\ ops < MaxOps /\ ops' = ops + 1
      /\ apart' = (apart /\ \A q \in Busy : Touches(op[q].kind) \cap Touches(o.kind) = {})
      /\ op' = [q \in Procs |->
                  IF q = p THEN [o EXCEPT !.found = IF Busy = {} THEN files ELSE None]
                  ELSE IF op[q] = Idle THEN Idle ELSE [op[q] EXCEPT !.found = None]]
      /\ IF apart' THEN UNCHANGED <<gated, off, loose, torn>>
         ELSE gated' = {} /\ off' = {} /\ loose' = Tools /\ torn' = {}
      /\ UNCHANGED <<register, store, state, scripts, gates, row, bad, faults>>
  BY DEF Begin, diskVars, files, policyVars
<1>1. TypeOK /\ o \in Op /\ AboutShape(o)
  BY DEF ConfInv, Fresh
<1>f. PICK f : f = IF Busy = {} THEN files ELSE None
  OBVIOUS
<1>n. PICK n : n = [o EXCEPT !.found = f]
  OBVIOUS
<1>2. /\ n \in Op /\ n.at = o.at /\ Aim(o, n) /\ n.found = f
      /\ n.reg = o.reg /\ n.sto = o.sto /\ n.sta = o.sta /\ n.gat = o.gat /\ n.prior = o.prior
  <2>1. f \in {None} \cup Files
    BY <1>1, <1>f, TypeFacts
  <2> QED BY <1>1, <1>n, <2>1, FoundStep
<1>3. op'[p] = n /\ n # Idle /\ n.kind = o.kind /\ n.up = o.up
  <2>1. n # Idle
    BY <1>2, OpFields DEF Idle, Stages
  <2> QED BY <1>0, <1>f, <1>n, <1>2, <2>1 DEF Aim
<1>4. ASSUME NEW q \in Procs \ {p}
      PROVE  /\ op[q] = Idle => op'[q] = Idle
             /\ op[q] # Idle =>
                  /\ op'[q] \in Op /\ op'[q] # Idle /\ op'[q].found = None
                  /\ op'[q].at = op[q].at /\ op'[q].kind = op[q].kind /\ op'[q].up = op[q].up
                  /\ OpShape(op[q]) => OpShape(op'[q])
                  /\ Knows(op[q]) => \E m : m = op'[q] /\ OpShape(m) /\ Knows(m)
                  /\ \A t, k : Carries(op'[q], t, k) <=> Carries(op[q], t, k)
  <2>1. op[q] = Idle => op'[q] = Idle
    BY <1>0, <1>4
  <2>2. ASSUME op[q] # Idle
        PROVE  /\ op'[q] \in Op /\ op'[q] # Idle /\ op'[q].found = None
               /\ op'[q].at = op[q].at /\ op'[q].kind = op[q].kind /\ op'[q].up = op[q].up
               /\ OpShape(op[q]) /\ OpShape(op'[q])
               /\ Knows(op[q]) => \E m : m = op'[q] /\ OpShape(m) /\ Knows(m)
               /\ \A t, k : Carries(op'[q], t, k) <=> Carries(op[q], t, k)
    <3>b. PICK b : b = op[q]
      OBVIOUS
    <3>m. PICK m : m = [b EXCEPT !.found = None]
      OBVIOUS
    <3>1. b \in Op /\ OpShape(b) /\ op'[q] = m
      BY <1>0, <1>1, <1>4, <2>2, <3>b, <3>m, BusyFacts DEF ConfInv, Shaped, Busy
    <3>2. /\ m \in Op /\ m.at = b.at /\ Aim(b, m) /\ m.found = None
          /\ m.reg = b.reg /\ m.sto = b.sto /\ m.sta = b.sta /\ m.gat = b.gat /\ m.prior = b.prior
      BY <3>1, <3>m, FoundStep
    <3>3. /\ OpShape(m) /\ (Knows(m) <=> Knows(b))
          /\ \A t, k : Carries(m, t, k) <=> Carries(b, t, k)
      BY <3>1, <3>2, FoundFree
    <3>4. m # Idle
      BY <3>2, OpFields DEF Idle, Stages
    <3> QED BY <3>b, <3>1, <3>2, <3>3, <3>4 DEF Aim
  <2> QED BY <2>1, <2>2
<1>5. op' \in [Procs -> Op \cup {Idle}]
  <2>1. op' = [q \in Procs |-> op'[q]]
    BY <1>0
  <2>2. \A q \in Procs : op'[q] \in Op \cup {Idle}
    BY <1>2, <1>3, <1>4
  <2> QED BY <2>1, <2>2
<1>6. p \notin Busy /\ Busy' = Busy \cup {p}
  BY <1>0, <1>3, <1>4 DEF Busy
<1>7. TypeOK'
  <2>1. ops' \in 0..MaxOps /\ apart' \in BOOLEAN
    BY <1>0, <1>1, TypeFacts
  <2>2. /\ gated' \in SUBSET Tools /\ off' \in SUBSET Tools /\ loose' \in SUBSET Tools
        /\ torn' \in SUBSET (Tools \X Names)
    BY <1>0, <1>1 DEF TypeOK
  <2> QED BY <1>0, <1>1, <1>5, <2>1, <2>2 DEF TypeOK
<1>8. OpShape(n)
  <2>1. StageShape(n)
    BY <1>2, <1>3 DEF Fresh, StageShape
  <2>2. AboutShape(n)
    BY <1>1, <1>2, AimFacts
  <2>3. LoadShape(n)
    BY <1>2 DEF Fresh, LoadShape
  <2> QED BY <2>1, <2>2, <2>3 DEF OpShape
<1>9. Shaped'
  BY <1>3, <1>4, <1>6, <1>8 DEF ConfInv, Shaped, Busy
<1>10. Traceable'
  <2> SUFFICES ASSUME NEW q \in Busy', op'[q].found # None
               PROVE  Busy' = {q} /\ Traced(op[q])'
    BY DEF Traceable
  <2>1. q = p
    BY <1>4, <1>6 DEF Busy
  <2>2. Busy = {} /\ n.found = files'
    BY <1>0, <1>2, <1>3, <1>f, <2>1 DEF files
  <2>3. n.at \in {"load", "read"}
    BY <1>2 DEF Fresh
  <2>4. Traced(n)'
    BY <2>2, <2>3 DEF Traced
  <2> QED BY <1>3, <1>6, <2>1, <2>2, <2>4
<1>11. ASSUME apart'
       PROVE  Apart'
  <2>1. apart /\ Apart
    BY <1>0, <1>11 DEF ConfInv
  <2> SUFFICES ASSUME NEW q \in Busy', NEW s \in Busy', q # s
               PROVE  Touches(op'[q].kind) \cap Touches(op'[s].kind) = {}
    BY DEF Apart
  <2>2. \A z \in Busy : z # p /\ op'[z].kind = op[z].kind
    BY <1>4, <1>6 DEF Busy
  <2> QED BY <1>0, <1>3, <1>6, <1>11, <2>1, <2>2, ZenonT(30) DEF Apart
<1>12. ASSUME apart'
       PROVE  Informed'
  <2>0. apart /\ loose' = loose /\ off' = off
    BY <1>0, <1>12
  <2> SUFFICES ASSUME NEW q \in Busy', op'[q].at # "refused"
               PROVE  Knows(op[q])'
    BY DEF Informed
  <2>m. PICK m : m = op'[q]
    OBVIOUS
  <2>1. CASE q = p
    <3>1. m = n /\ m.at \in {"load", "read"} /\ (m.at = "read" => m.kind # "toolRemove")
      BY <1>2, <1>3, <2>1, <2>m DEF Fresh
    <3>2. Knows(m)'
      BY <3>1 DEF Knows
    <3> QED BY <2>m, <3>2
  <2>2. CASE q # p
    <3>1. q \in Busy /\ q \in Procs \ {p} /\ op[q] # Idle /\ op[q].at # "refused"
      BY <1>4, <1>6, <2>2 DEF Busy
    <3>2. Knows(op[q])
      BY <2>0, <3>1 DEF ConfInv, Informed
    <3>3. m \in Op /\ OpShape(m) /\ Knows(m) /\ m.at # "refused"
      BY <1>4, <2>m, <3>1, <3>2
    <3>4. faults \in Nat
      BY <1>1, TypeFacts
    <3>5. Knows(m)'
      BY <1>0, <2>0, <3>3, <3>4, KnowsFrame
    <3> QED BY <2>m, <3>5
  <2> QED BY <2>1, <2>2
<1>13. ASSUME apart'
       PROVE  PolicyKept'
  <2>1. \A t, k : ~Carries(n, t, k)
    BY <1>2 DEF Carries, Fresh
  <2>2. \A t : Becoming(t)' = {k \in Names : \E q \in Busy' : Carries(op'[q], t, k)}
    BY DEF Becoming, Carries
  <2>3. \A t : Becoming(t) = {k \in Names : \E q \in Busy : Carries(op[q], t, k)}
    BY DEF Becoming, Carries
  <2>4. \A q \in Busy : q # p /\ \A t, k : Carries(op'[q], t, k) <=> Carries(op[q], t, k)
    BY <1>4, <1>6 DEF Busy
  <2>5. \A t, k : (\E q \in Busy' : Carries(op'[q], t, k)) <=> (\E q \in Busy : Carries(op[q], t, k))
    BY <1>3, <1>6, <2>1, <2>4
  <2>6. \A t : Becoming(t)' = Becoming(t)
    BY <2>2, <2>3, <2>5
  <2>7. \A t : MayBe(t)' = MayBe(t)
    BY <1>0, <1>13, <2>6 DEF MayBe
  <2>8. \A t : Keys(t)' = Keys(t)
    BY <2>7 DEF Keys
  <2>9. \A k : IsOff(k)' <=> IsOff(k)
    BY <1>0 DEF IsOff
  <2>10. PolicyKept /\ UNCHANGED <<gated, off, loose, torn>>
    BY <1>0, <1>13 DEF ConfInv
  <2> QED BY <1>0, <2>7, <2>8, <2>9, <2>10 DEF PolicyKept
<1>14. ASSUME apart', faults' = 0
       PROVE  WrapKept'
  <2>1. WrapKept
    BY <1>0, <1>14 DEF ConfInv
  <2>2. \A q \in Busy : /\ q # p /\ q \in Busy' /\ op'[q].at = op[q].at
                        /\ op'[q].kind = op[q].kind /\ op'[q].up = op[q].up
    BY <1>4, <1>6 DEF Busy
  <2>3. \A u : Served(u)' <=> Served(u)
    BY <1>0 DEF Served
  <2>4. \/ state'.wrap = None \/ Served(state.wrap)'
        \/ \E q \in Busy' : /\ op'[q].at \in {"read", "write"} /\ op'[q].up = state'.wrap
                            /\ op'[q].kind \in {"mcpSet", "mcpRemove"}
    BY <1>0, <2>1, <2>2 DEF WrapKept, Served
  <2>5. ASSUME NEW q \in Busy', op'[q].kind = "wrap", op'[q].at \in {"read", "write"},
               op'[q].up # None
        PROVE  Served(op[q].up)'
    <3>1. q # p
      BY <1>2, <1>3, <2>5 DEF Fresh
    <3>2. Served(op[q].up) /\ op'[q].up = op[q].up
      BY <1>6, <2>1, <2>2, <2>5, <3>1 DEF WrapKept
    <3> QED BY <1>0, <3>2 DEF Served
  <2> QED BY <2>4, <2>5 DEF WrapKept
<1>15. AliasesOf(store)' /\ (faults' = 0 => bad' = {})
  BY <1>0 DEF ConfInv, AliasesOf
<1> QED BY <1>7, <1>9, <1>10, <1>11, <1>12, <1>13, <1>14, <1>15 DEF ConfInv

LEMMA BlankFields ==
  /\ Blank \in Op /\ Blank.at = "load" /\ Blank.kind = "toggle" /\ Blank.tool = None
  /\ Blank.up = None /\ Blank.name = None /\ ~Blank.text
  BY BlankType DEF Blank

LEMMA FreshTool ==
  ASSUME NEW t \in Locals, NEW n \in Names, NEW b \in BOOLEAN
  PROVE  /\ Fresh([Blank EXCEPT !.kind = "toolAdd", !.tool = t, !.name = n, !.text = b])
         /\ Fresh([Blank EXCEPT !.kind = "toolUpdate", !.tool = t, !.name = n, !.text = b])
         /\ Fresh([Blank EXCEPT !.kind = "toolUpdate", !.tool = t])
         /\ Fresh([Blank EXCEPT !.kind = "toolRemove", !.tool = t])
<1>b. PICK z : z = Blank
  OBVIOUS
<1>0. /\ z \in Op /\ z.at = "load" /\ ~z.text
      /\ {"toolAdd", "toolUpdate", "toolRemove"} \subseteq Kinds /\ t \in Tools
  BY <1>b, BlankFields DEF Kinds, RegistryKinds, Tools
<1>1. ASSUME NEW k \in {"toolAdd", "toolUpdate"}, NEW o,
             o = [z EXCEPT !.kind = k, !.tool = t, !.name = n, !.text = b]
      PROVE  Fresh(o)
  <2>1. o \in Op /\ o.at = "load" /\ o.kind = k /\ o.tool = t /\ o.name = n
    BY <1>0, <1>1 DEF Op
  <2> QED BY <1>1, <2>1 DEF Fresh, AboutShape, RegistryKinds, ExposeKinds
<1>2. ASSUME NEW k \in {"toolUpdate", "toolRemove"}, NEW o, o = [z EXCEPT !.kind = k, !.tool = t]
      PROVE  Fresh(o)
  <2>1. o \in Op /\ o.at = "load" /\ o.kind = k /\ o.tool = t /\ ~o.text
    BY <1>0, <1>2 DEF Op
  <2> QED BY <1>2, <2>1 DEF Fresh, AboutShape, RegistryKinds, ExposeKinds
<1> QED BY <1>b, <1>1, <1>2

LEMMA FreshToggle ==
  ASSUME NEW k \in Names, NEW h \in BOOLEAN, NEW b \in BOOLEAN
  PROVE  Fresh(ToggleOp(k, h, b))
<1>b. PICK z : z = Blank
  OBVIOUS
<1>0. z \in Op /\ ~z.text
  BY <1>b, BlankFields
<1>o. PICK o : o = [z EXCEPT !.at = "read", !.kind = "toggle", !.name = k, !.hot = h, !.on = b]
  OBVIOUS
<1>1. o \in Op /\ o.at = "read" /\ o.kind = "toggle" /\ o.name = k /\ ~o.text
  <2>1. "toggle" \in Kinds
    BY DEF Kinds
  <2> QED BY <1>0, <1>o, <2>1 DEF Op
<1>2. Fresh(o)
  BY <1>1 DEF Fresh, AboutShape, RegistryKinds, ExposeKinds
<1> QED BY <1>b, <1>o, <1>2 DEF ToggleOp

LEMMA FreshMcpAdd ==
  ASSUME NEW x \in Remotes, NEW n \in Names \cup {None},
         NEW b \in BOOLEAN, NEW l \in BOOLEAN
  PROVE  Fresh(McpAddOp(x, n, b, l))
<1>b. PICK z, t, u : z = Blank /\ t = (IF n = None THEN None ELSE x) /\ u = UpOf[x]
  OBVIOUS
<1>0. z \in Op /\ z.at = "load" /\ ~z.text /\ t \in Tools \cup {None} /\ u \in Ups
  BY <1>b, BlankFields DEF Tools
<1>o. PICK o : o = [z EXCEPT !.kind = "mcpAdd", !.up = u, !.name = n, !.on = b,
                             !.live = l, !.tool = t]
  OBVIOUS
<1>1. o \in Op /\ o.at = "load" /\ o.kind = "mcpAdd" /\ o.up = u /\ o.tool = t /\ o.name = n /\ ~o.text
  <2>1. "mcpAdd" \in Kinds
    BY DEF Kinds
  <2> QED BY <1>0, <1>o, <2>1 DEF Op
<1>2. t # None => t = x /\ n \in Names
  BY <1>b
<1>3. Fresh(o)
  BY <1>b, <1>0, <1>1, <1>2 DEF Fresh, AboutShape, RegistryKinds, ExposeKinds
<1> QED BY <1>b, <1>o, <1>3 DEF McpAddOp

LEMMA FreshMcpSet ==
  ASSUME NEW u \in Ups, NEW k \in {"mcpSet", "mcpRemove"}, NEW b \in BOOLEAN
  PROVE  Fresh(McpSetOp(u, k, b))
<1>b. PICK z : z = Blank
  OBVIOUS
<1>0. z \in Op /\ z.at = "load" /\ ~z.text
  BY <1>b, BlankFields
<1>o. PICK o : o = [z EXCEPT !.kind = k, !.up = u, !.on = b]
  OBVIOUS
<1>1. o \in Op /\ o.at = "load" /\ o.kind = k /\ o.up = u /\ ~o.text
  <2>1. k \in Kinds
    BY DEF Kinds
  <2> QED BY <1>0, <1>o, <2>1 DEF Op
<1>2. Fresh(o)
  BY <1>1 DEF Fresh, AboutShape, RegistryKinds, ExposeKinds
<1> QED BY <1>b, <1>o, <1>2 DEF McpSetOp

LEMMA FreshWrap ==
  ASSUME NEW u \in Ups \cup {None}
  PROVE  Fresh(WrapOp(u))
<1>b. PICK z, a : z = Blank /\ a = (IF u = None THEN "read" ELSE "load")
  OBVIOUS
<1>0. z \in Op /\ ~z.text
  BY <1>b, BlankFields
<1>o. PICK o : o = [z EXCEPT !.at = a, !.kind = "wrap", !.up = u]
  OBVIOUS
<1>1. o \in Op /\ o.at = a /\ o.kind = "wrap" /\ o.up = u /\ ~o.text
  <2>1. "wrap" \in Kinds
    BY DEF Kinds
  <2> QED BY <1>b, <1>0, <1>o, <2>1, ZenonT(30) DEF Op
<1>2. Fresh(o)
  BY <1>b, <1>1 DEF Fresh, AboutShape, RegistryKinds, ExposeKinds
<1> QED BY <1>b, <1>o, <1>2 DEF WrapOp

LEMMA FreshExpose ==
  ASSUME NEW x \in Remotes, NEW n \in Names, NEW b \in BOOLEAN, NEW k \in {"updateExpose", "addExpose"}
  PROVE  /\ Fresh([Blank EXCEPT !.kind = k, !.tool = x, !.name = n, !.on = b])
         /\ Fresh([Blank EXCEPT !.kind = "removeExpose", !.tool = x])
<1>b. PICK z : z = Blank
  OBVIOUS
<1>0. /\ z \in Op /\ z.at = "load" /\ ~z.text /\ x \in Tools
      /\ k \in Kinds /\ "removeExpose" \in Kinds
  BY <1>b, BlankFields DEF Tools, Kinds, ExposeKinds
<1>o. PICK o : o = [z EXCEPT !.kind = k, !.tool = x, !.name = n, !.on = b]
  OBVIOUS
<1>1. o \in Op /\ o.at = "load" /\ o.kind = k /\ o.tool = x /\ o.name = n /\ ~o.text
  BY <1>0, <1>o DEF Op
<1>r. PICK r : r = [z EXCEPT !.kind = "removeExpose", !.tool = x]
  OBVIOUS
<1>2. r \in Op /\ r.at = "load" /\ r.kind = "removeExpose" /\ r.tool = x /\ ~r.text
  BY <1>0, <1>r DEF Op
<1>3. Fresh(o) /\ Fresh(r)
  BY <1>1, <1>2 DEF Fresh, AboutShape, RegistryKinds, ExposeKinds
<1> QED BY <1>b, <1>o, <1>r, <1>3

LEMMA ApiStep ==
  ASSUME ConfInv,
         \/ ApiToolAdd \/ ApiToolRemove \/ ApiToolUpdate \/ ApiToolMode \/ ApiSetState
         \/ ApiMcpAdd \/ ApiMcpState \/ ApiWrap
  PROVE  ConfInv'
<1>0. UI \in Procs /\ None \in Ups \cup {None}
  BY DEF Procs
<1>1. CASE ApiToolAdd
  BY <1>0, <1>1, FreshTool, BeginStep DEF ApiToolAdd
<1>2. CASE ApiToolRemove
  <2>1. PICK t \in Locals : Begin(UI, [Blank EXCEPT !.kind = "toolRemove", !.tool = t])
    BY <1>2 DEF ApiToolRemove
  <2>2. t \in Names
    OBVIOUS
  <2>3. Fresh([Blank EXCEPT !.kind = "toolRemove", !.tool = t])
    BY <2>2, FreshTool
  <2> QED BY <1>0, <2>1, <2>3, BeginStep
<1>3. CASE ApiToolUpdate
  BY <1>0, <1>3, FreshTool, BeginStep DEF ApiToolUpdate
<1>4. CASE ApiToolMode
  <2>1. PICK t \in Locals : Begin(UI, [Blank EXCEPT !.kind = "toolUpdate", !.tool = t])
    BY <1>4 DEF ApiToolMode
  <2>2. t \in Names
    OBVIOUS
  <2>3. Fresh([Blank EXCEPT !.kind = "toolUpdate", !.tool = t])
    BY <2>2, FreshTool
  <2> QED BY <1>0, <2>1, <2>3, BeginStep
<1>5. CASE ApiSetState
  BY <1>0, <1>5, FreshToggle, BeginStep DEF ApiSetState
<1>6. CASE ApiMcpAdd
  BY <1>0, <1>6, FreshMcpAdd, BeginStep DEF ApiMcpAdd
<1>7. CASE ApiMcpState
  BY <1>0, <1>7, FreshMcpSet, BeginStep DEF ApiMcpState
<1>8. CASE ApiWrap
  BY <1>0, <1>8, FreshWrap, BeginStep DEF ApiWrap
<1> QED BY <1>1, <1>2, <1>3, <1>4, <1>5, <1>6, <1>7, <1>8

LEMMA ScriptsStep ==
  ASSUME ConfInv, NEW p \in Scripts,
         \/ TfToolAdd(p) \/ TfToolSet(p) \/ TfMcpAdd(p)
         \/ TfMcpSet(p) \/ TfWrap(p) \/ CliWrap(p) \/ EditExpose(p)
  PROVE  ConfInv'
<1>0. p \in Procs
  BY DEF Procs
<1>1. CASE TfToolAdd(p)
  BY <1>0, <1>1, FreshTool, BeginStep DEF TfToolAdd
<1>2. CASE TfToolSet(p)
  <2>1. CASE \E t \in Locals : Begin(p, [Blank EXCEPT !.kind = "toolRemove", !.tool = t])
    <3>1. PICK t \in Locals : Begin(p, [Blank EXCEPT !.kind = "toolRemove", !.tool = t])
      BY <2>1
    <3>2. t \in Names
      OBVIOUS
    <3>3. Fresh([Blank EXCEPT !.kind = "toolRemove", !.tool = t])
      BY <3>2, FreshTool
    <3> QED BY <1>0, <3>1, <3>3, BeginStep
  <2>2. CASE \E k \in Names, hot \in BOOLEAN, on \in BOOLEAN : Begin(p, ToggleOp(k, hot, on))
    BY <1>0, <2>2, FreshToggle, BeginStep
  <2> QED BY <1>2, <2>1, <2>2 DEF TfToolSet
<1>3. CASE TfMcpAdd(p)
  BY <1>0, <1>3, FreshMcpAdd, BeginStep DEF TfMcpAdd
<1>4. CASE TfMcpSet(p)
  BY <1>0, <1>4, FreshMcpSet, BeginStep DEF TfMcpSet
<1>5. CASE TfWrap(p)
  BY <1>0, <1>5, FreshWrap, BeginStep DEF TfWrap
<1>6. CASE CliWrap(p)
  BY <1>0, <1>6, FreshWrap, BeginStep DEF CliWrap
<1>7. CASE EditExpose(p)
  <2>1. PICK x \in Remotes :
          \/ \E n \in Names, on \in BOOLEAN, k \in {"updateExpose", "addExpose"} :
               Begin(p, [Blank EXCEPT !.kind = k, !.tool = x, !.name = n, !.on = on])
          \/ Begin(p, [Blank EXCEPT !.kind = "removeExpose", !.tool = x])
    BY <1>7 DEF EditExpose
  <2>2. CASE \E n \in Names, on \in BOOLEAN, k \in {"updateExpose", "addExpose"} :
               Begin(p, [Blank EXCEPT !.kind = k, !.tool = x, !.name = n, !.on = on])
    BY <1>0, <2>2, FreshExpose, BeginStep
  <2>3. CASE Begin(p, [Blank EXCEPT !.kind = "removeExpose", !.tool = x])
    <3>1. Default[x] \in Names
      OBVIOUS
    <3>2. Fresh([Blank EXCEPT !.kind = "removeExpose", !.tool = x])
      BY <3>1, FreshExpose
    <3> QED BY <1>0, <2>3, <3>2, BeginStep
  <2> QED BY <2>1, <2>2, <2>3
<1> QED BY <1>1, <1>2, <1>3, <1>4, <1>5, <1>6, <1>7

-----------------------------------------------------------------------------
(* The invariant holds.                                                    *)
LEMMA InitConf == Init => ConfInv
<1> SUFFICES ASSUME Init PROVE ConfInv
  OBVIOUS
<1>1. Busy = {}
  BY DEF Init, Busy
<1>2. register \in Register /\ DOMAIN register = Locals
  <2>1. register \in [Locals -> Names] /\ DOMAIN register = Locals
    BY DEF Init
  <2> QED BY <2>1, PartialFacts DEF Register
<1>3. store \in Store /\ DOMAIN store.expose = {}
  <2>u. PICK ups, exp : ups = [u \in Ups |-> TRUE] /\ exp = [x \in {} |-> Unset]
    OBVIOUS
  <2>1. ups \in Partial(Ups, BOOLEAN)
    <3>1. DOMAIN ups = Ups /\ ups \in [Ups -> BOOLEAN]
      BY <2>u
    <3> QED BY <3>1, PartialFacts
  <2>2. exp \in Partial(Remotes, Entry) /\ DOMAIN exp = {}
    BY <2>u, EmptyType
  <2>3. store = [ups |-> ups, expose |-> exp]
    BY <2>u DEF Init
  <2> QED BY <2>1, <2>2, <2>3 DEF Store
<1>4. Sharing(register, store) \subseteq Tools /\ loose = Sharing(register, store)
  <2>1. loose = Sharing(register, store)
    BY DEF Init
  <2> QED BY <1>2, <2>1, PresentTyped
<1>5. op \in [Procs -> Op \cup {Idle}] /\ scripts \in [Locals -> Bodies]
  BY DEF Init, Bodies
<1>6. TypeOK
  <2>1. state \in State
    BY EmptyStateType DEF Init
  <2>2. ops \in 0..MaxOps /\ faults \in 0..MaxFaults
    BY DEF Init
  <2>3. /\ gates \in SUBSET Names /\ row \in {"none", "regex", "broken"}
        /\ bad \in SUBSET {"register", "store", "state", "hooks"} /\ apart \in BOOLEAN
        /\ gated \in SUBSET Tools /\ off \in SUBSET Tools /\ torn \in SUBSET (Tools \X Names)
    BY DEF Init
  <2> QED BY <1>2, <1>3, <1>4, <1>5, <2>1, <2>2, <2>3 DEF TypeOK
<1>7. AliasesOf(store)
  BY <1>3 DEF AliasesOf
<1>8. PolicyKept
  BY <1>4 DEF Init, PolicyKept
<1>9. WrapKept
  BY <1>1, EmptyStateType DEF Init, WrapKept
<1>10. bad = {}
  BY DEF Init
<1> QED BY <1>1, <1>6, <1>7, <1>8, <1>9, <1>10
        DEF ConfInv, Shaped, Traceable, Apart, Informed

LEMMA NextConf ==
  ASSUME ConfInv, [Next]_vars
  PROVE  ConfInv'
<1>1. CASE \/ ApiToolAdd \/ ApiToolRemove \/ ApiToolUpdate \/ ApiToolMode \/ ApiSetState
           \/ ApiMcpAdd \/ ApiMcpState \/ ApiWrap
  BY <1>1, ApiStep
<1>2. ASSUME NEW p \in Scripts,
             \/ TfToolAdd(p) \/ TfToolSet(p) \/ TfMcpAdd(p)
             \/ TfMcpSet(p) \/ TfWrap(p) \/ CliWrap(p) \/ EditExpose(p)
      PROVE  ConfInv'
  BY <1>2, ScriptsStep
<1>3. ASSUME NEW p \in Procs, Step(p)
      PROVE  ConfInv'
  <2>1. CASE LoadRegistry(p)
    BY <2>1, LoadRegistryStep
  <2>2. CASE LoadExposeStore(p)
    BY <2>2, LoadExposeStep
  <2>3. CASE WriteScript(p)
    BY <2>3, WriteScriptStep
  <2>4. CASE RestoreScript(p)
    BY <2>4, RestoreScriptStep
  <2>5. CASE Plan(p)
    BY <2>5, PlanOk
  <2>6. CASE WriteHooks(p)
    BY <2>6, WriteHooksStep
  <2>7. CASE WriteState(p)
    BY <2>7, WriteStateStep
  <2>8. CASE SaveRegister(p)
    BY <2>8, SaveRegisterStep
  <2>9. CASE SaveStore(p)
    BY <2>9, SaveStoreStep
  <2>10. CASE ReadState(p)
    BY <2>10, ReadStateStep
  <2>11. CASE SaveState(p)
    BY <2>11, SaveStateStep
  <2>12. CASE Answered(p)
    BY <2>12, AnsweredStep
  <2> QED BY <1>3, <2>1, <2>2, <2>3, <2>4, <2>5, <2>6, <2>7, <2>8, <2>9, <2>10, <2>11, <2>12 DEF Step
<1>4. ASSUME NEW p \in Procs, Crash(p)
      PROVE  ConfInv'
  BY <1>4, CrashStep
<1>5. ASSUME NEW t \in Present(register, store), NEW on \in BOOLEAN, SwitchGate(t, on)
      PROVE  ConfInv'
  BY <1>5, SwitchGateStep
<1>6. ASSUME NEW f \in {"register", "store", "state", "hooks"}, EditTypo(f)
      PROVE  ConfInv'
  BY <1>6, EditTypoStep
<1>7. CASE UNCHANGED vars
  <2>1. /\ UNCHANGED <<register, store, state, scripts, gates, row, bad, op>>
        /\ UNCHANGED <<ops, faults, apart, gated, off, loose, torn>>
    BY <1>7 DEF vars, diskVars, files, countVars, policyVars
  <2>2. TypeOK' <=> TypeOK
    BY <2>1 DEF TypeOK
  <2>3. Busy' = Busy
    BY <2>1 DEF Busy
  <2>4. \A t : Becoming(t)' = Becoming(t)
    BY <2>1, <2>3 DEF Becoming
  <2>5. \A t : MayBe(t)' = MayBe(t)
    BY <2>1, <2>4 DEF MayBe
  <2>6. \A t : Keys(t)' = Keys(t)
    BY <2>5 DEF Keys
  <2>7. \A k : IsOff(k)' <=> IsOff(k)
    BY <2>1 DEF IsOff
  <2>8. PolicyKept' <=> PolicyKept
    BY <2>1, <2>5, <2>6, <2>7 DEF PolicyKept
  <2>9. WrapKept' <=> WrapKept
    BY <2>1, <2>3 DEF WrapKept, Served
  <2>10. Informed => Informed'
    BY <2>1, <2>3 DEF Informed, Knows
  <2>11. Shaped => Shaped'
    BY <2>1, <2>3 DEF Shaped
  <2>12. Traceable => Traceable'
    BY <2>1, <2>3 DEF Traceable, Traced, files
  <2>13. Apart => Apart'
    BY <2>1, <2>3 DEF Apart
  <2>14. AliasesOf(store)' <=> AliasesOf(store)
    BY <2>1 DEF AliasesOf
  <2> QED BY <2>1, <2>2, <2>8, <2>9, <2>10, <2>11, <2>12, <2>13, <2>14 DEF ConfInv
<1> QED BY <1>1, <1>2, <1>3, <1>4, <1>5, <1>6, <1>7 DEF Next

(* Whatever the processes do and wherever they die, what a process knows   *)
(* of the files it meets no other on is what they hold, and each policy of *)
(* the operator is somewhere the tool it is for may be.                    *)
THEOREM ConfInvHolds == Spec => []ConfInv
<1>1. Init => ConfInv
  BY InitConf
<1>2. ConfInv /\ [Next]_vars => ConfInv'
  BY NextConf
<1> QED BY <1>1, <1>2, PTL DEF Spec

(* Every variable keeps its type.                                          *)
THEOREM TypeCorrect == Spec => []TypeOK
<1>1. ConfInv => TypeOK
  BY DEF ConfInv
<1> QED BY <1>1, ConfInvHolds, PTL

(* A gated tool keeps its gate and a switched-off tool stays off through   *)
(* renames, aliases, toggles and removals (migrateSurfacedName and its     *)
(* callers), but for the excuses PolicyFollowsTool names.                  *)
THEOREM PolicyFollowsToolHolds == Spec => []PolicyFollowsTool
<1>1. ConfInv => PolicyFollowsTool
  <2> SUFFICES ASSUME ConfInv, apart, Busy = {},
                      NEW t \in Present(register, store) \ loose,
                      \A n \in Names : <<t, n>> \notin torn
               PROVE  /\ t \in gated => Surfaced(register, store, t) \in gates
                      /\ (t \in off /\ "state" \notin bad) =>
                            /\ KeyOf(register, store, t) \in DOMAIN state.flags
                            /\ state.flags[KeyOf(register, store, t)].on = "no"
    BY DEF PolicyFollowsTool
  <2>1. MayBe(t) = {Surfaced(register, store, t)}
    BY DEF MayBe, Becoming
  <2>2. Keys(t) = {KeyOf(register, store, t)}
    BY <2>1 DEF Keys, KeyOf, Surfaced
  <2>3. PolicyKept
    BY DEF ConfInv
  <2> QED BY <2>1, <2>2, <2>3 DEF PolicyKept, IsOff
<1> QED BY <1>1, ConfInvHolds, PTL

(* The wrap is on an upstream that is attached and enabled while no file   *)
(* was broken and no process died (clearWrapIfTarget, apiMcpState), and    *)
(* every alias is of a tool whose upstream is attached (removeUpstream).   *)
THEOREM TargetsExistHolds == Spec => []TargetsExist
<1>1. ConfInv => TargetsExist
  BY DEF ConfInv, TargetsExist, WrapKept, Served, AliasesOf
<1> QED BY <1>1, ConfInvHolds, PTL

(* An operation that is refused before or after it wrote leaves every file *)
(* as it found it, and the UI's add gives the script slot back.            *)
THEOREM RefusalLeavesNoTraceHolds == Spec => []RefusalLeavesNoTrace
<1>1. ConfInv => RefusalLeavesNoTrace
  <2> SUFFICES ASSUME ConfInv, NEW p \in Procs, op[p].at = "refused", op[p].found # None
               PROVE  files = op[p].found
    BY DEF RefusalLeavesNoTrace
  <2>1. Traced(op[p])
    BY Standing
  <2> QED BY <2>1 DEF Traced
<1> QED BY <1>1, ConfInvHolds, PTL
=============================================================================
