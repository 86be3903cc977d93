------------------------------ MODULE HookStore ------------------------------
(***************************************************************************)
(* The hook store: hooks.manifest.json and the hooks.state.json overlay    *)
(* (src/core/hook-loader.js).  The manager UI (src/ui/server.js), the      *)
(* tf_hook_* scripts and the operator's editor change the two files, the   *)
(* gateway reloads them.  Every writer is a process of its own: each read  *)
(* and each rename is a step, and a writer may die or fail between two.    *)
(*                                                                         *)
(* A row is named by its id; the row a tool's own switch writes has none   *)
(* and is named by the tool.  What a row gates and runs follows from its   *)
(* name; only its enabled flag is data.  Rows form a set: no operation     *)
(* looks at their order, but for the first of several that fit.            *)
(***************************************************************************)
EXTENDS Integers, FiniteSets

CONSTANTS Ids,        \* ids of configured hooks
          Tools,      \* ids of registered tools, which also name gates
          GateOf,     \* per row, the gate its matcher is the literal of
          CmdOf,      \* per row, the tool whose script its command runs
          UI,         \* the manager UI, which runs one handler at a time
          Scripts,    \* tf_hook_add and tf_hook_set processes
          MaxOps,     \* bound: operations begun
          MaxMixed,   \* bound: the same, once two of them have overlapped
          MaxFaults   \* bound: aborted operations and edits by hand

Keys == Ids \cup Tools
Procs == Scripts \cup {UI}

ASSUME StoreSets == /\ Ids \cap Tools = {} /\ UI \notin Scripts
                    /\ GateOf \in [Keys -> Tools]
                    /\ CmdOf \in [Keys -> Keys]
                    /\ \A t \in Tools : CmdOf[t] = t
ASSUME StoreBounds == /\ MaxOps \in Nat /\ MaxFaults \in Nat
                      /\ MaxMixed \in 0..MaxOps

VARIABLES
  manifest,   \* the rows of the manifest on disk and their enabled flags
  typo,       \* TRUE: the manifest on disk does not parse
  overlay,    \* the overlay on disk: ids and their enabled flags
  op,         \* per process, the operation it runs
  live,       \* the rows enabled in the gateway's engine
  snap,       \* the manifest the gateway has read, if the overlay is still to be
  dirty,      \* the gateway's watchers have a change to report
  ops, faults,
  alone,      \* history: no two operations have overlapped
  agreed      \* history: what the last answer said of a row or a switch

storeVars == <<manifest, typo, overlay>>
gatewayVars == <<live, snap, dirty>>
countVars == <<ops, faults, alone>>
vars == <<storeVars, op, gatewayVars, countVars, agreed>>

Partial(S, T) == UNION {[R -> T] : R \in SUBSET S}
Without(f, S) == [k \in DOMAIN f \ S |-> f[k]]
Nothing == [k \in {} |-> FALSE]
Just(k, flag) == [j \in {k} |-> flag]
Over(f, g) == [k \in DOMAIN f \cup DOMAIN g |-> IF k \in DOMAIN f THEN f[k] ELSE g[k]]
With(f, k, flag) == Over(Just(k, flag), f)

(* The overlay wins over the row's own flag (applyStateOverlay).           *)
Enabled(m, o, k) == IF k \in DOMAIN o THEN o[k] ELSE m[k]
Effective(m, o) == {k \in DOMAIN m : Enabled(m, o, k)}

Idle == [at |-> "idle"]
Op == [at : {"load", "apply", "read", "peek", "write", "state", "save"},
       kind : {"set", "add", "undo", "remove", "switch"},
       key : Keys, want : BOOLEAN,
       mem : Partial(Keys, BOOLEAN),    \* the loader's own copy
       raw : Partial(Keys, BOOLEAN),    \* the manifest read again
       seen : Partial(Ids, BOOLEAN)]    \* the overlay read

(* The type invariant: two files, an operation per process and an engine.  *)
TypeOK ==
  /\ manifest \in Partial(Keys, BOOLEAN) /\ overlay \in Partial(Ids, BOOLEAN)
  /\ typo \in BOOLEAN /\ dirty \in BOOLEAN /\ alone \in BOOLEAN
  /\ op \in [Procs -> Op \cup {Idle}]
  /\ live \in SUBSET Keys /\ snap \in SUBSET Partial(Keys, BOOLEAN)
  /\ ops \in 0..MaxOps /\ faults \in 0..MaxFaults
  /\ agreed \in Partial(Keys, BOOLEAN)

Init ==
  /\ manifest = Nothing /\ overlay = Nothing /\ typo = FALSE
  /\ op = [p \in Procs |-> Idle]
  /\ live = {} /\ snap = {} /\ dirty = FALSE
  /\ ops = 0 /\ faults = 0 /\ alone = TRUE /\ agreed = Nothing

-----------------------------------------------------------------------------
(* The rows at a tool's gate: its own (same matcher, own command), and the *)
(* foreign ones, which run something else.                                 *)
Own(t) == {k \in Keys : GateOf[k] = GateOf[t] /\ CmdOf[k] = t}
Foreign(t) == {k \in Keys : GateOf[k] = GateOf[t] /\ CmdOf[k] # t}
Rivals(t) == {s \in Tools \ {t} : GateOf[s] = GateOf[t]}

(* The answers an operation makes stale while it runs: those about its own *)
(* row, and about every switch at that gate.                               *)
Touched(k) == {k} \cup {t \in Tools : GateOf[t] = GateOf[k]}
                  \cup IF k \in Tools THEN Own(k) ELSE {}

(* Whether a row gates, by what the handler has read (effectiveEnabled);   *)
(* only rows with an id have a key in the overlay (reconcileOverlay).      *)
FlagOn(o, k) == o.raw[k]
IsOn(o, k) == Enabled(o.raw, o.seen, k)

StateKey(o, k) == k

Busy == {p \in Procs : op[p] # Idle}

(* An operation starts in its process.                                     *)
Begin(p, kind, k, want) ==
  /\ op[p] = Idle /\ ops < MaxOps
  /\ alone' = (alone /\ Busy = {}) /\ (alone' \/ ops < MaxMixed)
  /\ op' = [op EXCEPT ![p] =
       [at |-> IF kind = "switch" THEN "read" ELSE "load", kind |-> kind,
        key |-> k, want |-> want, mem |-> Nothing, raw |-> Nothing,
        seen |-> Nothing]]
  /\ ops' = ops + 1
  /\ agreed' = IF alone' THEN Without(agreed, Touched(k)) ELSE Nothing
  /\ UNCHANGED <<storeVars, gatewayVars, faults>>

(* Who starts what: the two scripts, each run in a process of its own, the *)
(* two handlers of the Hooks tab and the per-tool switch of the Tools tab. *)
TfHookAdd(p) ==
  p \in Scripts /\ \E k \in Ids, want \in BOOLEAN : Begin(p, "add", k, want)
TfHookSet(p) ==
  /\ p \in Scripts
  /\ \E k \in Ids : \/ \E want \in BOOLEAN : Begin(p, "set", k, want)
                    \/ Begin(p, "remove", k, FALSE)
ApiHookAdd == \E k \in Ids, want \in BOOLEAN : Begin(UI, "add", k, want)
ApiHookState ==
  \E k \in Ids : \/ \E want \in BOOLEAN : Begin(UI, "set", k, want)
               \/ Begin(UI, "remove", k, FALSE)
ApiSetHook == \E t \in Tools, on \in BOOLEAN : Begin(UI, "switch", t, on)

(* An answer: nothing is promised of operations that overlap.              *)
Answer(p, said) ==
  /\ op' = [op EXCEPT ![p] = Idle]
  /\ agreed' = IF alone THEN Over(said, agreed) ELSE Nothing
Refuse(p) == Answer(p, Nothing)
Goto(p, at) == op' = [op EXCEPT ![p].at = at] /\ UNCHANGED agreed

(* loadManifest: a manifest that does not parse throws, and the caller     *)
(* answers with the error.                                                 *)
Load(p) ==
  /\ op[p].at = "load"
  /\ IF typo THEN Refuse(p)
     ELSE /\ op' = [op EXCEPT ![p].at = "apply", ![p].mem = manifest]
          /\ UNCHANGED agreed
  /\ UNCHANGED <<storeVars, gatewayVars, countVars>>

(* Then the overlay is laid over it (applyStateOverlay).  The UI refuses a *)
(* toggle of an id it does not find in what it has loaded.                 *)
ApplyOverlay(p) ==
  LET o == op[p] IN
  /\ o.at = "apply"
  /\ IF p = UI /\ o.kind = "set" /\ o.key \notin DOMAIN o.mem
     THEN Refuse(p)
     ELSE /\ op' = [op EXCEPT ![p].at = "read",
                              ![p].mem = [k \in DOMAIN o.mem |-> Enabled(o.mem, overlay, k)]]
          /\ UNCHANGED agreed
  /\ UNCHANGED <<storeVars, gatewayVars, countVars>>

(* The raw manifest is read again.  If it has stopped parsing since, the   *)
(* loader falls back to its own copy, and the switch, which has none, to   *)
(* an empty manifest (readManifest), which then replaces the broken file.  *)
(* addEntry rejects an id it finds.                                        *)
LoaderReads(o) == IF typo THEN o.mem ELSE manifest
SwitchReads == IF typo THEN Nothing ELSE manifest
Read(p) ==
  LET o == op[p]
      raw == IF o.kind = "switch" THEN SwitchReads ELSE LoaderReads(o)
  IN /\ o.at = "read"
     /\ IF o.kind = "add" /\ o.key \in DOMAIN raw
        THEN Refuse(p)
        ELSE /\ op' = [op EXCEPT ![p].raw = raw,
                         ![p].at = IF o.kind = "switch" THEN "peek" ELSE "write"]
             /\ UNCHANGED agreed
     /\ UNCHANGED <<storeVars, gatewayVars, countVars>>

Put(m) == manifest' = m /\ typo' = FALSE /\ dirty' = TRUE
Keep == UNCHANGED <<manifest, typo, dirty>>

(* setEnabled mirrors the flag into the row, if there is one; without a    *)
(* row on disk or in memory it has nothing to do and says so.              *)
WriteSet(p) ==
  LET o == op[p]
      row == o.key \in DOMAIN o.raw
  IN /\ o.kind = "set"
     /\ IF row THEN Put([o.raw EXCEPT ![o.key] = o.want]) ELSE Keep
     /\ IF row \/ o.key \in DOMAIN o.mem THEN Goto(p, "state") ELSE Refuse(p)

(* addEntry appends the row and leaves the overlay alone: a key left there *)
(* by an earlier row of that id decides, whatever the answer says.  A      *)
(* script body that cannot be written afterwards takes the entry back      *)
(* (removeEntry).                                                          *)
WriteAdd(p) ==
  LET o == op[p]
  IN /\ o.kind = "add"
     /\ Put(With(o.raw, o.key, o.want))
     /\ \/ Answer(p, Just(o.key, o.want))
        \/ /\ op' = [op EXCEPT ![p].at = "read", ![p].kind = "undo",
                               ![p].mem = With(o.mem, o.key, o.want)]
           /\ UNCHANGED agreed

(* removeEntry rewrites the manifest if the row is there.                  *)
WriteRemove(p) ==
  LET o == op[p] IN
  /\ o.kind \in {"remove", "undo"}
  /\ IF o.key \in DOMAIN o.raw THEN Put(Without(o.raw, {o.key})) ELSE Keep
  /\ Goto(p, "state")

(* The per-tool switch, ON: an own row is enabled unless the overlay says  *)
(* it is; without one, an enabled foreign row is left to do the job, a     *)
(* disabled one refuses, and otherwise the row is authored.  A gate name   *)
(* shared with a tool that owns it by id is refused.                       *)
WriteOn(p) ==
  LET o == op[p]
      own == Own(o.key) \cap DOMAIN o.raw
      foreign == Foreign(o.key) \cap DOMAIN o.raw
      on == Just(o.key, TRUE)
  IN /\ o.kind = "switch" /\ o.want
     /\ \/ /\ Rivals(o.key) # {} /\ GateOf[o.key] # o.key
           /\ Keep /\ Refuse(p)
        \/ /\ Rivals(o.key) = {} \/ GateOf[o.key] = o.key
           /\ \/ \E k \in own :
                   IF IsOn(o, k)
                   THEN Keep /\ Answer(p, on)
                   ELSE /\ Put([o.raw EXCEPT ![k] = TRUE])
                        /\ IF k \in Ids
                           THEN op' = [op EXCEPT ![p].at = "save",
                                         ![p].seen = With(o.seen, StateKey(o, k), TRUE)]
                                /\ UNCHANGED agreed
                           ELSE Answer(p, on)
              \/ /\ own = {}
                 /\ \E k \in foreign :
                      Keep /\ IF IsOn(o, k) THEN Answer(p, on)
                              ELSE Refuse(p)
              \/ /\ own \cup foreign = {}
                 /\ Put(With(o.raw, o.key, TRUE)) /\ Answer(p, on)

(* OFF removes the tool's own rows, and the overlay keys of those that     *)
(* have an id.  It never refuses: in a manifest that does not parse it     *)
(* finds none, and answers off.                                            *)
WriteOff(p) ==
  LET o == op[p]
      own == Own(o.key) \cap DOMAIN o.raw
  IN /\ o.kind = "switch" /\ ~o.want
     /\ IF own = {} THEN Keep /\ Answer(p, Just(o.key, FALSE))
        ELSE /\ Put(Without(o.raw, own))
             /\ IF own \cap Ids = {} THEN Answer(p, Just(o.key, FALSE))
                ELSE /\ op' = [op EXCEPT ![p].at = "save",
                                         ![p].seen = Without(o.seen, own)]
                     /\ UNCHANGED agreed

Write(p) ==
  /\ op[p].at = "write"
  /\ WriteSet(p) \/ WriteAdd(p) \/ WriteRemove(p) \/ WriteOn(p) \/ WriteOff(p)
  /\ UNCHANGED <<overlay, live, snap, countVars>>

(* The overlay is read: by the switch before it decides, by setEnabled and *)
(* removeEntry after they have written the manifest.  removeEntry is done  *)
(* if it holds no key for the row.                                         *)
ReadState(p) ==
  LET o == op[p] IN
  /\ o.at \in {"peek", "state"}
  /\ IF o.kind \in {"remove", "undo"} /\ o.key \notin DOMAIN overlay
     THEN Answer(p, Just(o.key, FALSE))
     ELSE /\ op' = [op EXCEPT
               ![p].at = IF o.at = "peek" THEN "write" ELSE "save",
               ![p].seen = CASE o.kind = "set" -> With(overlay, o.key, o.want)
                             [] o.kind = "switch" -> overlay
                             [] OTHER -> Without(overlay, {o.key})]
          /\ UNCHANGED agreed
  /\ UNCHANGED <<storeVars, gatewayVars, countVars>>

(* The overlay is replaced, whole, by what was read and changed.           *)
WriteStateMerged(p) ==
  LET o == op[p] IN
  /\ o.at = "save"
  /\ overlay' = Over(o.seen, overlay) /\ dirty' = TRUE
  /\ Answer(p, Just(o.key, o.kind \in {"set", "switch"} /\ o.want))
  /\ UNCHANGED <<manifest, typo, live, snap, countVars>>

WriteState(p) ==
  LET o == op[p] IN
  /\ o.at = "save"
  /\ overlay' = o.seen /\ dirty' = TRUE
  /\ Answer(p, Just(o.key, o.kind \in {"set", "switch"} /\ o.want))
  /\ UNCHANGED <<manifest, typo, live, snap, countVars>>

(* The writer dies, or its write fails and it answers with an error.       *)
Abort(p) ==
  /\ op[p].at \in {"write", "save"} /\ faults < MaxFaults
  /\ faults' = faults + 1 /\ Refuse(p)
  /\ UNCHANGED <<storeVars, gatewayVars, ops, alone>>

(* The operator edits the manifest in an editor: takes a row out, or saves *)
(* it with a typing error, which a later save puts right.                  *)
EditRow(k) ==
  /\ faults < MaxFaults /\ k \in DOMAIN manifest
  /\ manifest' = Without(manifest, {k}) /\ dirty' = TRUE
  /\ faults' = faults + 1 /\ alone' = (alone /\ Busy = {})
  /\ agreed' = IF alone' THEN Without(agreed, Touched(k) \cup {CmdOf[k]}) ELSE Nothing
  /\ UNCHANGED <<typo, overlay, op, live, snap, ops>>
EditTypo ==
  /\ typo \/ faults < MaxFaults
  /\ typo' = ~typo /\ dirty' = TRUE
  /\ faults' = IF typo THEN faults ELSE faults + 1
  /\ alone' = (alone /\ Busy = {})
  /\ agreed' = IF alone' THEN agreed ELSE Nothing
  /\ UNCHANGED <<manifest, overlay, op, live, snap, ops>>

(* The gateway's debounced reload (reloadHooks): loadManifest reads first  *)
(* the manifest, then the overlay.  A manifest that does not parse leaves  *)
(* the engine as it was.                                                   *)
ReloadRead ==
  /\ dirty /\ snap = {}
  /\ dirty' = FALSE
  /\ snap' = IF typo THEN {} ELSE {manifest}
  /\ UNCHANGED <<storeVars, op, live, countVars, agreed>>
ReloadApplyAll ==
  /\ snap # {}
  /\ \E m \in snap : live' = Effective(m, overlay)
  /\ snap' = {} /\ dirty' = FALSE
  /\ UNCHANGED <<storeVars, op, countVars, agreed>>

ReloadApply ==
  /\ \E m \in snap : live' = Effective(m, overlay)
  /\ snap' = {}
  /\ UNCHANGED <<storeVars, op, dirty, countVars, agreed>>

Step(p) == Load(p) \/ ApplyOverlay(p) \/ Read(p) \/ ReadState(p) \/ Write(p) \/ WriteState(p)
Edit == EditTypo \/ \E k \in Keys : EditRow(k)
Next ==
  \/ \E p \in Procs : TfHookAdd(p) \/ TfHookSet(p)
  \/ ApiHookAdd \/ ApiHookState \/ ApiSetHook
  \/ \E p \in Procs : Step(p) \/ Abort(p)
  \/ Edit \/ ReloadRead \/ ReloadApply

Spec == Init /\ [][Next]_vars

(* Fairness: a process that runs goes on, and a watcher with a change to   *)
(* report fires, by the directory event or by the poll of the file.        *)
FairSpec ==
  /\ Spec
  /\ \A p \in Procs : WF_vars(Step(p))
  /\ WF_vars(ReloadRead) /\ WF_vars(ReloadApply)
-----------------------------------------------------------------------------
Said(k) ==
  IF k \in Ids
  THEN agreed[k] <=> k \in Effective(manifest, overlay)
  ELSE IF agreed[k]
       THEN \E j \in Effective(manifest, overlay) : GateOf[j] = GateOf[k]
       ELSE Own(k) \cap DOMAIN manifest = {}

(* Two answers do not stand.  A hook added over a key that an earlier row  *)
(* of its id left in the overlay is what that key says, not what the       *)
(* answer says of it; and the per-tool switch, which takes a manifest it   *)
(* cannot parse for an empty one, answers off over it or replaces it by    *)
(* its own row, whatever was agreed of the others.                         *)
AddedOverKey(k) ==
  \E p \in Busy : /\ op[p].at = "write" /\ op[p].kind = "add" /\ op[p].key = k
                  /\ k \in DOMAIN overlay /\ op'[p] # op[p]
SwitchedUnread(k) ==
  \E p \in Busy : /\ op[p].at = "write" /\ op[p].kind = "switch" /\ typo
                  /\ ~typo' \/ op[p].key = k
                  /\ op'[p] # op[p]
Stands ==
  \A k \in DOMAIN agreed' :
    (k \in DOMAIN agreed => Said(k)) => Said(k)' \/ AddedOverKey(k) \/ SwitchedUnread(k)

(* What an operation that met no other answers is so when it answers, and  *)
(* stays true of what any later load sees, whatever is toggled, added,     *)
(* removed, abandoned half-way or edited elsewhere: a hook is on or off or *)
(* gone, a tool whose switch is on is gated, and one whose switch is off   *)
(* has no row of its own (setEnabled, addEntry, removeEntry, apiSetHook).  *)
(* Only the two answers above are not so.                                  *)
AnswersStand == [][Stands]_vars

(* Without faults, and between operations, the overlay has keys only of    *)
(* rows there are: a stray key would decide over a later hook of that id.  *)
NoStrayKeys ==
  (alone /\ faults = 0 /\ Busy = {}) => DOMAIN overlay \subseteq DOMAIN manifest

(* Once the writers are done the gateway runs exactly the hooks the two    *)
(* files enable, though it reads them one after the other between their    *)
(* writes; a manifest that does not parse keeps the engine it has.         *)
GatewayFollows == <>[](typo \/ live = Effective(manifest, overlay))

(* What it rests on at every moment, writers under way or not: the gateway *)
(* runs what the files enable, or its watchers have a change to report, or *)
(* it is about to apply a manifest it has read that is the one on disk.    *)
NothingMissed ==
  dirty \/ typo \/ snap = {manifest} \/ (snap = {} /\ live = Effective(manifest, overlay))

-----------------------------------------------------------------------------
(* The inductive invariant.                                                *)

(* What an operation can be about, and the steps it goes through.          *)
OpShape(o) ==
  /\ o.kind = "switch" <=> o.key \in Tools
  /\ o.at \in {"load", "apply"} => o.kind \notin {"switch", "undo"}
  /\ o.at = "peek" => o.kind = "switch"
  /\ o.at = "state" => o.kind \in {"set", "remove", "undo"}
  /\ o.at = "save" => o.kind # "add"

(* What an operation that met no other knows of the two files: until it    *)
(* writes, what it has read is what they hold; between its two writes the  *)
(* manifest is ahead of the overlay by its own row, and the overlay it is  *)
(* about to write settles just that.                                       *)
Settled(o) ==
  /\ o.kind = "set" => o.key \in DOMAIN manifest /\ o.seen = With(overlay, o.key, o.want)
  /\ o.kind = "switch" /\ o.want =>
       \E k \in Own(o.key) \cap Ids \cap DOMAIN manifest : o.seen = With(overlay, k, TRUE)
  /\ o.kind = "switch" /\ ~o.want =>
       /\ Own(o.key) \cap DOMAIN manifest = {}
       /\ \E S \in SUBSET Own(o.key) : o.seen = Without(overlay, S)
  /\ o.kind \in {"remove", "undo"} =>
       o.key \notin DOMAIN manifest /\ o.seen = Without(overlay, {o.key})
Knows(o) ==
  /\ o.kind # "switch" /\ o.at # "load" => ~typo
  /\ o.at \in {"peek", "write"} => o.raw = IF typo THEN Nothing ELSE manifest
  /\ o.kind = "switch" /\ o.at = "write" => o.seen = overlay
  /\ o.kind = "set" /\ o.at # "load" => DOMAIN o.mem = DOMAIN manifest
  /\ o.kind = "set" /\ o.at = "state" => o.key \in DOMAIN manifest
  /\ o.kind \in {"remove", "undo"} /\ o.at = "state" => o.key \notin DOMAIN manifest
  /\ o.at = "save" => Settled(o)

(* No answer stands about what it touches.                                 *)
Untold(o) == DOMAIN agreed \cap Touched(o.key) = {}

(* Without faults the overlay is ahead of the manifest only by the row     *)
(* that is being removed, and what is about to be saved is not.            *)
Strays(o) == IF o.kind \in {"remove", "undo"} THEN {o.key} ELSE {}
Tidy(o) ==
  /\ o.at # "save" => DOMAIN overlay \subseteq DOMAIN manifest \cup IF o.at = "state" THEN Strays(o) ELSE {}
  /\ o.at = "save" => DOMAIN o.seen \subseteq DOMAIN manifest

HookInv ==
  /\ TypeOK
  /\ \A p \in Busy : OpShape(op[p])
  /\ ~alone => agreed = Nothing
  /\ alone => /\ \A p, q \in Busy : p = q
              /\ \A p \in Busy : Knows(op[p]) /\ Untold(op[p])
  /\ alone /\ faults = 0 => /\ ~typo
                            /\ Busy = {} => DOMAIN overlay \subseteq DOMAIN manifest
                            /\ \A p \in Busy : Tidy(op[p])
=============================================================================
