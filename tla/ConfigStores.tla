----------------------------- MODULE ConfigStores -----------------------------
(***************************************************************************)
(* The other files of a config home: the register of local tools           *)
(* (src/tools/registry.js), expose.json with the upstreams and the aliases *)
(* of their tools (src/mcp/expose-store.js), the curation overlay          *)
(* tools.state.json (src/tools/tool-state.js), the scripts, and the gates  *)
(* of the hook manifest, which a rename must carry along                   *)
(* (src/core/rename-migration.js).  The manager UI, the tf_* scripts and   *)
(* `toolfunnel wrap` change them, each in a process of its own that reads  *)
(* and renames file after file and may die between two.                    *)
(*                                                                         *)
(* A gate is a hook whose matcher is the literal of a name.  Flags other   *)
(* than enabled and hot behave as hot does and are left out.               *)
(***************************************************************************)
EXTENDS Integers, FiniteSets

CONSTANTS Locals,     \* ids of tools of the register
          Remotes,    \* tools of upstreams
          Ups,        \* ids of upstreams
          UpOf,       \* the upstream of a remote tool
          Default,    \* the name <upstream>_<tool> of a remote tool
          Names,      \* surfaced names
          RegexNames, \* the names a hand-written matcher matches
          UI,         \* the manager UI, which runs one handler at a time
          Scripts,    \* tf_* and command-line processes
          None,
          MaxOps, MaxMixed,   \* bounds, as in HookStore
          MaxFaults   \* bound: crashes and typing errors before any overlap

Tools == Locals \cup Remotes
Procs == Scripts \cup {UI}

ASSUME ConfigSets == /\ Locals \subseteq Names /\ Locals \cap Remotes = {}
                     /\ UpOf \in [Remotes -> Ups] /\ RegexNames \subseteq Names
                     /\ Default \in [Remotes -> Names]
                     /\ UI \notin Scripts /\ None \notin Ups \cup Tools \cup Names
ASSUME ConfigBounds == /\ MaxOps \in Nat /\ MaxFaults \in Nat
                       /\ MaxMixed \in 0..MaxOps

VARIABLES
  register,  \* tools.register.json: the names of the registered tools
  store,     \* expose.json: upstreams and if they are enabled; aliases
  state,     \* tools.state.json: flags by key, and the wrap
  scripts,   \* the script body at each local tool's path
  gates,     \* the names that carry a gate in hooks.manifest.json
  row,       \* a hand-written matcher there: none, a regex, or broken
  bad,       \* the files that do not parse
  op,        \* per process, the operation it runs
  ops, faults,
  apart,       \* history: no two operations on one file have overlapped
  gated, off,  \* history: tools the operator gated, and switched off
  loose,       \* history: tools that shared a name, moved past a bad file,
               \* or were renamed half way to a name that lost its policy
  torn         \* history: renames <<tool, name>> that died half way

files == <<register, store, state, scripts, gates>>
diskVars == <<files, row, bad>>
countVars == <<ops, faults, apart>>
policyVars == <<gated, off, loose, torn>>
vars == <<diskVars, op, countVars, policyVars>>

Partial(S, T) == UNION {[R -> T] : R \in SUBSET S}
Without(f, S) == [k \in DOMAIN f \ S |-> f[k]]
With(f, k, v) == [j \in DOMAIN f \cup {k} |-> IF j = k THEN v ELSE f[j]]
Entry == [as : Names, on : BOOLEAN]
Flags == [on : {"unset", "yes", "no"}, hot : BOOLEAN]
Unset == [on |-> "unset", hot |-> FALSE]

Register == Partial(Locals, Names)
Store == [ups : Partial(Ups, BOOLEAN), expose : Partial(Remotes, Entry)]
State == [flags : Partial(Names, Flags), wrap : Ups \cup {None}]
EmptyState == [flags |-> [k \in {} |-> Unset], wrap |-> None]

Bodies == {"none", "old", "new"}
Files == Register \X Store \X State \X [Locals -> Bodies] \X SUBSET Names

Idle == [at |-> "idle"]
RegistryKinds == {"toolAdd", "toolUpdate", "toolRemove"}
ExposeKinds == {"addExpose", "updateExpose", "removeExpose"}
Kinds == RegistryKinds \cup ExposeKinds
           \cup {"toggle", "mcpAdd", "mcpSet", "mcpRemove", "wrap"}
Op == [at : {"load", "script", "restore", "plan", "hooks", "state", "save",
             "read", "write", "refused"},
       kind : Kinds, tool : Tools \cup {None}, up : Ups \cup {None},
       name : Names \cup {None}, on : BOOLEAN, hot : BOOLEAN, text : BOOLEAN,
       live : BOOLEAN,    \* an added upstream is enabled
       reg : Register, sto : Store, sta : State, gat : SUBSET Names,
       prior : Bodies,    \* the script found in the slot
       found : {None} \cup Files]  \* what a refusal must leave behind

(* The type invariant: five files, one operation per process, a gateway.   *)
TypeOK ==
  /\ register \in Register
  /\ store \in Store
  /\ state \in State /\ scripts \in [Locals -> Bodies]
  /\ gates \in SUBSET Names /\ row \in {"none", "regex", "broken"}
  /\ bad \in SUBSET {"register", "store", "state", "hooks"}
  /\ op \in [Procs -> Op \cup {Idle}]
  /\ ops \in 0..MaxOps /\ faults \in 0..MaxFaults /\ apart \in BOOLEAN
  /\ gated \in SUBSET Tools /\ off \in SUBSET Tools /\ loose \in SUBSET Tools
  /\ torn \in SUBSET (Tools \X Names)

-----------------------------------------------------------------------------
(* The name an entry surfaces a tool under (surfacedOf): its alias while   *)
(* the entry is enabled, else the default.                                 *)
SurfacedOf(s, x) ==
  IF x \in DOMAIN s.expose /\ s.expose[x].on THEN s.expose[x].as ELSE Default[x]

Present(r, s) == DOMAIN r \cup {x \in Remotes : UpOf[x] \in DOMAIN s.ups}
Surfaced(r, s, t) == IF t \in Locals THEN r[t] ELSE SurfacedOf(s, t)
(* The overlay keys a local tool by its id, a remote one by its name.      *)
KeyOf(r, s, t) == IF t \in Locals THEN t ELSE SurfacedOf(s, t)

(* Tools that share a name or a key: nothing in the stores refuses that.   *)
Sharing(r, s) ==
  {t \in Present(r, s) : \E u \in Present(r, s) \ {t} :
     \/ Surfaced(r, s, t) = Surfaced(r, s, u)
     \/ KeyOf(r, s, t) = KeyOf(r, s, u)}

(* A configured home: tools registered, upstreams attached, no aliases,    *)
(* gates or switches yet, perhaps a matcher written by hand.               *)
Init ==
  /\ register = [t \in Locals |-> t]
  /\ store = [ups |-> [u \in Ups |-> TRUE], expose |-> [x \in {} |-> Unset]]
  /\ state = EmptyState /\ scripts = [t \in Locals |-> "old"]
  /\ gates = {} /\ row \in {"none", "regex", "broken"} /\ bad = {}
  /\ op = [p \in Procs |-> Idle]
  /\ ops = 0 /\ faults = 0 /\ apart = TRUE
  /\ gated = {} /\ off = {} /\ loose = Sharing(register, store) /\ torn = {}

Busy == {p \in Procs : op[p] # Idle}

Blank == [at |-> "load", kind |-> "toggle", tool |-> None, up |-> None,
          name |-> None, on |-> FALSE, hot |-> FALSE, text |-> FALSE, live |-> TRUE,
          reg |-> [t \in {} |-> None], sto |-> [ups |-> [u \in {} |-> TRUE],
          expose |-> [x \in {} |-> Unset]], sta |-> EmptyState, gat |-> {},
          prior |-> "none", found |-> None]

(* The files an operation reads or writes.                                 *)
Touches(kind) ==
  CASE kind = "toolAdd" -> {"register"}
    [] kind = "toolUpdate" -> {"register", "hooks"}
    [] kind = "toolRemove" -> {"register", "state"}
    [] kind = "toggle" -> {"state"}
    [] kind \in {"mcpSet", "mcpRemove", "wrap"} -> {"store", "state"}
    [] OTHER -> {"store", "state", "hooks"}

(* An operation starts.  Of two that overlap on a file nothing is          *)
(* promised, and the history is dropped.                                   *)
Begin(p, o) ==
  /\ op[p] = Idle /\ ops < MaxOps /\ ops' = ops + 1
  /\ apart' = (apart /\ \A q \in Busy : Touches(op[q].kind) \cap Touches(o.kind) = {})
  /\ apart' \/ ops < MaxMixed
  /\ op' = [q \in Procs |->
              IF q = p THEN [o EXCEPT !.found = IF Busy = {} THEN files ELSE None]
              ELSE IF op[q] = Idle THEN Idle ELSE [op[q] EXCEPT !.found = None]]
  /\ IF apart' THEN UNCHANGED policyVars
     ELSE gated' = {} /\ off' = {} /\ loose' = Tools /\ torn' = {}
  /\ UNCHANGED <<diskVars, faults>>

(* The handlers of the manager UI.                                         *)
ApiToolAdd ==
  \E t \in Locals, n \in Names, text \in BOOLEAN :
    Begin(UI, [Blank EXCEPT !.kind = "toolAdd", !.tool = t, !.name = n, !.text = text])
ApiToolRemove ==
  \E t \in Locals : Begin(UI, [Blank EXCEPT !.kind = "toolRemove", !.tool = t])
ApiToolUpdate ==
  \E t \in Locals, n \in Names, text \in BOOLEAN :
    Begin(UI, [Blank EXCEPT !.kind = "toolUpdate", !.tool = t, !.name = n, !.text = text])
(* apiToolMode patches the mode: an update that keeps the name.            *)
ApiToolMode ==
  \E t \in Locals : Begin(UI, [Blank EXCEPT !.kind = "toolUpdate", !.tool = t])
ToggleOp(k, hot, on) ==
  [Blank EXCEPT !.at = "read", !.kind = "toggle", !.name = k, !.hot = hot, !.on = on]
ApiSetState ==
  \E k \in Names, hot \in BOOLEAN, on \in BOOLEAN : Begin(UI, ToggleOp(k, hot, on))
(* Alias None: attach the upstream and expose nothing.  The upstream may   *)
(* be added disabled, whatever becomes of the alias.                       *)
McpAddOp(x, n, on, live) ==
  [Blank EXCEPT !.kind = "mcpAdd", !.up = UpOf[x], !.name = n, !.on = on,
                  !.live = live, !.tool = IF n = None THEN None ELSE x]
ApiMcpAdd ==
  \E x \in Remotes, n \in Names \cup {None}, on \in BOOLEAN, live \in BOOLEAN :
    (n = None => on) /\ Begin(UI, McpAddOp(x, n, on, live))
(* Pin and unpin rewrite the upstream's entry and change nothing else here.*)
McpSetOp(u, kind, on) == [Blank EXCEPT !.kind = kind, !.up = u, !.on = on]
ApiMcpState ==
  \E u \in Ups : \/ \E on \in BOOLEAN : Begin(UI, McpSetOp(u, "mcpSet", on))
                 \/ Begin(UI, McpSetOp(u, "mcpRemove", FALSE))
WrapOp(u) ==
  [Blank EXCEPT !.at = IF u = None THEN "read" ELSE "load", !.kind = "wrap", !.up = u]
ApiWrap == \E u \in Ups \cup {None} : Begin(UI, WrapOp(u))

(* The scripts and the command line, each run a process of its own.        *)
TfToolAdd(p) ==
  \E t \in Locals, n \in Names, text \in BOOLEAN :
    Begin(p, [Blank EXCEPT !.kind = "toolAdd", !.tool = t, !.name = n, !.text = text])
TfToolSet(p) ==
  \/ \E t \in Locals : Begin(p, [Blank EXCEPT !.kind = "toolRemove", !.tool = t])
  \/ \E k \in Names, hot \in BOOLEAN, on \in BOOLEAN : Begin(p, ToggleOp(k, hot, on))
TfMcpAdd(p) ==
  \E x \in Remotes, n \in Names \cup {None}, on \in BOOLEAN, live \in BOOLEAN :
    (n = None => on) /\ Begin(p, McpAddOp(x, n, on, live))
TfMcpSet(p) ==
  \E u \in Ups : \/ \E on \in BOOLEAN : Begin(p, McpSetOp(u, "mcpSet", on))
                 \/ Begin(p, McpSetOp(u, "mcpRemove", FALSE))
TfWrap(p) == \E u \in Ups \cup {None} : Begin(p, WrapOp(u))
CliWrap(p) == \E u \in Ups \cup {None} : Begin(p, WrapOp(u))
(* The store's own operations on an entry, which no front end offers yet.  *)
EditExpose(p) ==
  \E x \in Remotes :
    \/ \E n \in Names, on \in BOOLEAN, k \in {"updateExpose", "addExpose"} :
         Begin(p, [Blank EXCEPT !.kind = k, !.tool = x, !.name = n, !.on = on])
    \/ Begin(p, [Blank EXCEPT !.kind = "removeExpose", !.tool = x])

-----------------------------------------------------------------------------
Becomes(p, o) == op' = [op EXCEPT ![p] = o]
Goto(p, at) == Becomes(p, [op[p] EXCEPT !.at = at])
Done(p) == Becomes(p, Idle)
Refuse(p) ==
  Becomes(p, [Blank EXCEPT !.at = "refused", !.kind = op[p].kind, !.found = op[p].found])
Answered(p) ==
  /\ op[p].at = "refused" /\ Done(p)
  /\ UNCHANGED <<diskVars, countVars, policyVars>>

(* The names a rename retires and installs, and whether there is one.      *)
OldName(o) == Surfaced(o.reg, o.sto, o.tool)
NewName(o) == CASE o.kind = "toolUpdate" -> o.name
                [] o.kind = "removeExpose" -> Default[o.tool]
                [] OTHER -> IF o.on THEN o.name ELSE Default[o.tool]
Renames(o) ==
  /\ \/ o.kind \in ExposeKinds
     \/ o.kind = "toolUpdate" /\ o.name # None
  /\ OldName(o) # NewName(o)
Forward(o) == IF Renames(o) THEN "plan" ELSE "save"

(* What each operation of the two stores checks before it does anything.   *)
RegistryRejects(o) ==
  \/ o.kind \in {"toolUpdate", "toolRemove"} /\ o.tool \notin DOMAIN register
  \/ o.kind = "toolAdd" /\ ~o.text /\ o.tool \in DOMAIN register
ExposeRejects(o) ==
  \/ o.kind = "mcpAdd" /\ o.up \in DOMAIN store.ups
  \/ o.kind \in {"mcpSet", "mcpRemove", "wrap"} /\ o.up \notin DOMAIN store.ups
  \/ o.kind = "wrap" /\ o.up \in DOMAIN store.ups /\ ~store.ups[o.up]
  \/ o.kind = "addExpose" /\ \/ UpOf[o.tool] \notin DOMAIN store.ups
                             \/ o.tool \in DOMAIN store.expose
  \/ o.kind \in {"updateExpose", "removeExpose"} /\ o.tool \notin DOMAIN store.expose

(* loadRegistry and loadExposeStore: a file that does not parse throws.    *)
LoadRegistry(p) ==
  /\ op[p].at = "load" /\ op[p].kind \in RegistryKinds
  /\ LET o == [op[p] EXCEPT !.reg = register] IN
     IF "register" \in bad \/ RegistryRejects(o) THEN Refuse(p)
     ELSE Becomes(p, [o EXCEPT !.at = IF o.text THEN "script" ELSE Forward(o)])
  /\ UNCHANGED <<diskVars, countVars, policyVars>>
LoadExposeStore(p) ==
  /\ op[p].at = "load" /\ op[p].kind \notin RegistryKinds
  /\ LET o == [op[p] EXCEPT !.sto = store] IN
     IF "store" \in bad \/ ExposeRejects(o) THEN Refuse(p)
     ELSE Becomes(p, [o EXCEPT !.at = IF o.kind = "wrap" THEN "read" ELSE Forward(o)])
  /\ UNCHANGED <<diskVars, countVars, policyVars>>

(* The script body is written before the entry is looked at.  An entry     *)
(* that is then refused, for its id or its shape, makes the UI's add put   *)
(* the slot back; tf_tool_add and the update leave the new body there.     *)
TakesBack(p, o) == p = UI /\ o.kind = "toolAdd"
WriteScript(p) ==
  /\ op[p].at = "script"
  /\ LET o == [op[p] EXCEPT !.prior = scripts[op[p].tool],
                            !.found = IF TakesBack(p, op[p]) THEN @ ELSE None]
     IN
     /\ scripts' = [scripts EXCEPT ![o.tool] = "new"]
     /\ \/ TakesBack(p, o) /\ Becomes(p, [o EXCEPT !.at = "restore"])
        \/ ~TakesBack(p, o)
           /\ Becomes(p, [Blank EXCEPT !.at = "refused", !.kind = o.kind])
        \/ /\ ~(o.kind = "toolAdd" /\ o.tool \in DOMAIN o.reg)
           /\ Becomes(p, [o EXCEPT !.at = Forward(o)])
     /\ UNCHANGED <<register, store, state, gates, row, bad,
                    countVars, policyVars>>
RemoveScript(p) ==
  /\ op[p].at = "restore"
  /\ scripts' = [scripts EXCEPT ![op[p].tool] = "none"] /\ Refuse(p)
  /\ UNCHANGED <<register, store, state, gates, row, bad, countVars, policyVars>>
RestoreScript(p) ==
  /\ op[p].at = "restore"
  /\ scripts' = [scripts EXCEPT ![op[p].tool] = op[p].prior] /\ Refuse(p)
  /\ UNCHANGED <<register, store, state, gates, row, bad,
                 countVars, policyVars>>

(* migrateSurfacedName, phase A: both files are read and the rename is     *)
(* refused if a matcher fires for the old name that is not its literal, or *)
(* cannot be compiled, or if the new key holds other curation: entries are *)
(* compared as JSON text, so that equal flags written in another order are *)
(* refused too.  A file that does not parse has nothing to migrate.  Only  *)
(* remote tools have their overlay under the name.                         *)
MovesByName(o) == OldName(o) \in DOMAIN o.sta.flags
Moves(o) == o.tool \in Remotes /\ OldName(o) \in DOMAIN o.sta.flags
Blocked(o) ==
  /\ "hooks" \notin bad
  /\ row = "broken" \/ (row = "regex" /\ OldName(o) \in RegexNames)
TwoEntries(o) == Moves(o) /\ NewName(o) \in DOMAIN o.sta.flags
Collides(o) ==
  /\ TwoEntries(o)
  /\ o.sta.flags[NewName(o)] # o.sta.flags[OldName(o)]
AfterHooks(o) == IF Moves(o) THEN "state" ELSE "save"
PastBad(o) == "hooks" \in bad \/ ("state" \in bad /\ o.tool \in Remotes)
Plan(p) ==
  /\ op[p].at = "plan"
  /\ LET o == [op[p] EXCEPT !.gat = IF "hooks" \in bad THEN {} ELSE gates,
                            !.sta = IF "state" \in bad THEN EmptyState ELSE state]
     IN
     /\ \/ /\ Blocked(o) \/ TwoEntries(o)
           /\ Refuse(p) /\ UNCHANGED loose
        \/ /\ ~(Blocked(o) \/ Collides(o))
           /\ Becomes(p, [o EXCEPT !.at = IF OldName(o) \in o.gat THEN "hooks"
                                          ELSE AfterHooks(o)])
           /\ loose' = IF PastBad(o) THEN loose \cup {o.tool} ELSE loose
     /\ UNCHANGED <<diskVars, countVars, gated, off, torn>>

(* Phase B: the hook manifest, then the overlay, each written whole from   *)
(* what phase A read.  A rename that died half way has left its tool's     *)
(* policy at the new name: whoever takes that away loosens the tool.       *)
Stranded(n) == {t \in Tools : <<t, n>> \in torn}
WriteHooks(p) ==
  LET o == op[p] IN
  /\ o.at = "hooks"
  /\ gates' = (o.gat \ {OldName(o)}) \cup {NewName(o)} /\ bad' = bad \ {"hooks"}
  /\ Goto(p, AfterHooks(o))
  /\ loose' = loose \cup (Stranded(OldName(o)) \ {o.tool})
  /\ UNCHANGED <<register, store, state, scripts, row, countVars, gated, off, torn>>
WriteState(p) ==
  LET o == op[p] IN
  /\ o.at = "state"
  /\ state' = [o.sta EXCEPT !.flags =
                 With(Without(@, {OldName(o)}), NewName(o), @[OldName(o)])]
  /\ bad' = bad \ {"state"} /\ Goto(p, "save")
  /\ loose' = loose \cup (Stranded(OldName(o)) \ {o.tool})
  /\ UNCHANGED <<register, store, scripts, gates, row, countVars, gated, off, torn>>

(* Each operation's change of what its store held when it was loaded.      *)
NewRegister(o) ==
  CASE o.kind = "toolAdd" -> With(o.reg, o.tool, o.name)
    [] o.kind = "toolRemove" -> Without(o.reg, {o.tool})
    [] o.kind = "toolUpdate" /\ o.name # None -> [o.reg EXCEPT ![o.tool] = o.name]
    [] OTHER -> o.reg
AddUpstream(o) == [o.sto EXCEPT !.ups = With(@, o.up, o.live)]
SetUpstreamEnabled(o) == [o.sto EXCEPT !.ups[o.up] = o.on]
RemoveUpstreamOnly(o) == [o.sto EXCEPT !.ups = Without(@, {o.up})]
RemoveUpstream(o) ==
  [ups |-> Without(o.sto.ups, {o.up}),
   expose |-> Without(o.sto.expose, {x \in Remotes : UpOf[x] = o.up})]
PutExpose(o) ==
  [o.sto EXCEPT !.expose = With(@, o.tool, [as |-> o.name, on |-> o.on])]
RemoveExpose(o) == [o.sto EXCEPT !.expose = Without(@, {o.tool})]
NewStore(o) ==
  CASE o.kind = "mcpAdd" -> AddUpstream(o)
    [] o.kind = "mcpSet" -> SetUpstreamEnabled(o)
    [] o.kind = "mcpRemove" -> RemoveUpstream(o)
    [] o.kind \in {"addExpose", "updateExpose"} -> PutExpose(o)
    [] o.kind = "removeExpose" -> RemoveExpose(o)

(* What a saved store does to the operator's policy: tools that are gone   *)
(* need none, tools that share a name have no policy of their own, and a   *)
(* rename that is carried through settles the one that died.               *)
Settle(o) ==
  LET here == Present(register', store') IN
  /\ gated' = gated \cap here /\ off' = off \cap here
  /\ loose' = loose \cup Sharing(register', store')
  /\ torn' = IF o.kind \in ExposeKinds \cup {"toolUpdate"}
                 /\ NewName(o) # None
             THEN torn \ {<<o.tool, NewName(o)>>} ELSE torn

(* _persist of the register; a removal goes on to the overlay.             *)
SaveRegister(p) ==
  LET o == op[p] IN
  /\ o.at = "save" /\ o.kind \in RegistryKinds
  /\ register' = NewRegister(o) /\ bad' = bad \ {"register"}
  /\ IF o.kind = "toolRemove" THEN Goto(p, "read") ELSE Done(p)
  /\ UNCHANGED <<store, state, scripts, gates, row, countVars>>
  /\ Settle(o)

(* _persist of expose.json.  An add goes on with the alias it was given,   *)
(* for which the upstream stays if that is refused; a disabled or removed  *)
(* upstream must not stay the wrap.                                        *)
AfterSaveOfRemoval(o) ==
  CASE o.kind = "mcpRemove" -> "read"
    [] o.kind = "mcpAdd" /\ o.tool # None -> "alias"
    [] OTHER -> "idle"
AfterSave(o) ==
  CASE o.kind = "mcpRemove" \/ (o.kind = "mcpSet" /\ ~o.on) -> "read"
    [] o.kind = "mcpAdd" /\ o.tool # None -> "alias"
    [] OTHER -> "idle"
SaveStore(p) ==
  /\ op[p].at = "save" /\ op[p].kind \notin RegistryKinds
  /\ LET o == op[p]
         next == [o EXCEPT !.kind = "addExpose", !.sto = NewStore(o), !.found = None]
     IN
     /\ store' = NewStore(o) /\ bad' = bad \ {"store"}
     /\ Becomes(p, CASE AfterSave(o) = "idle" -> Idle
                      [] AfterSave(o) = "alias" -> [next EXCEPT !.at = Forward(next)]
                      [] OTHER -> [o EXCEPT !.at = "read"])
     /\ UNCHANGED <<register, state, scripts, gates, row, countVars>>
     /\ Settle(o)

(* The overlay's setters read it, and take a file that does not parse for  *)
(* an empty one, which they then write back: all curation is lost.         *)
ReadState(p) ==
  LET seen == IF "state" \in bad THEN EmptyState ELSE state
      o == op[p]
  IN /\ o.at = "read"
     /\ IF o.kind \in {"mcpSet", "mcpRemove"} /\ seen.wrap # o.up
        THEN Done(p)
        ELSE Becomes(p, [o EXCEPT !.at = "write", !.sta = seen])
     /\ off' = IF "state" \in bad THEN {} ELSE off
     /\ UNCHANGED <<diskVars, countVars, gated, loose, torn>>

(* The per-tool setters merge one flag into the tool's entry.              *)
SetTool(o) ==
  LET was == IF o.name \in DOMAIN o.sta.flags THEN o.sta.flags[o.name] ELSE Unset
  IN IF o.hot THEN [was EXCEPT !.hot = o.on]
     ELSE [was EXCEPT !.on = IF o.on THEN "yes" ELSE "no"]
ClearToolState(o) == [o.sta EXCEPT !.flags = Without(@, {o.tool})]
SetPassthrough(o, u) == [o.sta EXCEPT !.wrap = u]
NewState(o) ==
  CASE o.kind = "toggle" -> [o.sta EXCEPT !.flags = With(@, o.name, SetTool(o))]
    [] o.kind = "toolRemove" -> ClearToolState(o)
    [] o.kind = "wrap" -> SetPassthrough(o, o.up)
    [] OTHER -> SetPassthrough(o, None)
SaveState(p) ==
  LET o == op[p]
      meant == {t \in Present(register, store) : KeyOf(register, store, t) = o.name}
  IN /\ o.at = "write"
     /\ state' = NewState(o) /\ bad' = bad \ {"state"} /\ Done(p)
     /\ off' = IF o.kind # "toggle" \/ o.hot THEN off
               ELSE IF o.on \/ ~apart THEN off \ meant ELSE off \cup meant
     /\ loose' = loose \cup CASE o.kind = "toolRemove" -> Stranded(o.tool)
                              [] o.kind = "toggle" /\ ~o.hot /\ o.on -> Stranded(o.name)
                              [] OTHER -> {}
     /\ UNCHANGED <<register, store, scripts, gates, row, countVars, gated, torn>>

Step(p) ==
  \/ LoadRegistry(p) \/ LoadExposeStore(p) \/ WriteScript(p) \/ RestoreScript(p)
  \/ Plan(p) \/ WriteHooks(p) \/ WriteState(p) \/ SaveRegister(p) \/ SaveStore(p)
  \/ ReadState(p) \/ SaveState(p) \/ Answered(p)

(* The process dies, or its write fails and it answers with an error: then *)
(* the UI's add puts the script back.  A rename is torn once its migration *)
(* may have written.                                                       *)
Crash(p) ==
  LET o == op[p] IN
  /\ o.at \in {"script", "restore", "hooks", "state", "save", "write"}
  /\ apart /\ faults < MaxFaults /\ faults' = faults + 1
  /\ \/ Done(p)
     \/ TakesBack(p, o) /\ o.at = "save" /\ o.text /\ Goto(p, "restore")
  /\ torn' = IF apart /\ o.at \in {"state", "save"} /\ Renames(o)
             THEN torn \cup {<<o.tool, NewName(o)>>} ELSE torn
  /\ UNCHANGED <<diskVars, ops, apart, gated, off, loose>>

(* The switch of a hook at a tool's name, in one step: HookStore has its   *)
(* detail.  Off takes the gate from every tool of that name.               *)
SwitchGate(t, on) ==
  LET n == Surfaced(register, store, t) IN
  /\ Busy = {} /\ apart /\ "hooks" \notin bad /\ ops < MaxOps /\ ops' = ops + 1
  /\ gates' = IF on THEN gates \cup {n} ELSE gates \ {n}
  /\ gated' = IF on THEN gated \cup {t}
              ELSE {s \in gated : Surfaced(register, store, s) # n}
  /\ loose' = IF on THEN loose ELSE loose \cup Stranded(n)
  /\ UNCHANGED <<register, store, state, scripts, row, bad, op, faults, apart, off, torn>>

(* An edit by hand saves a file with a typing error, between operations,   *)
(* and a later edit mends it.                                              *)
EditTypo(f) ==
  /\ f \in bad \/ (apart /\ Busy = {} /\ faults < MaxFaults)
  /\ faults' = IF f \in bad THEN faults ELSE faults + 1
  /\ bad' = IF f \in bad THEN bad \ {f} ELSE bad \cup {f}
  /\ UNCHANGED <<files, row, op, ops, apart, policyVars>>

Next ==
  \/ ApiToolAdd \/ ApiToolRemove \/ ApiToolUpdate \/ ApiToolMode \/ ApiSetState
  \/ ApiMcpAdd \/ ApiMcpState \/ ApiWrap
  \/ \E p \in Scripts : \/ TfToolAdd(p) \/ TfToolSet(p) \/ TfMcpAdd(p)
                        \/ TfMcpSet(p) \/ TfWrap(p) \/ CliWrap(p) \/ EditExpose(p)
  \/ \E p \in Procs : Step(p) \/ Crash(p)
  \/ \E t \in Present(register, store), on \in BOOLEAN : SwitchGate(t, on)
  \/ \E f \in {"register", "store", "state", "hooks"} : EditTypo(f)

Spec == Init /\ [][Next]_vars
-----------------------------------------------------------------------------
(* Between operations, as long as no two overlapped on a file, a tool that *)
(* the operator gated still has a gate at the name it goes by now, and one *)
(* switched off still is, through every rename, alias, toggle and removal. *)
(* Excused are tools that shared their name or key with another, renames   *)
(* past a file that did not parse, and a rename that died half way, until  *)
(* the same rename has been run again, and for good if before that a gate  *)
(* or switch of the name it was to have is taken (migrateSurfacedName).    *)
PolicyFollowsTool ==
  (apart /\ Busy = {}) =>
    \A t \in Present(register, store) \ loose :
      (\A n \in Names : <<t, n>> \notin torn) =>
        /\ t \in gated => Surfaced(register, store, t) \in gates
        /\ (t \in off /\ "state" \notin bad) =>
             /\ KeyOf(register, store, t) \in DOMAIN state.flags
             /\ state.flags[KeyOf(register, store, t)].on = "no"

(* Without faults or overlaps a wrap is on an upstream that is attached    *)
(* and enabled: anything else would leave clients with no tools at all     *)
(* (setPassthrough's callers, clearWrapIfTarget, apiMcpState).  And no     *)
(* alias ever is of a tool whose upstream is gone (removeUpstream).        *)
TargetsExist ==
  /\ (apart /\ Busy = {} /\ faults = 0 /\ state.wrap # None) =>
       state.wrap \in DOMAIN store.ups /\ store.ups[state.wrap]
  /\ \A x \in DOMAIN store.expose : UpOf[x] \in DOMAIN store.ups

(* A refused operation that met no other leaves every file, scripts        *)
(* included, as it found it: a rename is refused before its first write,   *)
(* an add of the UI gives the script slot back (apiToolAdd, update,        *)
(* updateExpose).  found is None for the three that keep something: an     *)
(* upstream whose alias is refused, and a body from tf_tool_add or update. *)
RefusalLeavesNoTrace ==
  \A p \in Procs : (apart /\ op[p].at = "refused" /\ op[p].found # None) =>
                     files = op[p].found

-----------------------------------------------------------------------------
(* The inductive invariant.                                                *)
StoreKinds == ExposeKinds \cup {"mcpAdd", "mcpSet", "mcpRemove", "wrap"}
AliasesOf(s) == \A x \in DOMAIN s.expose : UpOf[x] \in DOMAIN s.ups

(* What an operation is about, and the steps it goes through.              *)
AboutShape(o) ==
  /\ o.kind \in RegistryKinds => o.tool \in Locals
  /\ o.kind \in ExposeKinds => o.tool \in Remotes
  /\ o.text => o.kind \in {"toolAdd", "toolUpdate"}
  /\ o.kind \in {"toolAdd", "toggle", "addExpose", "updateExpose"} => o.name \in Names
  /\ o.kind \in {"mcpAdd", "mcpSet", "mcpRemove"} => o.up \in Ups
  /\ o.kind = "mcpAdd" /\ o.tool # None =>
       o.tool \in Remotes /\ UpOf[o.tool] = o.up /\ o.name \in Names
StageShape(o) ==
  /\ o.at = "load" => o.kind # "toggle"
  /\ o.at = "script" => o.kind \in {"toolAdd", "toolUpdate"} /\ o.text
  /\ o.at = "restore" => o.kind = "toolAdd"
  /\ o.at \in {"plan", "hooks", "state"} => Renames(o)
  /\ o.at \in {"hooks", "state"} => ~Collides(o)
  /\ o.at = "state" => Moves(o)
  /\ o.at = "save" => o.kind \notin {"toggle", "wrap"}
  /\ o.at \in {"read", "write"} => \/ o.kind \in {"toggle", "wrap", "toolRemove", "mcpRemove"}
                                   \/ o.kind = "mcpSet" /\ ~o.on
(* What it was found to be possible on, in the store it has loaded.        *)
LoadShape(o) ==
  /\ o.kind \in {"toolUpdate", "toolRemove"} /\ o.at \in {"script", "plan", "hooks", "state", "save"} =>
       o.tool \in DOMAIN o.reg
  /\ o.kind = "toolAdd" /\ o.at = "save" => o.tool \notin DOMAIN o.reg
  /\ o.at \in {"plan", "hooks", "state", "save"} /\ o.kind \in StoreKinds =>
       /\ AliasesOf(o.sto)
       /\ o.kind \in {"addExpose", "updateExpose", "removeExpose"} => UpOf[o.tool] \in DOMAIN o.sto.ups
       /\ o.kind = "mcpSet" => o.up \in DOMAIN o.sto.ups
       /\ o.kind = "mcpAdd" => o.up \notin DOMAIN o.sto.ups
OpShape(o) == o.at # "refused" => AboutShape(o) /\ StageShape(o) /\ LoadShape(o)

(* What a refusal would leave behind is what it has found.                 *)
Traced(o) ==
  /\ o.at \in {"load", "script", "plan", "refused"} => o.found = files
  /\ o.at = "restore" \/ (o.at = "save" /\ o.kind = "toolAdd" /\ o.text) =>
       o.found = <<register, store, state, [scripts EXCEPT ![o.tool] = o.prior], gates>>

(* What an operation that meets no other has read is what the files hold;  *)
(* a rename that has begun to write has taken the policy from the old      *)
(* name; what is being removed is gone and shares its key with nobody.     *)
Knows(o) ==
  /\ o.kind \in RegistryKinds /\ o.at \in {"script", "restore", "plan", "hooks", "state", "save"} =>
       o.reg = register
  /\ o.kind \in StoreKinds /\ o.at \in {"plan", "hooks", "state", "save"} => o.sto = store
  /\ o.at = "hooks" => o.gat = gates
  /\ o.at = "hooks" /\ o.tool \in Remotes =>
       o.sta = state \/ (o.sta = EmptyState /\ o.tool \in loose)
  /\ o.at = "state" => o.sta = state
  /\ o.at \in {"state", "save"} /\ Renames(o) /\ o.tool \notin loose => OldName(o) \notin gates
  /\ o.at = "save" /\ Renames(o) /\ o.tool \in Remotes \ loose => OldName(o) \notin DOMAIN state.flags
  /\ o.at = "write" => o.sta = state \/ (off = {} /\ faults > 0)
  /\ o.at \in {"read", "write"} /\ o.kind = "toolRemove" =>
       /\ o.tool \notin DOMAIN register
       /\ \A t \in Present(register, store) : KeyOf(register, store, t) = o.tool => t \in loose

(* The names a tool's policy may be found under: its own, one it is being  *)
(* renamed to, one it was being renamed to when a rename died.             *)
Becoming(t) ==
  {n \in Names : \E p \in Busy : /\ op[p].at \in {"state", "save"} /\ op[p].tool = t
                                 /\ Renames(op[p]) /\ n = NewName(op[p])}
MayBe(t) == {Surfaced(register, store, t)} \cup Becoming(t) \cup {n \in Names : <<t, n>> \in torn}
Keys(t) == IF t \in Locals THEN {t} ELSE MayBe(t)
IsOff(k) == k \in DOMAIN state.flags /\ state.flags[k].on = "no"
PolicyKept ==
  /\ Sharing(register, store) \subseteq loose
  /\ gated \cup off \subseteq Present(register, store)
  /\ \A t \in gated \ loose : MayBe(t) \cap gates # {}
  /\ \A t \in off \ loose : \E k \in Keys(t) : IsOff(k)

(* The wrap is on an upstream that is served, or about to be lifted.       *)
Served(u) == u \in DOMAIN store.ups /\ store.ups[u]
WrapKept ==
  /\ \/ state.wrap = None \/ Served(state.wrap)
     \/ \E p \in Busy : /\ op[p].at \in {"read", "write"} /\ op[p].up = state.wrap
                        /\ op[p].kind \in {"mcpSet", "mcpRemove"}
  /\ \A p \in Busy : op[p].kind = "wrap" /\ op[p].at \in {"read", "write"} /\ op[p].up # None =>
                       Served(op[p].up)

Apart == \A p, q \in Busy : p # q => Touches(op[p].kind) \cap Touches(op[q].kind) = {}
Shaped == \A p \in Busy : OpShape(op[p])
Traceable == \A p \in Busy : op[p].found # None => Busy = {p} /\ Traced(op[p])
Informed == \A p \in Busy : op[p].at # "refused" => Knows(op[p])
ConfInv ==
  /\ TypeOK /\ AliasesOf(store) /\ Shaped /\ Traceable
  /\ faults = 0 => bad = {}
  /\ apart => Apart /\ Informed /\ PolicyKept /\ (faults = 0 => WrapKept)
=============================================================================
