------------------------------ MODULE ToolSurface ------------------------------
(***************************************************************************)
(* Which tools a client sees and which tool a call reaches.  tools/list    *)
(* and toolfunnel_list_tools assemble surfaces (src/mcp/server.js,         *)
(* src/mcp/aggregator.js); tools/call and toolfunnel_run_tool resolve a    *)
(* name along code of their own.  Both read the register, the tool state,  *)
(* the expose store and the connections, which change at any time: between *)
(* a listing and a call, and while the gate of a call deliberates.         *)
(*                                                                         *)
(* Names are compared, never taken apart.  A tool is a local tool's id, or *)
(* an upstream and the name it has there.  The verdict of the gate, the    *)
(* results and the descriptions are left out.                              *)
(***************************************************************************)
EXTENDS Integers, Sequences, FiniteSets, SequencesExt

CONSTANTS Names,      \* every name a client can call
          Metas,      \* the meta-tools
          RunTool,    \* the meta-tool toolfunnel_run_tool
          Locals,     \* ids a registered tool may have
          Refs,       \* those whose tool is handed over, not run
          Displays,   \* display names a registered tool may have
          Ups,        \* upstreams
          Tools,      \* their tools, by their own names
          Offers,     \* per upstream, the lists of tools it may answer with
          Default,    \* <upstream>_<tool>, per tool of an upstream
          Aliases,    \* what an expose row may rename a tool to
          NoWrap,
          MaxEdits    \* bound: changes of the configuration

Remotes == Ups \X Tools

(* A registered tool with the id of a meta-tool is outside the model.      *)
ASSUME SurfaceNames ==
  /\ Metas \cup Locals \cup Displays \cup Aliases \cup Tools \subseteq Names
  /\ Locals \cap (Metas \cup Remotes) = {} /\ Refs \subseteq Locals /\ RunTool \in Metas
  /\ Default \in [Remotes -> Names] /\ \A u \in Ups : Offers[u] \subseteq Seq(Tools)
  /\ NoWrap \notin Ups /\ MaxEdits \in Nat

VARIABLES
  register,   \* the register in memory: ids and display names, in order
  off, hot,   \* tools.state.json: names switched off; names whose hot is set
  wrap,       \* the upstream the session is wrapped around
  rows,       \* the aggregator's expose rows, in order
  enabled,    \* its enabled upstreams
  found,      \* its connected upstreams, in the order of its map, and their tools
  call,       \* the call at its gate, or past it
  edits

configVars == <<register, off, hot, wrap, edits>>
storeVars == <<rows, enabled>>
surfaceVars == <<configVars, storeVars, found, call>>

Idle == [at |-> "idle"]
(* Where a call would go: a tool, the name its gate hears, and what holds  *)
(* the connection: the client itself, or the upstream's name.              *)
Way == [runs : Locals \cup Remotes \cup Metas, gate : Names,
        by : {"local", "client", "name", "meta"}]

(* The type invariant: among others, no id, row or upstream twice.         *)
SurfaceTypeOK ==
  /\ register \in Seq([id : Locals, name : Displays])
  /\ \A i, j \in DOMAIN register : register[i].id = register[j].id => i = j
  /\ off \subseteq Names /\ \E S \in SUBSET Names : hot \in [S -> BOOLEAN]
  /\ wrap \in Ups \cup {NoWrap} /\ enabled \subseteq Ups /\ edits \in 0..MaxEdits
  /\ rows \in Seq([of : Remotes, as : Names, on : BOOLEAN])
  /\ \A i, j \in DOMAIN rows : rows[i].of = rows[j].of => i = j
  /\ found \in Seq([up : Ups, tools : Seq(Tools)])
  /\ \A i, j \in DOMAIN found : found[i].up = found[j].up => i = j
  /\ call \in {Idle} \cup [at : {"gate", "run"}, way : Way, lost : BOOLEAN]

SurfaceInit ==
  /\ register = <<>> /\ off = {} /\ hot = <<>> /\ wrap = NoWrap
  /\ rows = <<>> /\ enabled = Ups /\ found = <<>>
  /\ call = Idle /\ edits = 0

-----------------------------------------------------------------------------
(* The first element of a sequence at any of these places, as a set of at  *)
(* most one.                                                               *)
FirstOf(s, places) == {s[i] : i \in {i \in places : \A j \in places : i <= j}}

(* isToolEnabled, isToolHot                                                *)
On(k) == k \notin off
Hot(k, default) == IF k \in DOMAIN hot THEN hot[k] ELSE default

(* resolveId, localEntryByAdvertisedName: an id before a display name.     *)
Local(n) ==
  LET ById == {i \in DOMAIN register : register[i].id = n}
      ByName == {i \in DOMAIN register : register[i].name = n}
  IN FirstOf(register, IF ById # {} THEN ById ELSE ByName)
(* localNameTaken                                                          *)
Taken(n) == \E l \in Range(register) : n \in {l.id, l.name}

(* Every tool of every connected upstream, each at its place in the order  *)
(* of the map; those of the enabled ones.                                  *)
Places == UNION {{<<i, k>> : k \in DOMAIN found[i].tools} : i \in DOMAIN found}
At(p) == <<found[p[1]].up, found[p[1]].tools[p[2]]>>
Earlier(p, q) == p[1] < q[1] \/ (p[1] = q[1] /\ p[2] < q[2])
Discovered == {At(p) : p \in Places}
Usable(x) == x[1] \in enabled

(* _surfacedName: a tool's alias while its row is enabled.                 *)
Surfaced(x) ==
  IF \E r \in Range(rows) : r.on /\ r.of = x
  THEN (CHOOSE r \in Range(rows) : r.on /\ r.of = x).as
  ELSE Default[x]

(* leanToolDefinitions: of two tools with one surfaced name, the first.    *)
Lean ==
  {At(p) : p \in {p \in Places :
                    /\ Usable(At(p))
                    /\ \A q \in Places : Earlier(q, p) /\ Usable(At(q)) =>
                         Surfaced(At(q)) # Surfaced(At(p))}}

(* resolveLeanExecution, resolveRawExecution: the first hit of the walk.   *)
Hits(n) == {p \in Places : Usable(At(p)) /\ Surfaced(At(p)) = n}
Resolved(n) ==
  {[runs |-> At(p), gate |-> n, by |-> "name"] :
     p \in {p \in Hits(n) : \A q \in Hits(n) : ~Earlier(q, p)}}

(* _findExposedExecution                                                   *)
Exposed(n) ==
  LET hits == {i \in DOMAIN rows : /\ rows[i].on /\ rows[i].as = n
                                   /\ Usable(rows[i].of) /\ rows[i].of \in Discovered}
  IN {[runs |-> r.of, gate |-> n, by |-> "client"] : r \in FirstOf(rows, hits)}

-----------------------------------------------------------------------------
(* What is advertised: names, and the tools they were advertised for.      *)
Ad(n, x) == [name |-> n, runs |-> x]
MetaDefinitions == {Ad(m, m) : m \in {m \in Metas : Hot(m, TRUE)}}
LocalDefinitions ==
  {Ad(l.id, l.id) : l \in {l \in Range(register) : Hot(l.id, FALSE) /\ On(l.id)}}
ExposedDefinitions ==
  UNION {{Ad(n, w.runs) : w \in Exposed(n)} : n \in {r.as : r \in Range(rows)}}

(* The guard a curated tool used to be advertised by:                      *)
CuratedBesideLocals(ad) == ad.name \notin Metas /\ On(ad.name)
(* Neither a meta-tool's name nor one a local tool answers to.             *)
Curated(ad) == ad.name \notin Metas /\ ~Taken(ad.name) /\ On(ad.name)

HotUpstream(n) == ~Taken(n) /\ Hot(n, FALSE) /\ On(n)
UpstreamDefinitions ==
  {Ad(Surfaced(x), x) : x \in {x \in Lean : Surfaced(x) \notin Metas /\ HotUpstream(Surfaced(x))}}

(* Under a wrap, its tools by their own names and nothing else.            *)
PassthroughDefinitions ==
  {Ad(x[2], x) : x \in {x \in Lean : x[1] = wrap /\ On(Surfaced(x))}}

(* tools/list: the first to take a name keeps it.                          *)
After(ads, more) == ads \cup {d \in more : \A a \in ads : a.name # d.name}
Advertised ==
  IF wrap # NoWrap THEN PassthroughDefinitions
  ELSE After(After(After(MetaDefinitions, LocalDefinitions),
                   {ad \in ExposedDefinitions : Curated(ad)}),
             UpstreamDefinitions)

(* toolfunnel_list_tools                                                   *)
Listed ==
  {Ad(l.id, l.id) : l \in {l \in Range(register) : On(l.id)}} \cup
  {Ad(Surfaced(x), x) : x \in {x \in Lean : Local(Surfaced(x)) = {} /\ On(Surfaced(x))}}

-----------------------------------------------------------------------------
(* Where a call goes, as a set of at most one way.                         *)

LocalWays(n) == {[runs |-> l.id, gate |-> l.name, by |-> "local"] : l \in Local(n)}
(* Were the switch looked at in the listing only:                          *)
RunWhatResolves(n) == IF Local(n) # {} THEN LocalWays(n) ELSE Resolved(n)
(* toolfunnel_run_tool: a local name never falls through to an upstream.   *)
Run(n) ==
  IF Local(n) # {} THEN {w \in LocalWays(n) : On(w.runs)}
  ELSE {w \in Resolved(n) : On(n)}

(* Under a wrap, a tool of its upstream that is on, by its own name.       *)
Wrapped(n) ==
  UNION {Resolved(Surfaced(x)) :
           x \in {x \in Lean : x = <<wrap, n>> /\ On(Surfaced(x))}}

(* handleToolsCall: a meta-tool, a promoted local tool, a curated one, a   *)
(* promoted one of an upstream, in that order.                             *)
Promoted(n) == \E l \in Local(n) : Hot(l.id, FALSE) /\ On(l.id)
Direct(n) ==
  CASE wrap # NoWrap -> Wrapped(n)
    [] wrap = NoWrap /\ n \in Metas ->
         {[runs |-> n, gate |-> n, by |-> "meta"] : m \in {m \in {n} : Hot(m, TRUE)}}
    [] wrap = NoWrap /\ n \notin Metas /\ Promoted(n) -> Run(n)
    [] wrap = NoWrap /\ n \notin Metas /\ ~Promoted(n) /\ Exposed(n) # {} ->
         {w \in Exposed(n) : On(n)}
    [] OTHER -> {w \in Resolved(n) : HotUpstream(n)}

(* The client calls a tool, or the meta-tool that runs one; the other      *)
(* meta-tools, and names nothing answers to, are answered at once.         *)
Call ==
  /\ call = Idle
  /\ \E n \in Names :
       \E w \in Direct(n) \cup (IF Direct(RunTool) # {} /\ wrap = NoWrap THEN Run(n) ELSE {}) :
         w.by # "meta" /\ call' = [at |-> "gate", way |-> w, lost |-> FALSE]
  /\ UNCHANGED <<configVars, storeVars, found>>

Answered == call' = Idle /\ UNCHANGED <<configVars, storeVars, found>>
Denies == call # Idle /\ call.at = "gate" /\ Answered
(* The gate allows it.  A curated call has its client already; any other   *)
(* of an upstream looks for a live one now, or waits for a reconnect.      *)
Connected(u) == \E c \in Range(found) : c.up = u
CanStart == IF call.way.by = "local" THEN TRUE
            ELSE ~call.lost /\ Connected(call.way.runs[1])
Executes ==
  /\ call # Idle /\ call.at = "gate" /\ call.way.runs \notin Refs /\ CanStart
  /\ call' = [call EXCEPT !.at = "run"]
  /\ UNCHANGED <<configVars, storeVars, found>>
(* A reference tool's instructions are handed over.                        *)
HandsOver == call # Idle /\ call.at = "gate" /\ call.way.runs \in Refs /\ Answered
(* Its client is gone, its aggregator is closed, or nothing is connected.  *)
FailsToStart == call # Idle /\ call.at = "gate" /\ ~CanStart /\ Answered
Returns == call # Idle /\ call.at = "run" /\ Answered

-----------------------------------------------------------------------------
(* What a lost connection does to the call: one that runs is rejected, one *)
(* at its gate has lost its client, or all it could ask for another.       *)
Loses(u, bys) ==
  call' = IF call = Idle \/ call.way.by = "local" \/ call.way.runs[1] \notin u THEN call
          ELSE IF call.at = "run" THEN Idle
          ELSE [call EXCEPT !.lost = @ \/ call.way.by \in bys]

(* _listAndCache, and _discard on a death.                                 *)
UpstreamUp(u) ==
  /\ u \in enabled /\ ~Connected(u)
  /\ \E tools \in Offers[u] : found' = Append(found, [up |-> u, tools |-> tools])
  /\ UNCHANGED <<configVars, storeVars, call>>
Relist(i) ==
  /\ i \in DOMAIN found
  /\ \E tools \in Offers[found[i].up] : found' = [found EXCEPT ![i].tools = tools]
  /\ UNCHANGED <<configVars, storeVars, call>>
UpstreamDown(i) ==
  /\ i \in DOMAIN found /\ found' = RemoveAt(found, i)
  /\ Loses({found[i].up}, {"client"})
  /\ UNCHANGED <<configVars, storeVars>>

Edited == edits < MaxEdits /\ edits' = edits + 1
(* expose.json is reloaded: another aggregator, with what it connected so  *)
(* far; the old one is closed.                                             *)
EditRows ==
  \/ \E x \in Remotes \ {r.of : r \in Range(rows)}, a \in Aliases, b \in BOOLEAN :
       rows' = Append(rows, [of |-> x, as |-> a, on |-> b])
  \/ \E i \in DOMAIN rows : rows' = RemoveAt(rows, i)
  \/ \E i \in DOMAIN rows : rows' = [rows EXCEPT ![i].on = ~@]
ReloadExpose ==
  /\ Edited
  /\ \/ EditRows /\ UNCHANGED <<enabled, found>>
     \/ \E u \in Ups \ enabled : enabled' = enabled \cup {u} /\ UNCHANGED <<rows, found>>
     \/ \E u \in enabled :
          /\ enabled' = enabled \ {u} /\ UNCHANGED rows
          /\ \/ \E i \in DOMAIN found : found[i].up = u /\ found' = RemoveAt(found, i)
             \/ ~Connected(u) /\ UNCHANGED found
  /\ Loses(Ups, {"client", "name"})
  /\ UNCHANGED <<register, off, hot, wrap>>

(* tools.register.json is reloaded: a tool is added, removed or renamed.   *)
ReloadRegister ==
  /\ Edited
  /\ \/ \E id \in Locals \ {l.id : l \in Range(register)}, n \in Displays :
          register' = Append(register, [id |-> id, name |-> n])
     \/ \E i \in DOMAIN register : register' = RemoveAt(register, i)
     \/ \E i \in DOMAIN register, n \in Displays :
          register' = [register EXCEPT ![i].name = n]
  /\ UNCHANGED <<off, hot, wrap, storeVars, found, call>>

(* tools.state.json, which every listing and every call reads anew.        *)
EditState ==
  /\ Edited
  /\ \/ \E k \in Names : off' = (off \ {k}) \cup ({k} \ off) /\ UNCHANGED <<hot, wrap>>
     \/ \E k \in Names, b \in BOOLEAN :
          /\ hot' = [n \in DOMAIN hot \cup {k} |-> IF n = k THEN b ELSE hot[n]]
          /\ UNCHANGED <<off, wrap>>
     \/ wrap' \in (Ups \cup {NoWrap}) \ {wrap} /\ UNCHANGED <<off, hot>>
  /\ UNCHANGED <<register, storeVars, found, call>>

SurfaceNext ==
  \/ Call \/ Denies \/ Executes \/ HandsOver \/ FailsToStart \/ Returns
  \/ \E u \in Ups : UpstreamUp(u)
  \/ \E i \in 1..Cardinality(Ups) : Relist(i) \/ UpstreamDown(i)
  \/ ReloadExpose \/ ReloadRegister \/ EditState

SurfaceSpec == SurfaceInit /\ [][SurfaceNext]_surfaceVars
-----------------------------------------------------------------------------
(* What a surface would show now is what a call by that name would reach   *)
(* now, whichever names clash, after any edits: on the top level, under a  *)
(* wrap, and in the list of the lean tools (handleToolsList,               *)
(* handleToolsCall).  Under a wrap and through the meta-tool, nothing else *)
(* is reached.  A list a client still holds from before is not meant: a    *)
(* list_changed is due for that one (NoStaleView of UpstreamLifecycle).    *)
AdvertisedRuns ==
  /\ \A d \in Advertised : {w.runs : w \in Direct(d.name)} = {d.runs}
  /\ \A d \in Listed : {w.runs : w \in Run(d.name)} = {d.runs}
  /\ \A n \in Names : /\ \A w \in Run(n) : \E d \in Listed : d.runs = w.runs
                      /\ wrap # NoWrap => \A w \in Direct(n) : Ad(n, w.runs) \in Advertised

(* No way to a tool goes round its policy: each is gated under the tool's  *)
(* one gate name, none leads to a tool that is switched off, and no call   *)
(* runs on an upstream that was disabled while the gate deliberated        *)
(* (runTool, resolveLeanExecution, runCuratedDirect, reloadExpose).  A     *)
(* rename or a switch-off in that time is not looked at again by the code, *)
(* and not claimed here.                                                   *)
GateOf(x) ==
  IF x \in Locals THEN {l.name : l \in {l \in Range(register) : l.id = x}} ELSE {Surfaced(x)}
KeyOf(x) == IF x \in Locals THEN x ELSE Surfaced(x)
PolicyHolds ==
  /\ \A n \in Names : \A w \in Direct(n) \cup Run(n) :
       w.by # "meta" => w.gate \in GateOf(w.runs) /\ On(KeyOf(w.runs))
  /\ call # Idle /\ call.at = "run" /\ call.way.by # "local" =>
       Usable(call.way.runs) /\ Connected(call.way.runs[1])
-----------------------------------------------------------------------------
(* The inductive invariant: what is connected is enabled; what a call goes *)
(* to is a local tool or one of an upstream, and says which; while it runs *)
(* there its upstream is connected.                                        *)
ServedOnly == \A c \in Range(found) : c.up \in enabled
WayShape ==
  call # Idle => /\ call.way.by # "meta"
                 /\ call.way.runs \in IF call.way.by = "local" THEN Locals ELSE Remotes
RunShape ==
  call # Idle /\ call.at = "run" /\ call.way.by # "local" =>
    Usable(call.way.runs) /\ Connected(call.way.runs[1])
SurfaceInv == SurfaceTypeOK /\ ServedOnly /\ WayShape /\ RunShape
=============================================================================
