----------------------------- MODULE MCToolSurface -----------------------------
(***************************************************************************)
(* Model-checking instance of ToolSurface.  The local ids, the display     *)
(* names and the aliases share names, so that a curated alias clashes with *)
(* an id, with a display name, with another alias and with a default name. *)
(***************************************************************************)
EXTENDS ToolSurface, TLC

CONSTANTS x, y, at, bt, t, run, a, b

MCNames == {x, y, at, bt, t, run}
MCMetas == {run}
MCLocals == {x, y}
MCRefs == {y}
MCDisplays == {x, y}
MCUps == {a, b}
MCTools == {t}
MCOffers == (a :> {<<t>>, <<>>}) @@ (b :> {<<t>>})
MCDefault == (<<a, t>> :> at) @@ (<<b, t>> :> bt)
MCAliases == {x, bt}
=============================================================================
