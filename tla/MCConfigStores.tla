--------------------------- MODULE MCConfigStores ---------------------------
(* Instances for TLC.  One tool r of the register, one upstream u with one  *)
(* tool x.  The names: r's id, x's default dx, and one more.                *)
EXTENDS ConfigStores, TLC

CONSTANTS r, x, u, dx, alt, ui, p

LocalTools == {r}
RemoteTools == {x}
Upstreams == {u}
UpstreamOf == x :> u
DefaultName == x :> dx
AllNames == {r, dx, alt}
RegexRow == {dx}
OneScript == {p}
=============================================================================
