--------------------------- MODULE MCSavedSession ---------------------------
(* A shell that the ordinary session requires, a replacement the fallback  *)
(* session requires, which provides the same service, a panel, a program   *)
(* that ignores its startup id, and two names for sessions.                *)
EXTENDS SavedSession, TLC

CONSTANTS shell, alt, panel, rude, n1, n2, i1, i2, i3, i4

MCProvides == shell :> {"shell"} @@ alt :> {"shell"} @@ panel :> {} @@ rude :> {}
MCFallback == "main" :> "fallback" @@ "fallback" :> None
MCComponents == "main" :> {shell} @@ "fallback" :> {alt}
Symmetric == Permutations({i1, i2, i3, i4}) \cup Permutations({n1, n2})
=============================================================================
