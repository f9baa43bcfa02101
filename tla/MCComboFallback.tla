--------------------------- MODULE MCComboFallback ---------------------------
EXTENDS ComboFallback, TLC

CONSTANTS a, b, p, q

MCProviderOf == (a :> p) @@ (b :> q)
MCSameProvider == (a :> p) @@ (b :> p)
MCConns == (a :> {1, 2}) @@ (b :> {1})
MCTwins == (a :> {1, 2}) @@ (b :> {1, 2})
MCSingles == (a :> {1}) @@ (b :> {1})
MCChanges == (FALSE :> 2) @@ (TRUE :> 0)
MCNoChanges == (FALSE :> 0) @@ (TRUE :> 0)
MCBase == <<a, b>>
=============================================================================
