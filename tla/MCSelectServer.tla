--------------------------- MODULE MCSelectServer ---------------------------
EXTENDS SelectServer, TLC

CONSTANTS c1, c2, c3

Clients == {c1, c2, c3}
Fds == 4..6
Limits == (c1 :> 2) @@ (c2 :> 1) @@ (c3 :> 1)
LineLengths == (c1 :> {1}) @@ (c2 :> {0}) @@ (c3 :> {2})
Mortal == {c3}

=============================================================================
