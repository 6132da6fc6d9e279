----------------------------- MODULE MCDownload -----------------------------
(***************************************************************************)
(* Small instances of Download.  A cfg chooses the workers, codes, names   *)
(* and bounds; the contents and the routes per code are defined here.      *)
(***************************************************************************)
EXTENDS Download

CONSTANTS a, b, c1, c2

\* Two contents of one size that differ in their last cell, so that a partial
\* of one is a prefix of the other.
TwoContents == {<<a, a>>, <<a, b>>}

\* A source that grows or shrinks under a checkpoint, or changes before it, so
\* that what was kept is no prefix of it.
ThreeContents == {<<>>, <<a, b>>, <<b, a>>}

\* Each code is fetched by one route.
OneRouteEach == [c \in Codes |-> IF c = c1 THEN {"share"} ELSE {"read"}]
ReadOnly == [c \in Codes |-> {"read"}]

\* A code is fetched by whichever route the moment allows: the share-code
\* transfer while the devices are not paired, the read path once they are.
BothRoutes == [c \in Codes |-> {"share", "read"}]

=============================================================================
