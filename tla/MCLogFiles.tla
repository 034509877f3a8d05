------------------------------ MODULE MCLogFiles ------------------------------
(* Constants for the runs of LogFiles.  n1 and n2 spell l1 and l2, and n3 is no *)
(* level: it counts as INFO, which is l1.                                      *)
EXTENDS LogFiles, TLC

CONSTANTS l1, l2, n1, n2, n3, p0, p1, p2
MCLevels == {l1, l2}
MCNames == {n1, n2, n3}
MCToUpper == n1 :> l1 @@ n2 :> l2 @@ n3 :> None
MCPaths == {p0, p1, p2}

\* Paths of their own, one path for both levels, and two names for one level of
\* which one has the path of the default file.
MCConfigs == {n1 :> p1 @@ n2 :> p2 @@ n3 :> None,
              n1 :> p1 @@ n2 :> p1 @@ n3 :> None,
              n1 :> p0 @@ n2 :> None @@ n3 :> p2}
=============================================================================
