--------------------------- MODULE MCBrowserScan ----------------------------
(***************************************************************************)
(* Two families.  One window is that of the process c1, the other that of a *)
(* process of another user with the same executable.                       *)
(***************************************************************************)
EXTENDS BrowserScan

CONSTANTS chrome, edge, c1, c2, c3, e1, w1

MCFamilyOf == [p \in Process |-> IF p = e1 THEN edge ELSE chrome]
MCOwnerOf == [w \in Window |-> IF w = w1 THEN c1 ELSE c3]
=============================================================================
