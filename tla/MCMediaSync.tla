----------------------------- MODULE MCMediaSync -----------------------------
(* Instances of MediaSync.                                                 *)
EXTENDS MediaSync, TLC

CONSTANTS a, b, f, g, c1, c2, void

(* One file that everybody has at first.                                    *)
OneShared  == f :> c1 @@ g :> Absent
=============================================================================
