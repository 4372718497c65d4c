-------------------------------- MODULE MCGcBase --------------------------------
(* Three handlers, six calls of execute_finalizers, two values and a       *)
(* shadow stack of depth four: a finalizer or init closure can root two    *)
(* locals above the top level's.                                           *)
EXTENDS GcBase

CONSTANTS h1, h2, h3

MCHandlers == <<h1, h2, h3>>
====
