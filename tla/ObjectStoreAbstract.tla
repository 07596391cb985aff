------------------------ MODULE ObjectStoreAbstract -------------------------
(***************************************************************************)
(* What ObjectStore promises its callers (reforge-package,                 *)
(* content_store.rs: "Filesystem-backed immutable object store"): objects  *)
(* are published one at a time and never withdrawn, and a file is reported *)
(* as stored only when its manifest and all of its chunks are there.       *)
(***************************************************************************)
EXTENDS Naturals

CONSTANTS
    Files,          \* files that may be stored
    ObjectsOf(_)    \* the objects a file consists of

VARIABLES
    store,      \* the published objects
    receipts    \* the files reported as stored

absVars == <<store, receipts>>

Init == store = {} /\ receipts = {}

(* One more object of some file is published.                              *)
Publish ==
    /\ \E f \in Files : \E c \in ObjectsOf(f) \ store : store' = store \cup {c}
    /\ UNCHANGED receipts

(* A complete file is reported.                                            *)
Report ==
    /\ \E f \in Files : ObjectsOf(f) \subseteq store /\ receipts' = receipts \cup {f}
    /\ UNCHANGED store

Next == Publish \/ Report
Spec == Init /\ [][Next]_absVars
=============================================================================
