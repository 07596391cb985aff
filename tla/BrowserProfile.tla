---------------------------- MODULE BrowserProfile --------------------------
(***************************************************************************)
(* BrowserAwareRestoreHandler and BrowserRestoreHandler (reforge-restore,  *)
(* handlers/browsers.rs): every generic file operation is routed by its    *)
(* destination; items of a browser profile are written only when they are  *)
(* in the portable subset and no lock of the browser is seen.  The browser *)
(* starts, stops and dies while operations wait.                           *)
(***************************************************************************)
EXTENDS Naturals

CONSTANTS
    Operations,    \* [kind, policy, place, file]
    MaxStarts      \* times the browser is started

VARIABLES
    op, running,
    lock,          \* the lock file of the browser in the profile
    pc, outcome,
    written,       \* the item was written by a handler
    starts

bpVars == <<op, running, lock, pc, outcome, written, starts>>

(* A profile of a browser that died keeps its lock.                        *)
BpInit ==
    /\ op \in Operations /\ running \in BOOLEAN /\ lock \in BOOLEAN /\ (running => lock)
    /\ pc = "idle" /\ outcome = "none" /\ written = FALSE /\ starts = 0

(* browser_profile_path: below a profile of one of the browsers.           *)
IsProfile(o) == o.place \in {"chromium", "firefox"}

(* browser_artifact_kind: the file is one of the portable subset.          *)
Portable(o) ==
    \/ o.place = "chromium" /\ o.file \in {"bookmarks", "preferences"}
    \/ o.place = "firefox" /\ o.file \in {"prefs.js", "places.sqlite", "extensions.json"}

(* Faulty variant: the policy of a merge is not looked at.                 *)
AnyPolicy(o) ==
    \/ o.kind = "json" /\ o.file \in {"bookmarks", "preferences", "extensions.json"}
    \/ o.kind = "write" /\ o.file \in {"prefs.js", "places.sqlite", "bookmarks"}

(* validate_browser_operation: JSON files are merged, never replaced, and  *)
(* the others and the bookmarks are written.                               *)
Allowed(o) ==
    \/ /\ o.kind = "json" /\ o.policy \in {"preserve", "append", "manual"}
       /\ o.file \in {"bookmarks", "preferences", "extensions.json"}
    \/ o.kind = "write" /\ o.file \in {"prefs.js", "places.sqlite", "bookmarks"}

Ends(result) == pc' = "idle" /\ outcome' = result

(* is_satisfied: a locked profile is never satisfied; the generic handlers *)
(* compare the item.                                                       *)
IsSatisfied ==
    /\ pc = "idle" /\ outcome \notin {"completed", "skipped", "waiting", "failed"}
    /\ IF IsProfile(op) /\ Portable(op) /\ ~Allowed(op) THEN Ends("failed")
       ELSE IF written /\ (IsProfile(op) => Portable(op) /\ ~lock) THEN Ends("skipped")
       ELSE pc' = "execute" /\ outcome' = outcome
    /\ UNCHANGED <<op, running, lock, written, starts>>

(* execute, restore_portable_subset up to the delegated write.             *)
Execute ==
    /\ pc = "execute"
    /\ \/ Ends("cancelled")
       \/ IF ~IsProfile(op) THEN pc' = "write" /\ outcome' = outcome
          ELSE IF ~Portable(op) THEN Ends("waiting")
          ELSE IF ~Allowed(op) THEN Ends("failed")
          ELSE pc' = "lock" /\ outcome' = outcome
    /\ UNCHANGED <<op, running, lock, written, starts>>

(* Faulty variant: the profile is not inspected.                           *)
ProfileLockIgnored ==
    /\ pc = "lock" /\ pc' = "write" /\ outcome' = outcome
    /\ UNCHANGED <<op, running, lock, written, starts>>

(* profile_lock: a lock file, or an error inspecting it, stops the write.  *)
ProfileLock ==
    /\ pc = "lock"
    /\ \/ lock /\ Ends("waiting")
       \/ ~lock /\ pc' = "write" /\ outcome' = outcome
       \/ Ends("error")
    /\ UNCHANGED <<op, running, lock, written, starts>>

(* The file or configuration handler replaces the item.                    *)
Write ==
    /\ pc = "write"
    /\ \/ written' = TRUE /\ Ends("completed")
       \/ written' \in {written, TRUE} /\ Ends("error")
    /\ UNCHANGED <<op, running, lock, starts>>

StartBrowser ==
    /\ ~running /\ starts < MaxStarts /\ starts' = starts + 1
    /\ running' = TRUE /\ lock' = TRUE
    /\ UNCHANGED <<op, pc, outcome, written>>

(* The browser removes its lock when it is closed, not when it dies.       *)
StopBrowser ==
    /\ running /\ running' = FALSE /\ lock' \in BOOLEAN
    /\ UNCHANGED <<op, pc, outcome, written, starts>>

Acknowledge ==
    /\ pc = "idle" /\ outcome = "waiting" /\ outcome' = "acknowledged"
    /\ UNCHANGED <<op, running, lock, pc, written, starts>>

BpNext ==
    \/ IsSatisfied \/ Execute \/ ProfileLock \/ Write
    \/ StartBrowser \/ StopBrowser \/ Acknowledge

BpSpec == BpInit /\ [][BpNext]_bpVars

(***************************************************************************)
(* Properties                                                              *)
(***************************************************************************)
(* Cookies, logins, sessions and every other item outside the portable     *)
(* subset is never written and never reported as restored, and no JSON     *)
(* file of a profile is replaced, whatever answers and retries follow      *)
(* (is_browser_profile_operation, unsupported_profile_item).               *)
ProtectedIsUntouched ==
    IsProfile(op) /\ (written \/ outcome \in {"completed", "skipped"}) =>
        /\ op.file \notin {"cookies", "login data", "logins.json"}
        /\ op.kind = "json" => op.policy # "replace"

(* The write of a profile item begins after a moment of this attempt at    *)
(* which the browser was closed (profile_lock).                            *)
WritesBeginQuiet ==
    pc = "lock" /\ pc' = "write" => ~running

(***************************************************************************)
(* Said by the code or its documents, and not kept (see the README)        *)
(***************************************************************************)
(* No item of a profile is written while the browser runs.                 *)
WritesAreQuiet ==
    written' # written /\ IsProfile(op) => ~running
=============================================================================
