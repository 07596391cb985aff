--------------------------- MODULE ShellInventory ---------------------------
(***************************************************************************)
(* The flat enumerations of reforge-platform-windows: packages (appx.rs),  *)
(* Startup entries (startup.rs), shortcuts and default associations        *)
(* (shell_links.rs).  Each has roots that are walked or looked up, an      *)
(* interface that must be set up first, and items that are inspected one   *)
(* by one; every call may fail.                                            *)
(*                                                                         *)
(* An item is <<root, number>>, and stands under its own name among the    *)
(* errors when it fails; <<root, 0>> is an error of the root, and          *)
(* <<"all", 0>> one of the enumeration.                                    *)
(***************************************************************************)
EXTENDS Naturals, Sequences, FiniteSets, SequencesExt

CONSTANTS
    Contents,      \* for each source a set of sequences of [name, items]
    MaxItems

VARIABLES
    source,        \* "appx", "startup", "links" or "associations"
    roots,         \* what there is: items are "file", "shortcut", "folder" or "reparse"
    pc, at, candidates, inspected,
    observed, errors

siVars == <<source, roots, pc, at, candidates, inspected, observed, errors>>

(* Folders are walked for Startup entries and shortcuts; the packages and  *)
(* the defaults are one list each.                                         *)
ShellAssumption ==
    /\ DOMAIN Contents \subseteq {"appx", "startup", "links", "associations"} /\ MaxItems \in Nat
    /\ \A s \in DOMAIN Contents : \A rs \in Contents[s] :
          /\ rs \in Seq([name : STRING, items : Seq(STRING)])
          /\ s \in {"appx", "associations"} => Len(rs) = 1

SiInit ==
    /\ \E s \in DOMAIN Contents : source = s /\ roots \in Contents[s]
    /\ pc = "walk" /\ at = 1 /\ candidates = <<>> /\ inspected = 0
    /\ observed = {} /\ errors = {}

Root == roots[at]
AtMost(n, s) == SubSeq(s, 1, IF Len(s) < n THEN Len(s) ELSE n)
Numbered(r) == [i \in DOMAIN r.items |-> <<r.name, i>>]
KindOf(r, item) == r.items[item[2]]

(* is_shortcut_path and the kind of the entry                              *)
IsCandidate(r, item) ==
    CASE source = "links" -> KindOf(r, item) = "shortcut"
      [] source = "startup" -> KindOf(r, item) \in {"file", "reparse"}
      [] OTHER -> TRUE

RootFails == errors' = errors \cup {<<Root.name, 0>>}
(* The members of s at the positions in S, in their order.                 *)
Chosen(s, S) ==
    [n \in 1..Cardinality(S) |-> s[CHOOSE i \in S : Cardinality({j \in S : j <= i}) = n]]
Take(items) ==
    candidates' = candidates \o Chosen(items, {i \in DOMAIN items : IsCandidate(Root, items[i])})
GiveUp(why) == errors' = errors \cup why /\ pc' = "done"

(***************************************************************************)
(* The roots                                                               *)
(***************************************************************************)
(* enumerate_shell_links: a root that is missing, cannot be walked or has  *)
(* too many entries fails as a whole, and the others go on.                *)
WalkShortcuts ==
    /\ pc = "walk" /\ source = "links" /\ at <= Len(roots) /\ at' = at + 1
    /\ \/ RootFails /\ UNCHANGED candidates
       \/ Len(Root.items) <= MaxItems /\ Take(Numbered(Root)) /\ UNCHANGED errors
    /\ UNCHANGED <<source, roots, pc, inspected, observed>>

(* Faulty variant: the entries past the limit are forgotten.               *)
WalkSomeStartup ==
    /\ pc = "walk" /\ source = "startup" /\ at <= Len(roots) /\ at' = at + 1
    /\ Take(AtMost(MaxItems, Numbered(Root)))
    /\ UNCHANGED <<source, roots, pc, inspected, observed, errors>>

(* enumerate_startup_entries: the folder is missing, cannot be read or is  *)
(* a reparse point; or its first entries are taken, and more of them are   *)
(* an error.                                                               *)
WalkStartup ==
    /\ pc = "walk" /\ source = "startup" /\ at <= Len(roots) /\ at' = at + 1
    /\ \/ RootFails /\ UNCHANGED candidates
       \/ /\ Take(AtMost(MaxItems, Numbered(Root)))
          /\ IF Len(Root.items) > MaxItems THEN RootFails ELSE UNCHANGED errors
    /\ UNCHANGED <<source, roots, pc, inspected, observed>>

(***************************************************************************)
(* The interfaces                                                          *)
(***************************************************************************)
(* ComApartment::initialize: without it every shortcut gets an error; it   *)
(* is not asked for when there is none, and never for Startup entries.     *)
ConnectShortcuts ==
    /\ pc = "walk" /\ source \in {"links", "startup"} /\ at > Len(roots)
    /\ \/ pc' = "items" /\ UNCHANGED errors
       \/ source = "links" /\ candidates # <<>> /\ GiveUp(Range(candidates))
    /\ UNCHANGED <<source, roots, at, candidates, inspected, observed>>

(* enumerate_default_associations: likewise for COM and the registration.  *)
ConnectAssociations ==
    /\ pc = "walk" /\ source = "associations"
    /\ \/ Take(Numbered(Root)) /\ pc' = "items" /\ UNCHANGED errors
       \/ GiveUp(Range(Numbered(Root))) /\ UNCHANGED candidates
    /\ UNCHANGED <<source, roots, at, inspected, observed>>

(* enumerate_current_user_appx_packages: the apartment, the manager, the   *)
(* packages and their iterator.                                            *)
ConnectPackages ==
    /\ pc = "walk" /\ source = "appx"
    /\ \/ Take(Numbered(Root)) /\ pc' = "items" /\ UNCHANGED errors
       \/ GiveUp({<<"all", 0>>}) /\ UNCHANGED candidates
    /\ UNCHANGED <<source, roots, at, inspected, observed>>

(***************************************************************************)
(* The items                                                               *)
(***************************************************************************)
Item == Head(candidates)
NextOf(from) ==
    /\ pc = "items" /\ source = from /\ candidates # <<>>
    /\ candidates' = Tail(candidates) /\ inspected' = inspected + 1
    /\ UNCHANGED <<source, roots, pc, at>>
Observe == observed' = observed \cup {Item} /\ UNCHANGED errors
Fail == errors' = errors \cup {Item} /\ UNCHANGED observed

(* inspect_shortcut: creating, loading or reading the link may fail; the   *)
(* target and the description may be missing.                              *)
InspectShortcut == NextOf("links") /\ (Observe \/ Fail)

(* query_default_association: the query fails, or answers what is not a    *)
(* program identifier.                                                     *)
QueryAssociation == NextOf("associations") /\ (Observe \/ Fail)

(* The loop of enumerate_startup_entries: the metadata, a reparse point,   *)
(* the name.                                                               *)
InspectStartup ==
    /\ NextOf("startup")
    /\ \/ KindOf(roots[1], Item) = "file" /\ Observe
       \/ Fail

(* collect_package, under the limit, which counts the ones that failed;    *)
(* missing metadata is an error and the package is observed all the same.  *)
(* An item is a package family: of several packages of one family,         *)
(* sort_deterministically keeps one observation.                           *)
CollectPackage ==
    /\ inspected < MaxItems /\ NextOf("appx")
    /\ \/ Observe
       \/ Fail
       \/ observed' = observed \cup {Item} /\ errors' = errors \cup {Item}

(* The iterator fails, before or after an item, or the limit is reached.   *)
EndPackages ==
    /\ pc = "items" /\ source = "appx" /\ GiveUp({<<"all", 0>>})
    /\ UNCHANGED <<source, roots, at, candidates, inspected, observed>>

Finish ==
    /\ pc = "items" /\ candidates = <<>> /\ pc' = "done"
    /\ UNCHANGED <<source, roots, at, candidates, inspected, observed, errors>>

SiNext ==
    \/ WalkShortcuts \/ WalkStartup \/ ConnectShortcuts \/ ConnectAssociations \/ ConnectPackages
    \/ InspectShortcut \/ QueryAssociation \/ InspectStartup \/ CollectPackage \/ EndPackages
    \/ Finish

SiSpec == SiInit /\ [][SiNext]_siVars

(***************************************************************************)
(* Properties                                                              *)
(***************************************************************************)
(* In the end every item a source is for is observed, or it, its root or   *)
(* the enumeration stands among the errors ("failure to read one package's *)
(* metadata does not prevent observations for the remaining packages";     *)
(* "Missing or inaccessible folders become typed errors").                 *)
ItemIsAccountedFor ==
    pc = "done" =>
        \A k \in DOMAIN roots : \A item \in Range(Numbered(roots[k])) :
            IsCandidate(roots[k], item) =>
                \/ item \in observed \cup errors
                \/ <<roots[k].name, 0>> \in errors \/ <<"all", 0>> \in errors
=============================================================================
