--------------------------- MODULE McpRegistration --------------------------
(***************************************************************************)
(* HarnessRestoreHandler (reforge-restore, handlers/harnesses.rs): the     *)
(* registration of one MCP server in the configuration file of a harness.  *)
(* The entry is rebuilt from the normalised server, merged into what the   *)
(* file holds and written with an atomic replacement, while the harness    *)
(* may write the same file.                                                *)
(*                                                                         *)
(* A document maps containers to servers to entries.  An entry maps fields *)
(* to values; the variables of "env" are fields of their own.  Of several  *)
(* arguments the one that is hardest to write stands for all.              *)
(***************************************************************************)
EXTENDS Naturals, Sequences

CONSTANTS
    Servers,       \* servers to register: [name, shape, source, env, args, place, needs]
    Documents,     \* contents the file may have at first
    Order,         \* the containers, in the order of choose_container
    Edits,         \* what the harness may write meanwhile: [container, name, entry]
    MaxAttempts, MaxEdits

VARIABLES
    server, doc,   \* the operation; the file
    facts,         \* requirements the target has
    pc, read,      \* the document `execute` parsed
    outcome, attempts, edits

mcpVars == <<server, doc, facts, pc, read, outcome, attempts, edits>>

(* parse_target: no file; a file of a state "parsed", "unparsed" or "odd", *)
(* the latter a document whose container is not an object.                 *)
NoFile == [file |-> FALSE, state |-> "parsed", body |-> <<>>]
File(state, body) == [file |-> TRUE, state |-> state, body |-> body]

Containers == {Order[i] : i \in DOMAIN Order}

(* What a field must not hold: "secret" and "unknown" are values the       *)
(* harness scan would not read, "odd" is a literal that looks like a       *)
(* secret.  The latter is looked for everywhere but in "cwd", the working  *)
(* directory or the address.                                               *)
Unsafe(field) == {"secret", "unknown"} \cup (IF field = "cwd" THEN {} ELSE {"odd"})
SafeFields(entry) == \A f \in DOMAIN entry : entry[f] \notin Unsafe(f)
SafeBody(body) == \A c \in DOMAIN body : \A n \in DOMAIN body[c] : SafeFields(body[c][n])

(* The known containers are those of Order, and the file holds no secret   *)
(* except by the handler.                                                  *)
McpAssumption ==
    /\ Order \in Seq(STRING)
    /\ \A s \in Servers : s.source \in Containers \cup {"none", "invalid"}
    /\ \A d \in Documents : DOMAIN d.body \subseteq Containers /\ SafeBody(d.body)
    /\ \A e \in Edits : e.container \in Containers /\ SafeFields(e.entry)

McpInit ==
    /\ server \in Servers /\ doc \in Documents
    /\ facts \in SUBSET {"runtime", "package"}
    /\ pc = "idle" /\ read = NoFile /\ outcome = "none" /\ attempts = 0 /\ edits = 0

(* The source artifact must be a configuration object of the right type.   *)
SourceIsValid(s) == s.source # "invalid"

(* Runtime and package of the server, as the target scan recorded them.    *)
TargetHas(s) == s.needs \subseteq facts

(***************************************************************************)
(* safe_server                                                             *)
(***************************************************************************)
(* Faulty variant: a literal is taken as it is.                            *)
SafeAsIs(v) == v \in {"literal", "odd", "variable"}

(* safe_value: a literal that redaction would leave alone, or the name of  *)
(* an environment variable; a secret or unknown value is not written.      *)
SafeValue(v) == v \in {"literal", "variable"}

(* Transport and address must fit, or the user has to look at it.          *)
WellShaped(s) == s.shape = "reviewed"

(* A working directory or address that is a secret or was not read; any    *)
(* other is taken as it is.                                                *)
PlaceBlocks(place) == place \in {"secret", "unknown"}

(* Arguments, working directory and address cannot be left out.            *)
Blocking(s) == (s.args # "none" /\ ~SafeValue(s.args)) \/ PlaceBlocks(s.place)

ReauthRequired(s) == Blocking(s) \/ \E n \in DOMAIN s.env : ~SafeValue(s.env[n])

(* The entry that is written: the fields, and the variables that are safe. *)
SafeEntry(s) ==
    [f \in {"type", "cwd"} \cup {a \in {"args"} : s.args # "none"}
            \cup {n \in DOMAIN s.env : SafeValue(s.env[n])} |->
        IF f = "type" THEN "literal" ELSE IF f = "cwd" THEN s.place
        ELSE IF f = "args" THEN s.args ELSE s.env[f]]

(* server_has_secret_or_unknown goes by the declared kinds only.           *)
HasSecret(s) ==
    \/ \E n \in DOMAIN s.env : s.env[n] \in {"secret", "unknown"}
    \/ s.args \in {"secret", "unknown"} \/ s.place \in {"secret", "unknown"}

(***************************************************************************)
(* Merging                                                                 *)
(***************************************************************************)
(* Faulty variant: the container of the source is used.                    *)
SourceContainer(body, s) == s.source

(* choose_container: the first the target has, else that of the source.    *)
Container(body, s) ==
    IF \E i \in DOMAIN Order : Order[i] \in DOMAIN body
    THEN Order[CHOOSE i \in DOMAIN Order :
                  Order[i] \in DOMAIN body /\ \A j \in 1..(i-1) : Order[j] \notin DOMAIN body]
    ELSE s.source

In(body, c) == IF c \in DOMAIN body THEN body[c] ELSE <<>>
Entry(servers, n) == IF n \in DOMAIN servers THEN servers[n] ELSE <<>>

(* `over` with its fields, the other fields as in `under`.                 *)
Overlay(over, under) ==
    [f \in DOMAIN over \cup DOMAIN under |-> IF f \in DOMAIN over THEN over[f] ELSE under[f]]

(* The map with one key set.                                               *)
Put(map, key, value) == [k \in DOMAIN map \cup {key} |-> IF k = key THEN value ELSE map[k]]

(* The document with an entry of a server laid over the one it has.        *)
Lay(body, c, n, entry) ==
    Put(body, c, Put(In(body, c), n, Overlay(entry, Entry(In(body, c), n))))

(* Faulty variant: the entry replaces the one of the target.               *)
ReplaceServer(body, s) ==
    LET c == Container(body, s)
    IN Put(body, c, Put(In(body, c), s.name, SafeEntry(s)))

(* merge_safe_server_json, merge_safe_server_toml: fields and variables of *)
(* the registration win, all others stay.                                  *)
MergeServer(body, s) == Lay(body, Container(body, s), s.name, SafeEntry(s))

(* write_json, write_toml: what the file will hold, from what was parsed.  *)
Written(d, s) == IF d.state = "parsed" THEN File("parsed", MergeServer(d.body, s)) ELSE NoFile

(* json_server_matches, toml_server_matches.                               *)
Registered(body, s) ==
    /\ \E c \in DOMAIN body : c = Container(body, s)
    /\ s.name \in DOMAIN In(body, Container(body, s))
    /\ \A f \in DOMAIN SafeEntry(s) :
          LET e == In(body, Container(body, s))[s.name]
          IN f \in DOMAIN e /\ e[f] = SafeEntry(s)[f]

(***************************************************************************)
(* The handler                                                             *)
(***************************************************************************)
Ends(result) == pc' = "idle" /\ outcome' = result
Goes(next) == pc' = next /\ outcome' = outcome

IsSatisfied ==
    /\ pc = "idle" /\ outcome \notin {"completed", "skipped", "waiting"}
    /\ attempts' = IF attempts < MaxAttempts THEN attempts + 1 ELSE attempts
    /\ IF ~SourceIsValid(server) THEN Ends("failed")
       ELSE IF HasSecret(server) \/ server.needs # {} \/ ~doc.file THEN pc' = "execute" /\ outcome' = "none"
       ELSE IF doc.state = "unparsed" \/ ~WellShaped(server) THEN Ends("failed")
       ELSE IF ~ReauthRequired(server) /\ Registered(doc.body, server) THEN Ends("skipped")
       ELSE pc' = "execute" /\ outcome' = "none"
    /\ UNCHANGED <<server, doc, facts, read, edits>>

(* The source names the container; requirements and secrets are checked    *)
(* before the file is touched.                                             *)
Execute ==
    /\ pc = "execute"
    /\ \/ Ends("cancelled") /\ UNCHANGED read
       \/ /\ (server.source = "none" \/ ~SourceIsValid(server)) /\ Ends("failed") /\ UNCHANGED read
       \/ /\ server.source # "none" /\ SourceIsValid(server)
          /\ IF ~TargetHas(server) \/ ~WellShaped(server) \/ Blocking(server)
             THEN Ends("waiting") /\ UNCHANGED read
             ELSE /\ read' = doc
                  /\ IF doc.state # "unparsed" THEN Goes("commit") ELSE Ends("failed")
    /\ UNCHANGED <<server, doc, facts, attempts, edits>>

(* commit: an equal file is left alone, any other is replaced.  A          *)
(* registration that left secrets out asks for the user either way.        *)
Commit ==
    /\ pc = "commit"
    /\ LET new == Written(read, server)
       IN \/ Ends("failed") /\ UNCHANGED doc
          \/ /\ new # NoFile /\ doc' = new
             /\ Ends(IF ReauthRequired(server) THEN "waiting"
                     ELSE IF read.file /\ doc = new THEN "skipped" ELSE "completed")
    /\ UNCHANGED <<server, facts, read, attempts, edits>>

Crash ==
    /\ pc # "idle" /\ Ends("killed")
    /\ UNCHANGED <<server, doc, facts, read, attempts, edits>>

(* The user answers the manual action and the run is resumed.              *)
Acknowledge ==
    /\ pc = "idle" /\ outcome = "waiting" /\ outcome' = "acknowledged"
    /\ facts' = facts \cup server.needs
    /\ UNCHANGED <<server, doc, pc, read, attempts, edits>>

(* The harness adds a registration of its own.                             *)
HarnessWrites(e) ==
    /\ edits < MaxEdits /\ edits' = edits + 1 /\ doc.state = "parsed"
    /\ doc' = File("parsed", Lay(doc.body, e.container, e.name, e.entry))
    /\ UNCHANGED <<server, facts, pc, read, outcome, attempts>>

McpNext ==
    \/ IsSatisfied \/ Execute \/ Commit \/ Crash \/ Acknowledge
    \/ \E e \in Edits : HarnessWrites(e)

McpSpec == McpInit /\ [][McpNext]_mcpVars

(***************************************************************************)
(* Properties                                                              *)
(***************************************************************************)
(* By whatever attempts and merges, no secret and no value that was not    *)
(* read reaches the file, and no literal that looks like a secret does     *)
(* among the arguments and variables of an entry (safe_server, safe_value).*)
NoSecretWritten == SafeBody(doc.body)

Commits == pc = "commit" /\ pc' = "idle" /\ outcome' \in {"waiting", "skipped", "completed"}

(* A commit keeps every container, server, field and variable of the       *)
(* document it parsed that the registration does not set                   *)
(* (merge_safe_server_json).                                               *)
UnknownIsKept ==
    Commits =>
      \A c \in DOMAIN read.body : c \in DOMAIN doc'.body /\
        \A n \in DOMAIN read.body[c] : n \in DOMAIN doc'.body[c] /\
          \A f \in DOMAIN read.body[c][n] :
             /\ f \in DOMAIN doc'.body[c][n]
             /\ (n # server.name \/ f \notin DOMAIN SafeEntry(server))
                   => doc'.body[c][n][f] = read.body[c][n][f]

(* A document that has a container does not get another one, in which the  *)
(* harness would not look (choose_container).                              *)
OneContainer ==
    Commits /\ DOMAIN read.body # {} => DOMAIN doc'.body = DOMAIN read.body

(***************************************************************************)
(* Said by the code or its documents, and not kept (see the README)        *)
(***************************************************************************)
(* Nor does a working directory or an address that looks like a secret:    *)
(* safe_server makes that check of commands, arguments and variables.      *)
PlacesAreScreened ==
    \A c \in DOMAIN doc.body : \A n \in DOMAIN doc.body[c] :
       "cwd" \in DOMAIN doc.body[c][n] => doc.body[c][n]["cwd"] # "odd"

(* Nothing that was in the file when it is replaced gets lost.             *)
NothingIsLost ==
    Commits =>
      \A c \in DOMAIN doc.body : \A n \in DOMAIN doc.body[c] :
         c \in DOMAIN doc'.body /\ n \in DOMAIN doc'.body[c]
=============================================================================
