------------------------------ MODULE Discovery ------------------------------
(***************************************************************************)
(* The discovery coordinator (reforge-discovery, coordinator.rs): one scan *)
(* walks the phases in order and the registered adapters of each phase,    *)
(* detects, enumerates under a timeout, normalises observation by          *)
(* observation, and ends with the deduplicated graph.  The user may cancel *)
(* at any moment; the scan looks at the token where the code does.         *)
(*                                                                         *)
(* An adapter is external to the coordinator: [id, phase, available,       *)
(* evidence, result, slow, observations].  result is "ok", "error" or      *)
(* "flood" (over a bound); a slow adapter may or may not beat its timeout. *)
(* An observation is [evidence, valid, components]; one with more evidence *)
(* than an adapter may give is not valid and has none.                     *)
(*                                                                         *)
(* What it computes from the observed components comes first: dedup.rs     *)
(* merges observations of one thing into one component and rewrites the    *)
(* edges, evidence.rs turns evidence into confidence, recommend.rs scores  *)
(* the graph.  Texts are numbers after normalisation (trimmed, lower       *)
(* case), 0 when absent.  A component has the identity facts prov          *)
(* (provider and package), src, fam, prod, role, exe, hash, pub, the       *)
(* publisher record rec with its certificate cert, a version ver,          *)
(* evidence, deps, and what the scores look at.  The identifier is a hash  *)
(* of the strongest identity tuple, so it is that tuple, coded as a        *)
(* number; an adapter's own identifier, for an observation without a       *)
(* tuple, is a number above every code.                                    *)
(***************************************************************************)
EXTENDS Integers, Sequences, FiniteSets, SequencesExt, FiniteSetsExt, TLC

CONSTANTS
    Registries,     \* sequences of adapters, as registered
    Phases,         \* number of phases
    MaxFound,       \* MAX_COMPONENTS
    MaxEdges,       \* MAX_EDGES
    MaxEvidence,    \* MAX_EVIDENCE_RECORDS
    MaxWarnings     \* MAX_WARNINGS

VARIABLES
    entries,        \* the registry, sorted by phase and adapter
    mode,           \* where the scan is
    phase, todo,    \* current phase, adapters of it still to run
    attempted, succeeded, completed,
    queue, useful,  \* observations still to normalise; normalized_any
    ledger,         \* EvidenceLedger: identifier -> record
    warnings, omitted,
    found,          \* components so far
    events,         \* progress delivered
    cancelled,      \* the token
    inventory       \* the result

scanVars == <<entries, mode, phase, todo, attempted, succeeded, completed, queue, useful,
              ledger, warnings, omitted, found, events, cancelled, inventory>>

Code(tier, a, b, c) == 1000 * tier + 100 * a + 10 * b + c
Tier(key) == key \div 1000
OpaqueIds == 9000

PublisherName(c) == IF c.rec # 0 THEN c.rec ELSE c.pub
ProviderKey(c) == IF c.prov # 0 /\ c.src # 0 THEN Code(1, c.prov, c.src, 0) ELSE 0

(* The supported identity tuples of a component, strongest tier first.     *)
IdentityKeys(c) ==
    LET p == PublisherName(c) IN
    {k \in {ProviderKey(c),
            IF c.fam # 0 /\ p # 0 THEN Code(2, c.fam, p, 0) ELSE 0,
            IF c.prod # 0 /\ c.cert # 0 THEN Code(3, c.prod, c.cert, 0) ELSE 0,
            IF c.prod # 0 /\ p # 0 /\ c.role # 0 THEN Code(4, c.prod, p, c.role) ELSE 0,
            IF c.exe # 0 /\ c.hash # 0 THEN Code(5, c.exe, c.hash, 0) ELSE 0} : k # 0}

(* ComponentId::from_identity: the strongest tuple, 0 for an error.        *)
FromIdentity(c) ==
    IF IdentityKeys(c) = {} \/ (c.pub # 0 /\ c.rec # 0 /\ c.pub # c.rec) THEN 0
    ELSE Min(IdentityKeys(c))
Quality(c) == IF FromIdentity(c) = 0 THEN 1 ELSE 6 - Tier(FromIdentity(c))

(***************************************************************************)
(* Grouping: union-find over the observations, as a partition.             *)
(***************************************************************************)
OfTier(keys, t) == {k \in keys : Tier(k) = t}

(* Faulty variant: agreement on any tier overrides a conflict.             *)
IdentityPriorityIgnored(l, r) ==
    /\ l \cap r = {}
    /\ \E t \in 1..5 : OfTier(l, t) # {} /\ OfTier(r, t) # {}
(* Two groups disagree on a tier and agree on no stronger one.             *)
IdentityPriorityConflicts(l, r) ==
    \E t \in 1..5 :
        /\ OfTier(l, t) # {} /\ OfTier(r, t) # {} /\ OfTier(l, t) \cap OfTier(r, t) = {}
        /\ \A u \in 1..(t - 1) : OfTier(l, u) \cap OfTier(r, u) = {}

(* A group has its members, and the root and rank of its tree.             *)
KeysOf(cs, group) == UNION {IdentityKeys(cs[i]) : i \in group.ms}
GroupOf(part, i) == CHOOSE g \in part : i \in g.ms
UnionIfCompatible(cs, part, i, j) ==
    LET l == GroupOf(part, i)
        r == GroupOf(part, j)
        top == IF l.rank < r.rank THEN r ELSE l
    IN IF l = r \/ IdentityPriorityConflicts(KeysOf(cs, l), KeysOf(cs, r)) THEN part
       ELSE (part \ {l, r}) \cup {[ms |-> l.ms \cup r.ms, root |-> top.root,
                                  rank |-> IF l.rank = r.rank THEN l.rank + 1 ELSE top.rank]}

Ascending(S) == SetToSortSeq(S, <)

UnionMembers(cs, part, ms) ==
    FoldLeft(LAMBDA p, i : UnionIfCompatible(cs, p, Min(ms), i), part, Ascending(ms))

(* One key: the holders of each provider, then the ownerless ones with the *)
(* owned when there is a single owner.                                     *)
UnionKey(cs, part, key) ==
    LET holders == {i \in DOMAIN cs : \/ key \in IdentityKeys(cs[i])
                                      \/ IdentityKeys(cs[i]) = {} /\ key = cs[i].id}
        owners == {ProviderKey(cs[i]) : i \in holders}
        bucket(o) == {i \in holders : ProviderKey(cs[i]) = o}
        buckets == FoldLeft(LAMBDA p, o : UnionMembers(cs, p, bucket(o)), part, Ascending(owners))
        owned == UNION {bucket(o) : o \in owners \ {0}}
    IN IF Cardinality(owners \ {0}) # 1 THEN buckets
       ELSE FoldLeft(LAMBDA p, i :
                FoldLeft(LAMBDA q, j : UnionIfCompatible(cs, q, i, j), p, Ascending(owned)),
                buckets, Ascending(bucket(0)))

(* Keys in order, then observations with one identifier.                   *)
BuildGroups(cs) ==
    LET keys == UNION {IF IdentityKeys(cs[i]) = {} THEN {cs[i].id} ELSE IdentityKeys(cs[i]) :
                         i \in DOMAIN cs}
        ids == {cs[i].id : i \in DOMAIN cs}
        singletons == {[ms |-> {i}, root |-> i, rank |-> 0] : i \in DOMAIN cs}
        byKey == FoldLeft(LAMBDA p, k : UnionKey(cs, p, k), singletons, Ascending(keys))
    IN FoldLeft(LAMBDA p, d : UnionMembers(cs, p, {i \in DOMAIN cs : cs[i].id = d}),
                byKey, Ascending(ids))

(***************************************************************************)
(* Confidence.                                                             *)
(***************************************************************************)
(* Faulty variant: repeated evidence of one group is enough.               *)
ConfidenceLax(ids, records, unidentified, conflicting) ==
    LET total == FoldSet(LAMBDA e, n : n + records[e].strength, 0, ids \cap DOMAIN records)
    IN IF unidentified \/ ids = {} THEN "Unknown" ELSE IF total >= 90 THEN "Confirmed" ELSE "Medium"
(* records: a function from evidence identifiers to [strength, group].     *)
ConfidenceForEvidence(ids, records, unidentified, conflicting) ==
    LET known == ids \cap DOMAIN records
        total == FoldSet(LAMBDA e, n : n + records[e].strength, 0, known)
        groups == Cardinality({records[e].group : e \in known})
        capped == Min({total, 100})
        agreed == IF groups >= 2 THEN Min({capped + 10, 100}) ELSE capped
        score == IF conflicting THEN Max({agreed - 20, 0}) ELSE agreed
    IN IF unidentified \/ known # ids \/ ids = {} THEN "Unknown"
       ELSE IF score >= 90 /\ groups >= 2 /\ ~conflicting THEN "Confirmed"
       ELSE IF score >= 75 THEN "High"
       ELSE IF score >= 45 THEN "Medium"
       ELSE IF score >= 20 THEN "Low" ELSE "Unknown"

(***************************************************************************)
(* Merging a group, and the edges.                                         *)
(***************************************************************************)
Base(cs, group) ==
    CHOOSE i \in group : \A j \in group :
        \/ Quality(cs[i]) > Quality(cs[j])
        \/ Quality(cs[i]) = Quality(cs[j]) /\ cs[i].id < cs[j].id
        \/ Quality(cs[i]) = Quality(cs[j]) /\ cs[i].id = cs[j].id /\ i >= j

(* A field the base lacks is filled when the members agree on it.          *)
Fill(cs, group, own, field) ==
    LET values == {cs[i][field] : i \in group} \ {0}
    IN IF own # 0 \/ Cardinality(values) # 1 THEN own ELSE CHOOSE v \in values : TRUE
MergeIdentity(cs, group, b) ==
    [b EXCEPT !.prov = Fill(cs, group, @, "prov"),
              !.src  = Fill(cs, group, @, "src"),
              !.fam  = Fill(cs, group, @, "fam"),
              !.prod = Fill(cs, group, @, "prod"),
              !.exe  = Fill(cs, group, @, "exe"),
              !.pub  = Fill(cs, group, @, "pub"),
              !.hash = Fill(cs, group, @, "hash"),
              !.role = Fill(cs, group, @, "role")]
(* The publisher record is filled as a whole, with the certificate of the  *)
(* first member that has one of that name.                                 *)
MergePublisher(cs, group, b) ==
    LET names == {cs[i].rec : i \in group} \ {0}
    IN IF b.rec # 0 \/ Cardinality(names) # 1 THEN b
       ELSE LET first == Min({i \in group : cs[i].rec # 0})
            IN [b EXCEPT !.rec = cs[first].rec, !.cert = cs[first].cert]
CollectConflicts(cs, group) ==
    \/ Cardinality(({cs[i].rec : i \in group} \cup {cs[i].pub : i \in group}) \ {0}) > 1
    \/ Cardinality({cs[i].ver : i \in group} \ {0}) > 1
    \/ Cardinality({cs[i].src : i \in group} \ {0}) > 1

(* Faulty variant: flags of the base only.                                 *)
MergeRestrictionsBase(cs, group, b) == b
(* What restricts a member restricts the merged component.                 *)
MergeRestrictions(cs, group, b) ==
    [b EXCEPT !.sensitive = \E i \in group : cs[i].sensitive,
              !.elevated  = \E i \in group : cs[i].elevated,
              !.size      = Max({cs[i].size : i \in group})]

MergeComponent(cs, group, records) ==
    LET b == cs[Base(cs, group)]
        m == MergeIdentity(cs, group, MergePublisher(cs, group, b))
        id == FromIdentity(m)
        named == IF id = 0 THEN b ELSE [m EXCEPT !.id = id]
        merged == MergeRestrictions(cs, group, named)
        evidence == UNION {cs[i].evidence : i \in group}
    IN [merged EXCEPT
          !.evidence = evidence,
          !.ver = IF @ # 0 \/ {cs[i].ver : i \in group} = {0} THEN @
                  ELSE Min({cs[i].ver : i \in group} \ {0}),
          !.conf = ConfidenceForEvidence(evidence, records,
                       \E i \in group : IdentityKeys(cs[i]) = {}, CollectConflicts(cs, group)),
          !.members = {cs[i].id : i \in group}]

(* A source identifier in two groups is mapped by the one with the later   *)
(* root.                                                                   *)
ComponentMapping(cs, groups, records) ==
    LET holding(id) == {g \in groups : \E i \in g.ms : cs[i].id = id}
        latest(id) == CHOOSE g \in holding(id) : \A h \in holding(id) : h.root <= g.root
    IN [id \in {cs[i].id : i \in DOMAIN cs} |-> MergeComponent(cs, latest(id).ms, records).id]

(* Faulty variant: the targets are not rewritten.                          *)
MergeEdgesFrom(cs, mapping) ==
    UNION {{[from |-> mapping[cs[i].id], to |-> d.to, required |-> d.required] : d \in cs[i].deps} :
              i \in DOMAIN cs}
MergeEdges(cs, mapping) ==
    LET to(id) == IF id \in DOMAIN mapping THEN mapping[id] ELSE id
    IN UNION {{[from |-> to(cs[i].id), to |-> to(d.to), required |-> d.required] : d \in cs[i].deps} :
                 i \in DOMAIN cs}

(* The observations are sorted by identifier before they are grouped.      *)
ComponentOrder(a, b) == a.id < b.id \/ (a.id = b.id /\ a.kind < b.kind)
DeduplicateGraph(observed, records) ==
    LET cs == SortSeq(observed, ComponentOrder)
        groups == BuildGroups(cs)
    IN [components |-> {MergeComponent(cs, g.ms, records) : g \in groups},
        groups |-> {{cs[i] : i \in g.ms} : g \in groups},
        edges |-> MergeEdges(cs, ComponentMapping(cs, groups, records))]

(***************************************************************************)
(* Recommendations.                                                        *)
(***************************************************************************)
AutoAllowed(c) ==
    ~c.sensitive /\ c.size <= 1 /\ ~c.elevated
    /\ c.portability \notin {"bound", "manual"} /\ c.kind # 16

Points(test, n) == IF test THEN n ELSE 0
ScoreComponent(c) ==
    Points(c.kind \in {0, 1} /\ c.conf = "Confirmed", 30) + Points(c.reachable, 20)
    + Points(c.portability = "portable", 15) + Points(c.kind \in {0, 4, 10, 12}, 10)
    + Points(c.source, 10) - Points(c.portability = "bound", 25)
    - Points(c.elevated \/ c.portability = "manual", 20) - Points(c.size > 1, 15)
    - Points(c.conf \in {"Low", "Unknown"} \/ ~c.source, 10)

(* Promotion to a fixed point: a required dependency of a recommended      *)
(* component gains 20 points once, and is recommended when it may be.      *)
Recommend(graph) ==
    LET promoted(recommended) ==
          {c \in graph.components : \E r \in recommended : \E x \in graph.edges :
              x.required /\ x.from = r.id /\ x.to = c.id /\ r.id # c.id}
        next(recommended) ==
          recommended \cup {c \in promoted(recommended) : AutoAllowed(c) /\ ScoreComponent(c) + 20 > 0}
        promote[recommended \in SUBSET graph.components] ==
          IF next(recommended) = recommended THEN recommended ELSE promote[next(recommended)]
    IN promote[{c \in graph.components : AutoAllowed(c) /\ ScoreComponent(c) > 0}]

(* The dependencies the observations name, each counted.                   *)
EdgeCount(cs) == FoldLeft(LAMBDA n, c : n + Cardinality(c.deps), 0, cs)

-----------------------------------------------------------------------------
NoInventory == [components |-> {}, groups |-> {}, edges |-> {}]
Over == {"done", "cancelled", "failed"}

(* The members of s at the positions in S, in their order.                 *)
Chosen(s, S) ==
    [n \in 1..Cardinality(S) |-> s[CHOOSE i \in S : Cardinality({j \in S : j <= i}) = n]]

(* Registration keeps the entries sorted and refuses a second use of an id.*)
Register(as) ==
    LET unique == {i \in DOMAIN as : \A j \in 1..(i - 1) : as[j].id # as[i].id}
        upTo(i) == {j \in unique : \/ as[j].phase < as[i].phase
                                   \/ as[j].phase = as[i].phase /\ as[j].id <= as[i].id}
    IN [n \in 1..Cardinality(unique) |-> as[CHOOSE i \in unique : Cardinality(upTo(i)) = n]]

ScanInit ==
    /\ \E as \in Registries : entries = Register(as)
    /\ mode = "phase" /\ phase = 1 /\ todo = <<>>
    /\ attempted = 0 /\ succeeded = 0 /\ completed = 0
    /\ queue = <<>> /\ useful = FALSE
    /\ ledger = <<>> /\ warnings = {} /\ omitted = FALSE
    /\ found = <<>> /\ events = <<>>
    /\ cancelled = FALSE /\ inventory = NoInventory

Total == Cardinality({i \in DOMAIN entries : entries[i].phase = phase})
Emit(status, n) == events' = Append(events, [phase |-> phase, status |-> status, completed |-> n])

(***************************************************************************)
(* The ledgers.                                                            *)
(***************************************************************************)
(* A conflicting reuse, a strength over 100 or a full ledger is an error.  *)
Insert(l, e) ==
    IF e.id \in DOMAIN l THEN [l |-> l, ok |-> l[e.id] = e]
    ELSE IF e.strength > 100 \/ Cardinality(DOMAIN l) >= MaxEvidence THEN [l |-> l, ok |-> FALSE]
    ELSE [l |-> [x \in DOMAIN l \cup {e.id} |-> IF x = e.id THEN e ELSE l[x]], ok |-> TRUE]
InsertAll(l, es) ==
    LET after[n \in 0..Len(es)] ==
          IF n = 0 THEN [l |-> l, ok |-> TRUE]
          ELSE LET r == Insert(after[n - 1].l, es[n]) IN [l |-> r.l, ok |-> after[n - 1].ok /\ r.ok]
    IN after[Len(es)]

(* Warnings are a bounded set; past the bound an omission is recorded.     *)
PushWarning(w) ==
    IF Cardinality(warnings) < MaxWarnings - 1
    THEN warnings' = warnings \cup {w} /\ omitted' = omitted
    ELSE warnings' = warnings /\ omitted' = TRUE

(***************************************************************************)
(* The scan.                                                               *)
(***************************************************************************)
Cancel ==
    /\ mode \notin Over /\ ~cancelled
    /\ cancelled' = TRUE
    /\ UNCHANGED <<entries, mode, phase, todo, attempted, succeeded, completed, queue, useful,
                   ledger, warnings, omitted, found, events, inventory>>

(* Faulty variant: the cancellation is reported and the scan goes on.      *)
SeeCancelContinues ==
    /\ cancelled /\ mode \in {"phase", "adapter"}
    /\ Emit("Cancelled", completed) /\ cancelled' = FALSE
    /\ UNCHANGED <<entries, mode, phase, todo, attempted, succeeded, completed, queue, useful,
                   ledger, warnings, omitted, found, inventory>>
(* The token is read before a phase, an adapter and an observation, and    *)
(* wins over an enumeration that is ready.                                 *)
SeeCancel ==
    /\ cancelled
    /\ mode \in {"phase", "adapter", "enumerate", "normalize"}
    /\ mode = "adapter" => todo # <<>>
    /\ mode = "normalize" => queue # <<>>
    /\ mode' = "cancelled"
    /\ Emit("Cancelled", IF mode = "phase" THEN 0 ELSE completed)
    /\ UNCHANGED <<entries, phase, todo, attempted, succeeded, completed, queue, useful,
                   ledger, warnings, omitted, found, cancelled, inventory>>

StartPhase ==
    /\ mode = "phase" /\ ~cancelled
    /\ mode' = "adapter"
    /\ todo' = Chosen(entries, {i \in DOMAIN entries : entries[i].phase = phase})
    /\ attempted' = 0 /\ succeeded' = 0 /\ completed' = 0
    /\ Emit("Started", 0)
    /\ UNCHANGED <<entries, phase, queue, useful, ledger, warnings, omitted, found, cancelled,
                   inventory>>

(* The current adapter is over.                                            *)
NextAdapter(status) ==
    /\ mode' = "adapter"
    /\ todo' = Tail(todo)
    /\ completed' = completed + 1
    /\ Emit(status, completed + 1)

Detect ==
    /\ mode = "adapter" /\ todo # <<>> /\ ~cancelled
    /\ LET a == Head(todo)
           r == InsertAll(ledger, a.evidence)
       IN /\ ledger' = r.l
          /\ IF r.ok THEN UNCHANGED <<warnings, omitted>> ELSE PushWarning(a.id)
          /\ attempted' = attempted + (IF a.available THEN 1 ELSE 0)
          /\ IF r.ok /\ a.available
             THEN mode' = "enumerate" /\ UNCHANGED <<todo, completed, events>>
             ELSE NextAdapter("Progress")
    /\ UNCHANGED <<entries, phase, succeeded, queue, useful, found, cancelled, inventory>>

(* Faulty variant: a failed enumeration is passed over in silence.         *)
EnumerateQuietly ==
    /\ mode = "enumerate" /\ ~cancelled /\ Head(todo).result \in {"error", "flood"}
    /\ NextAdapter("Warning")
    /\ UNCHANGED <<entries, phase, attempted, succeeded, queue, useful, ledger, warnings,
                   omitted, found, cancelled, inventory>>
(* The adapter returned an error, or more than the bounds allow.           *)
EnumerateFails ==
    /\ mode = "enumerate" /\ ~cancelled /\ Head(todo).result \in {"error", "flood"}
    /\ PushWarning(Head(todo).id)
    /\ NextAdapter("Warning")
    /\ UNCHANGED <<entries, phase, attempted, succeeded, queue, useful, ledger, found,
                   cancelled, inventory>>

(* Faulty variant: what the adapter has so far is kept.                    *)
TimeoutKeeps ==
    /\ mode = "enumerate" /\ ~cancelled /\ Head(todo).slow
    /\ PushWarning(Head(todo).id)
    /\ NextAdapter("Warning")
    /\ found' = found \o FlattenSeq([i \in DOMAIN Head(todo).observations |->
                                        Head(todo).observations[i].components])
    /\ UNCHANGED <<entries, phase, attempted, succeeded, queue, useful, ledger, cancelled, inventory>>
(* Faulty variant: the timeout is noted and the adapter waited for.        *)
TimeoutWaits ==
    /\ mode = "enumerate" /\ ~cancelled /\ Head(todo).slow
    /\ PushWarning(Head(todo).id)
    /\ UNCHANGED <<entries, mode, phase, todo, attempted, succeeded, completed, queue, useful,
                   ledger, found, events, cancelled, inventory>>
(* The timeout drops the enumeration with everything it had found.         *)
Timeout ==
    /\ mode = "enumerate" /\ ~cancelled /\ Head(todo).slow
    /\ PushWarning(Head(todo).id)
    /\ NextAdapter("Warning")
    /\ UNCHANGED <<entries, phase, attempted, succeeded, queue, useful, ledger, found,
                   cancelled, inventory>>

Enumerated ==
    /\ mode = "enumerate" /\ ~cancelled /\ Head(todo).result = "ok"
    /\ mode' = "normalize"
    /\ queue' = Head(todo).observations /\ useful' = FALSE
    /\ UNCHANGED <<entries, phase, todo, attempted, succeeded, completed, ledger, warnings,
                   omitted, found, events, cancelled, inventory>>

(* One observation: its evidence, then its components; a bad one costs a   *)
(* warning and the scan goes on; too many components or edges end the scan *)
(* (append_components).                                                    *)
Normalize ==
    /\ mode = "normalize" /\ queue # <<>> /\ ~cancelled
    /\ LET o == Head(queue)
           r == InsertAll(ledger, o.evidence)
           fits == /\ Len(found) + Len(o.components) <= MaxFound
                   /\ EdgeCount(found) + EdgeCount(o.components) <= MaxEdges
       IN /\ ledger' = r.l
          /\ IF r.ok /\ o.valid THEN UNCHANGED <<warnings, omitted>> ELSE PushWarning(Head(todo).id)
          /\ found' = IF o.valid /\ fits THEN found \o o.components ELSE found
          /\ useful' = (useful \/ (o.valid /\ o.components # <<>>))
          /\ mode' = IF o.valid /\ ~fits THEN "failed" ELSE mode
    /\ queue' = Tail(queue)
    /\ UNCHANGED <<entries, phase, todo, attempted, succeeded, completed, events, cancelled, inventory>>

(* Faulty variant: an adapter counts only when it found something.         *)
AdapterDoneStrict ==
    /\ mode = "normalize" /\ queue = <<>>
    /\ succeeded' = succeeded + (IF useful THEN 1 ELSE 0)
    /\ NextAdapter("Progress")
    /\ UNCHANGED <<entries, phase, attempted, queue, useful, ledger, warnings, omitted, found,
                   cancelled, inventory>>
AdapterDone ==
    /\ mode = "normalize" /\ queue = <<>>
    /\ succeeded' = succeeded
           + (IF useful \/ Head(todo).observations = <<>> THEN 1 ELSE 0)
    /\ NextAdapter("Progress")
    /\ UNCHANGED <<entries, phase, attempted, queue, useful, ledger, warnings, omitted, found,
                   cancelled, inventory>>

EndPhase ==
    /\ mode = "adapter" /\ todo = <<>>
    /\ Emit(IF attempted > 0 /\ succeeded = 0 THEN "Failed" ELSE "Completed", completed)
    /\ IF phase < Phases
       THEN phase' = phase + 1 /\ mode' = "phase"
       ELSE phase' = phase /\ mode' = "correlate"
    /\ UNCHANGED <<entries, todo, attempted, succeeded, completed, queue, useful, ledger, warnings,
                   omitted, found, cancelled, inventory>>

Records == [x \in DOMAIN ledger |-> [strength |-> ledger[x].strength, group |-> ledger[x].group]]

(* deduplicate_graph is given the edges of the components and the          *)
(* components, which hold them too, and adds up both.                      *)
Finish ==
    /\ mode = "correlate"
    /\ IF 2 * EdgeCount(found) > MaxEdges
       THEN mode' = "failed" /\ inventory' = inventory
       ELSE mode' = "done" /\ inventory' = DeduplicateGraph(found, Records)
    /\ UNCHANGED <<entries, phase, todo, attempted, succeeded, completed, queue, useful, ledger,
                   warnings, omitted, found, events, cancelled>>

ScanStep ==
    \/ SeeCancel \/ StartPhase \/ Detect \/ EnumerateFails \/ Timeout \/ Enumerated
    \/ Normalize \/ AdapterDone \/ EndPhase \/ Finish
ScanNext == Cancel \/ ScanStep

ScanSpec == ScanInit /\ [][ScanNext]_scanVars

-----------------------------------------------------------------------------
(***************************************************************************)
(* Properties                                                              *)
(***************************************************************************)
ComponentsOf(a) == UNION {Range(a.observations[i].components) : i \in DOMAIN a.observations}
Finished == {i \in DOMAIN entries : entries[i].phase < phase \/ mode \in {"correlate", "done"}}

(* No adapter disappears: one that was available either delivered all its  *)
(* valid observations or is named in a warning, unless the warnings were   *)
(* cut off, which is recorded too.                                         *)
NothingIsLostSilently ==
    \A i \in Finished : LET a == entries[i] IN
        \/ ~a.available \/ omitted \/ a.id \in warnings
        \/ a.result = "ok" /\ ComponentsOf(a) \subseteq Range(found)

(* An adapter that was cut off or failed leaves nothing behind: every      *)
(* component comes from an adapter that was available and returned.        *)
NoPartialOutput ==
    \A c \in Range(found) : \E i \in DOMAIN entries :
        /\ c \in ComponentsOf(entries[i])
        /\ entries[i].available /\ entries[i].result = "ok"
        /\ entries[i].id \notin warnings
           \/ \E o \in Range(entries[i].observations) :
                  ~o.valid \/ \E e \in Range(o.evidence) : e \notin Range(ledger)

(* An adapter worked when its evidence was accepted, its enumeration came  *)
(* back in time, and there was nothing to find or something valid in it.   *)
InPhase(p) == Chosen(entries, {i \in DOMAIN entries : entries[i].phase = p})
Worked(p, k) ==
    LET a == InPhase(p)[k] IN
    /\ a.available /\ Range(a.evidence) \subseteq Range(ledger)
    /\ \E m \in DOMAIN events :
          events[m].phase = p /\ events[m].completed = k /\ events[m].status = "Progress"
    /\ a.observations = <<>> \/ \E o \in Range(a.observations) : o.valid /\ o.components # <<>>

(* A phase is reported as failed exactly when something was available and  *)
(* nothing worked, as completed otherwise, and its last count covers each  *)
(* of its adapters (discover).                                             *)
PhaseReportsAreTrue ==
    \A n \in DOMAIN events : events[n].status \in {"Completed", "Failed"} =>
        LET as == InPhase(events[n].phase) IN
        /\ events[n].completed = Len(as)
        /\ events[n].status = "Failed" <=>
              /\ \E k \in DOMAIN as : as[k].available
              /\ ~\E k \in DOMAIN as : Worked(events[n].phase, k)

(* Progress of a phase starts once, never goes back, and nothing follows a *)
(* cancellation.                                                           *)
ProgressInOrder ==
    \A m, n \in DOMAIN events : m < n =>
        /\ events[m].phase <= events[n].phase
        /\ events[m].status # "Cancelled"
        /\ events[m].phase = events[n].phase =>
               events[n].status # "Started" /\ events[m].completed <= events[n].completed

(* "Provider/package identity conflicts are hard merge boundaries;         *)
(* lower-quality observations cannot bridge them" (dedup.rs).              *)
ProvidersAreNotBridged ==
    \A g \in inventory.groups : Cardinality({ProviderKey(c) : c \in g} \ {0}) <= 1

(* No observation is discarded by the merge, and an edge between observed  *)
(* components points at components of the inventory.                       *)
GraphIsClosed ==
    mode = "done" =>
        /\ \A c \in Range(found) : \E m \in inventory.components : c.id \in m.members
        /\ \A x \in inventory.edges : \A c \in Range(found) :
               c.id \in {x.from, x.to} => \E m \in inventory.components : m.id = c.id

(* A merged component is recommended only when no observation of it was    *)
(* sensitive, elevated or large, required dependencies included.           *)
RecommendationsAreSafe ==
    mode = "done" => \A r \in Recommend(inventory) : \A c \in Range(found) :
        c.id \in r.members /\ Cardinality({m \in inventory.components : c.id \in m.members}) = 1
            => ~c.sensitive /\ ~c.elevated /\ c.size <= 1

(* Confidence is not invented: a component is confirmed only when two      *)
(* independent groups of recorded evidence support it.                     *)
ConfirmedIsSupported ==
    \A m \in inventory.components : m.conf = "Confirmed" =>
        \E x, y \in m.evidence : /\ x \in DOMAIN ledger /\ y \in DOMAIN ledger
                                 /\ ledger[x].group # ledger[y].group

(***************************************************************************)
(* Said by the code or its documents, and not kept (see the README)        *)
(***************************************************************************)
(* A graph within "the reviewed bound" is accepted (deduplicate_graph).    *)
WithinBoundIsAccepted ==
    [][mode = "correlate" => (mode' = "failed" => EdgeCount(found) > MaxEdges)]_scanVars

(* One identifier names one component of the inventory.                    *)
InventoryIdsAreUnique ==
    \A m, n \in inventory.components : m.id = n.id => m = n
=============================================================================
