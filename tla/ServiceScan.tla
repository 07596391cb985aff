---------------------------- MODULE ServiceScan -----------------------------
(***************************************************************************)
(* enumerate_services (reforge-platform-windows, services.rs): the Service *)
(* Control Manager is asked for the size of what is left, then for a page  *)
(* of that size, until it has no more; then every record's service is      *)
(* opened and its configuration is read.  Services come and go meanwhile.  *)
(*                                                                         *)
(* The manager keeps the services in a sequence of [name, size, opens];    *)
(* `resume` is the set of names that were returned, by which it finds the  *)
(* next one to return.                                                     *)
(***************************************************************************)
EXTENDS Naturals, Sequences, FiniteSets, SequencesExt, FiniteSetsExt

CONSTANTS
    Managers,      \* the services at first
    NewServices,   \* services that may be created
    MaxServices, MaxBuffer,
    MaxChanges

VARIABLES
    manager, resume,
    pc, capacity, records,
    observations, errors,    \* ServiceSnapshot
    changes,
    stable         \* history: the services that were there all along

ssVars == <<manager, resume, pc, capacity, records, observations, errors, changes, stable>>

Names(services) == {services[i].name : i \in DOMAIN services}
NoNameTwice(services) == \A i, j \in DOMAIN services : services[i].name = services[j].name => i = j

(* A manager lists services by different names, and a buffer is a number   *)
(* of bytes; "none" is no name, since it marks an error of the whole.      *)
Services == [name : STRING, size : Nat, opens : BOOLEAN]
ServiceAssumption ==
    /\ \A m \in Managers : m \in Seq(Services) /\ NoNameTwice(m) /\ "none" \notin Names(m)
    /\ \A s \in NewServices : s \in Services /\ s.name # "none"
    /\ MaxServices \in Nat /\ MaxBuffer \in Nat /\ MaxChanges \in Nat

SsInit ==
    /\ manager \in Managers /\ resume = {}
    /\ pc = "open" /\ capacity = 0 /\ records = <<>>
    /\ observations = {} /\ errors = {} /\ changes = 0 /\ stable = Names(manager)

(***************************************************************************)
(* EnumServicesStatusExW                                                   *)
(***************************************************************************)
(* The members of s at the positions in S, in their order.                 *)
Chosen(s, S) ==
    [n \in 1..Cardinality(S) |-> s[CHOOSE i \in S : Cardinality({j \in S : j <= i}) = n]]

Rest == Chosen(manager, {i \in DOMAIN manager : manager[i].name \notin resume})
SizeOf(services) ==
    LET size[n \in 0..Len(services)] == IF n = 0 THEN 0 ELSE size[n - 1] + services[n].size
    IN size[Len(services)]

(* As many of the rest as the buffer holds.                                *)
Page == LET fits == {n \in 0..Len(Rest) : SizeOf(SubSeq(Rest, 1, n)) <= capacity}
        IN SubSeq(Rest, 1, Max(fits))

(***************************************************************************)
(* enumerate_services                                                      *)
(***************************************************************************)
Error(name, operation) == errors' = errors \cup {[name |-> name, operation |-> operation]}
Stop(operation) == Error("none", operation) /\ pc' = "done"

OpenManager ==
    /\ pc = "open"
    /\ \/ pc' = "size" /\ UNCHANGED errors
       \/ Stop("open manager")
    /\ UNCHANGED <<manager, resume, capacity, records, observations, changes, stable>>

(* Faulty variant: the buffer keeps its first size.                        *)
AskSizeOnce ==
    /\ pc = "size"
    /\ IF Rest = <<>> THEN pc' = "query" /\ UNCHANGED capacity
       ELSE capacity' = (IF capacity = 0 THEN SizeOf(Rest) ELSE capacity) /\ pc' = "page"
    /\ UNCHANGED <<manager, resume, records, observations, errors, changes, stable>>

(* enumerate_service_records: the call without a buffer, and               *)
(* bounded_capacity of its answer.                                         *)
AskSize ==
    /\ pc = "size"
    /\ \/ Rest = <<>> /\ pc' = "query" /\ UNCHANGED <<capacity, errors>>
       \/ /\ Rest # <<>> /\ SizeOf(Rest) <= MaxBuffer
          /\ capacity' = SizeOf(Rest) /\ pc' = "page" /\ UNCHANGED errors
       \/ Rest # <<>> /\ Stop("enumerate") /\ UNCHANGED capacity    \* too large, or the call fails
    /\ UNCHANGED <<manager, resume, records, observations, changes, stable>>

(* Faulty variant: what is left after a page is not asked for.             *)
ReadOnePage ==
    /\ pc = "page"
    /\ records' = records \o Page /\ resume' = resume \cup Names(Page)
    /\ pc' = "query"
    /\ UNCHANGED <<manager, capacity, observations, errors, changes, stable>>

(* Faulty variant: the next page begins at the first service again.        *)
ReadFromStart ==
    /\ pc = "page"
    /\ LET page == IF records = <<>> THEN Page ELSE manager
       IN records' = records \o page /\ resume' = resume \cup Names(page)
    /\ pc' = IF Len(Page) < Len(Rest) THEN "size" ELSE "query"
    /\ UNCHANGED <<manager, capacity, observations, errors, changes, stable>>

(* The call with the buffer fails and wants a larger one.                  *)
Grow ==
    /\ pc = "page" /\ SizeOf(Rest) > capacity
    /\ IF SizeOf(Rest) <= MaxBuffer THEN capacity' = SizeOf(Rest) /\ UNCHANGED <<pc, errors>>
       ELSE Stop("enumerate") /\ UNCHANGED capacity
    /\ UNCHANGED <<manager, resume, records, observations, changes, stable>>

(* The call with the buffer: ERROR_MORE_DATA also gives a page, any other  *)
(* failure or a name that cannot be read ends the enumeration.             *)
ReadPage ==
    /\ pc = "page"
    /\ records' = records \o Page /\ resume' = resume \cup Names(Page)
    /\ \/ Stop("enumerate")
       \/ Len(records') <= MaxServices /\ pc' = (IF Len(Page) < Len(Rest) THEN "size" ELSE "query") /\ UNCHANGED errors
    /\ UNCHANGED <<manager, capacity, observations, changes, stable>>

(* Faulty variant: a service that does not open any more is left out.      *)
QueryOnlyOpen ==
    /\ pc = "query"
    /\ IF records = <<>> THEN pc' = "done" /\ UNCHANGED <<records, observations, errors>>
       ELSE LET r == Head(records)
                found == \E i \in DOMAIN manager : manager[i].name = r.name /\ manager[i].opens
            IN /\ records' = Tail(records) /\ UNCHANGED pc
               /\ IF found THEN /\ observations' = observations \cup {[name |-> r.name, config |-> TRUE]}
                                /\ UNCHANGED errors
                  ELSE Error(r.name, "open service") /\ UNCHANGED observations
    /\ UNCHANGED <<manager, resume, capacity, changes, stable>>

(* One record: OpenServiceW and query_service_config; either may fail,     *)
(* and the observation is kept without a start mode.                       *)
Query ==
    /\ pc = "query"
    /\ IF records = <<>> THEN pc' = "done" /\ UNCHANGED <<records, observations, errors>>
       ELSE LET r == Head(records)
                found == \E i \in DOMAIN manager : manager[i].name = r.name /\ manager[i].opens
            IN /\ records' = Tail(records) /\ UNCHANGED pc
               /\ \E config \in IF found THEN BOOLEAN ELSE {FALSE} :
                     /\ observations' = observations \cup {[name |-> r.name, config |-> config]}
                     /\ IF config THEN UNCHANGED errors
                        ELSE Error(r.name, IF found THEN "query config" ELSE "open service")
    /\ UNCHANGED <<manager, resume, capacity, changes, stable>>

(***************************************************************************)
(* Services are created, changed and deleted.                              *)
(***************************************************************************)
ChangeServices ==
    /\ changes < MaxChanges /\ changes' = changes + 1 /\ pc # "done"
    /\ \/ \E s \in NewServices : s.name \notin Names(manager) /\ s.name \notin resume
             /\ manager' = Append(manager, s) /\ UNCHANGED stable
       \/ \E i \in DOMAIN manager :
             manager' = RemoveAt(manager, i) /\ stable' = stable \ {manager[i].name}
       \/ \E i \in DOMAIN manager : manager' = [manager EXCEPT ![i].size = @ + 1] /\ UNCHANGED stable
    /\ UNCHANGED <<resume, pc, capacity, records, observations, errors>>

SsStep == OpenManager \/ AskSize \/ Grow \/ ReadPage \/ Query
SsNext == SsStep \/ ChangeServices

SsSpec == SsInit /\ [][SsNext]_ssVars

(***************************************************************************)
(* Properties                                                              *)
(***************************************************************************)
Gave == {e \in errors : e.name = "none"} # {}
Observed == {o.name : o \in observations}

(* A service that is there from the first call to the last is observed,    *)
(* whatever comes, goes or grows meanwhile, unless the snapshot says that  *)
(* the enumeration as a whole failed.                                      *)
StableIsObserved == pc = "done" /\ ~Gave => stable \subseteq Observed

(* Every record becomes an observation, and one without a configuration    *)
(* has its error, also when the service is gone by then.                   *)
RecordIsAccountedFor ==
    /\ pc = "done" /\ ~Gave => resume = Observed
    /\ \A o \in observations : o.config \/ \E e \in errors : e.name = o.name

(* No service stands twice in the pages (the resume handle).               *)
NoServiceTwice == pc # "done" => NoNameTwice(records)
=============================================================================
