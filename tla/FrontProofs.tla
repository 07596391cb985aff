---------------------------- MODULE FrontProofs ----------------------------
(***************************************************************************)
(* Safety of child processes, of elevation, of the run commands, of        *)
(* terminal sessions and of the desktop shell, for every set of commands,  *)
(* requests, runs, processes, machines, files and keys and every bound.    *)
(*                                                                         *)
(* The arguments.  ProcessRunner: until its reader fails, what a stream    *)
(* carried is in the pipe or kept, and the shared counter is what left the *)
(* pipes; so the readers stay within the limit together, and two ends of   *)
(* stream mean that everything was kept.  Elevation: only a connected      *)
(* broker is answered, and the frame in its pipe is its own; terminal rows *)
(* stay terminal, so an operation that is open when the helper decides was *)
(* open when it was asked for.  RunService: a run has one creator, who     *)
(* works before its file exists, and all others work after; so the row     *)
(* that a process relies on is changed by nobody but other executors.      *)
(* Desktop: registered runs and the jobs that will unregister them are one *)
(* to one, although a resumed run gets a second token.  Terminal: at most  *)
(* the package just written is not announced; a run is planned under an    *)
(* identity that no earlier promise names; the screens that offer          *)
(* components have an inventory that was shown.                            *)
(***************************************************************************)
EXTENDS MCFront, TLAPS

-----------------------------------------------------------------------------
(* Elevation: the inductive invariant.                                     *)

OwnFrame(r) == [kind |-> "request", run |-> Requests[r].run, op |-> Requests[r].op, nonce |-> r]

(* What the helper may have decided for the broker's own request.          *)
Earned(r, a) ==
    /\ a.kind = "authorized" =>
          /\ a.run = Elev!Run /\ a.op = Requests[r].op /\ Requests[r].run = Elev!Run
          /\ a.op \in Elevated /\ approved /\ helper[r] = "exited" /\ openAtCall[r]
    /\ a.kind = "rejected" =>
          /\ a.reason = "OperationAlreadyCompleted" =>
                Requests[r].op \in Ops /\ state[Requests[r].op] \in Elev!Terminal
          /\ a.reason = "OperationMissing" =>
                Requests[r].op \notin Ops \/ Requests[r].run # Elev!Run
          /\ a.reason = "OperationNotElevated" => Requests[r].op \notin Elevated
          /\ a.reason \notin {"WrongRun", "WrongNonce"}

OnRequests(f) == f = [r \in Elev!R |-> f[r]]

ElevTypes ==
    /\ broker \in [Elev!R -> {"idle", "connect", "write", "read", "done"}]
    /\ helper \in [Elev!R -> {"none", "starting", "listening", "exited"}]
    /\ client \in [Elev!R -> {"none", "broker", "stray", "gone"}]
    /\ openAtCall \in [Elev!R -> BOOLEAN] /\ approved \in BOOLEAN
    /\ OnRequests(outcome) /\ OnRequests(frame) /\ OnRequests(reply)
    /\ state \in [Ops -> Elev!Terminal \cup {"PENDING", "RUNNING", "FAILED"}]

(* A broker's helper is its own, and what is in the pipe of a connected    *)
(* broker is its own request or nothing; an answer ends the helper.        *)
Exchange(r) ==
    /\ helper[r] # "none" => broker[r] # "idle"
    /\ client[r] # "none" => helper[r] \in {"listening", "exited"}
    /\ broker[r] \in {"write", "read"} => client[r] = "broker"
    /\ client[r] = "none" => frame[r] = Elev!NoFrame
    /\ client[r] \in {"broker", "gone"} => frame[r] \in {Elev!NoFrame, OwnFrame(r)}
    /\ outcome[r].kind # "none" => broker[r] = "done"
    /\ reply[r].kind # "none" => helper[r] = "exited" /\ client[r] \in {"broker", "gone"}

(* Terminal rows stay terminal, so one that is open now was open then.     *)
OpenSinceCall(r) ==
    broker[r] # "idle" /\ Elev!OpenIn(Requests[r].op) => openAtCall[r]

Request(r) ==
    Exchange(r) /\ OpenSinceCall(r) /\ Earned(r, reply[r]) /\ Earned(r, outcome[r])

ElevInv == ElevTypes /\ \A r \in Elev!R : Request(r)

-----------------------------------------------------------------------------
(* ProcessRunner: the inductive invariant.                                 *)

ProcTypes ==
    /\ spec \in Specs
    /\ observed \subseteq {x.component : x \in Registered}
    /\ pc \in {"idle", "select", "join_stdout", "join_stderr", "done"}
    /\ child \in {"none", "running", "exited", "killed"}
    /\ heir \in BOOLEAN /\ cancel \in BOOLEAN /\ late \in BOOLEAN
    /\ pipe \in [Proc!Streams -> 0..MaxWritten]
    /\ written \in [Proc!Streams -> 0..MaxWritten]
    /\ kept \in [Proc!Streams -> 0..MaxWritten]
    /\ reader \in [Proc!Streams -> {"off", "reading", "eof", "failed"}]
    /\ total \in Nat
    /\ answer \in [kind : {"none", "ok", "output_failed", "SecurityPolicy", "ProviderUnavailable",
                           "Io", "OutputError"},
                   exit : BOOLEAN, timedOut : BOOLEAN, cancelled : BOOLEAN]

(* What a stream carried is in the pipe, kept, or lost with its reader.    *)
Stream(s) ==
    /\ kept[s] + pipe[s] <= written[s]
    /\ reader[s] # "failed" => kept[s] + pipe[s] = written[s]
    /\ reader[s] = "eof" => pipe[s] = 0 /\ child # "running" /\ ~heir

(* What the chosen branch of the select says of the child.                 *)
Told ==
    /\ answer.exit => child = "exited" /\ ~answer.timedOut /\ ~answer.cancelled
    /\ answer.timedOut => late /\ ~answer.exit /\ ~answer.cancelled
    /\ answer.cancelled => cancel /\ ~answer.exit
    /\ answer.exit \/ answer.timedOut \/ answer.cancelled

Stage ==
    /\ pc = "idle" => /\ child = "none" /\ ~heir
                      /\ \A s \in Proc!Streams : kept[s] = 0 /\ written[s] = 0
    /\ pc \in {"idle", "select"} => answer = Proc!None
    /\ pc \notin {"idle", "select"} => child # "running" \/ (pc = "done" /\ answer.kind = "Io")
    /\ pc \in {"join_stdout", "join_stderr"} =>
          answer.kind = "output_failed" \/ (answer.kind = "none" /\ Told)
    /\ pc = "join_stderr" => reader["stdout"] = "eof"
    /\ answer.kind = "ok" => /\ pc = "done" /\ Told
                             /\ \A s \in Proc!Streams : reader[s] = "eof"

(* Every unit read is counted, and what is kept is within the limit.       *)
Counted ==
    /\ total = (written["stdout"] - pipe["stdout"]) + (written["stderr"] - pipe["stderr"])
    /\ kept["stdout"] + kept["stderr"] <= spec.limit

ProcInv == ProcTypes /\ Stage /\ Counted /\ \A s \in Proc!Streams : Stream(s)

-----------------------------------------------------------------------------
(* RunService: the inductive invariant.                                    *)

Creators == {"plan", "restore"}
Commands == Creators \cup {"planned", "resume", "verify", "report"}
Steps == {"idle", "inspect", "fetch", "load", "scan", "create", "approve", "save", "require",
          "execute", "rescan", "report"}

Process ==
    [cmd : Commands \cup {"none"}, run : Runs \cup {"none"}, at : Steps,
     pkg : Versions \cup {0}, plan : Versions \cup {0}, seen : SUBSET Runs,
     failed : BOOLEAN, cancelled : BOOLEAN]

JournalRow ==
    [version : Versions \cup {0}, approved : BOOLEAN,
     status : {"none", "ready", "partial", "complete"}]

Saved(v) == [version |-> v, trust |-> "UserApproved"]

(* A process on its way to storing a new run.                              *)
Creating(p) ==
    proc[p].cmd \in Creators /\ proc[p].at \in {"inspect", "scan", "create", "approve", "save"}

(* A process that works on a run whose file is there.                      *)
Working(p) ==
    \/ proc[p].at \in {"require", "execute", "rescan", "report"}
    \/ proc[p].cmd \notin Creators /\ proc[p].at \in {"approve", "scan"}

ServTypes ==
    /\ proc \in [Procs -> Process]
    /\ package \in Versions \cup {0}
    /\ journal \in [Runs -> JournalRow]
    /\ runFile \in [Runs -> [version : Versions \cup {0}, trust : {"none", "UserApproved"}]]
    /\ report \in [Runs -> {"none", "waiting", "verified", "partial"}]
    /\ target \subseteq Runs /\ consented \subseteq Runs
    /\ applied \subseteq Runs \X (Versions \cup {0})
    /\ exits \subseteq [run : Runs, zero : BOOLEAN, failed : BOOLEAN]

Changed(r) == \E x \in applied : x[1] = r

(* Where a process is, against the journal and the file of its run.        *)
Position(p) ==
    LET r == proc[p].run IN
    /\ proc[p].at # "idle" => proc[p].cmd # "none" /\ r \in Runs
    /\ proc[p].at \in {"inspect", "create", "save"} => proc[p].cmd \in Creators
    /\ proc[p].at \in {"load", "fetch", "require"} => proc[p].cmd \notin Creators
    /\ proc[p].at # "idle" /\ proc[p].cmd \in {"restore", "planned"} => r \in consented
    /\ Creating(p) => runFile[r] = Serv!NoFile
    /\ Creating(p) /\ proc[p].at # "inspect" => proc[p].plan = proc[p].pkg
    /\ Creating(p) /\ proc[p].at \in {"inspect", "scan", "create"} => journal[r] = Serv!NoRow
    /\ Creating(p) /\ proc[p].at \in {"approve", "save"} =>
          journal[r].version = proc[p].plan /\ journal[r].status # "none"
    /\ Creating(p) /\ proc[p].at = "save" /\ proc[p].cmd = "restore" => journal[r].approved
    /\ proc[p].at = "approve" => proc[p].cmd \in {"restore", "planned"}
    /\ Working(p) => runFile[r] = Saved(proc[p].pkg) /\ proc[p].plan = proc[p].pkg
    /\ proc[p].at = "execute" => journal[r].approved
    /\ proc[p].at = "scan" /\ proc[p].cmd = "planned" => journal[r].approved
    /\ \A u \in proc[p].seen : Changed(u)

(* The file of a run agrees with its row, and approval was asked for.      *)
Row(r) ==
    /\ runFile[r] # Serv!NoFile =>
          runFile[r] = Saved(journal[r].version) /\ journal[r].status # "none"
    /\ journal[r].approved => r \in consented
    /\ report[r] = "verified" => journal[r].status = "complete" /\ Changed(r)

OneCreator ==
    \A p, q \in Procs : Creating(p) /\ Creating(q) /\ proc[p].run = proc[q].run => p = q

(* The journal, the files, the target and the results against each other.  *)
Stored ==
    /\ \A r \in Runs : Row(r)
    /\ \A u \in target : Changed(u)
    /\ \A x \in applied : runFile[x[1]] = Saved(x[2]) /\ journal[x[1]].approved
    /\ Serv!ExitZeroIsEarned

ServInv == ServTypes /\ OneCreator /\ Stored /\ \A p \in Procs : Position(p)

-----------------------------------------------------------------------------
(* Elevation: the proof.                                                   *)

(* The replies the helper and the broker make up.                          *)
LEMMA ReplyFacts ==
    /\ Elev!NoReply.kind = "none"
    /\ \A why : Elev!Rejected(why).kind = "rejected" /\ Elev!Rejected(why).reason = why
    /\ \A why : Elev!Failed(why).kind = "error"
    /\ [Elev!NoReply EXCEPT !.kind = "manual"].kind = "manual"
    /\ \A u, o : /\ Elev!Authorized(u, o).kind = "authorized"
                 /\ Elev!Authorized(u, o).run = u /\ Elev!Authorized(u, o).op = o
  BY DEF Elev!NoReply, Elev!Rejected, Elev!Failed, Elev!Authorized

LEMMA ElevInitInv == Elev!ElevInit => ElevInv
  <1> SUFFICES ASSUME Elev!ElevInit PROVE ElevInv
    OBVIOUS
  <1>1. ElevTypes
    BY DEF Elev!ElevInit, ElevTypes, OnRequests
  <1>2. ASSUME NEW r \in Elev!R PROVE Request(r)
    BY <1>2, ReplyFacts DEF Elev!ElevInit, Request, Exchange, OpenSinceCall, Earned
  <1> QED
    BY <1>1, <1>2 DEF ElevInv

(* A request survives what leaves its own record alone, since approval and *)
(* terminal rows last.                                                     *)
LEMMA RequestIsStable ==
    ASSUME NEW q \in Elev!R, Request(q),
           broker'[q] = broker[q], outcome'[q] = outcome[q], helper'[q] = helper[q],
           client'[q] = client[q], frame'[q] = frame[q], reply'[q] = reply[q],
           openAtCall'[q] = openAtCall[q], approved => approved',
           \A o \in Ops : state[o] \in Elev!Terminal => state'[o] \in Elev!Terminal
    PROVE  Request(q)'
  <1>1. Exchange(q)'
    BY DEF Request, Exchange, OwnFrame
  <1>2. OpenSinceCall(q)'
    BY DEF Request, OpenSinceCall, Elev!OpenIn
  <1>3. Earned(q, reply[q])'
    BY DEF Request, Earned
  <1>4. Earned(q, outcome[q])'
    BY DEF Request, Earned
  <1> QED
    BY <1>1, <1>2, <1>3, <1>4 DEF Request

(* Nothing but the record of r changes.                                    *)
OnlyRequest(r) ==
    /\ UNCHANGED <<approved, state>>
    /\ \A q \in Elev!R : q # r =>
          /\ broker'[q] = broker[q] /\ outcome'[q] = outcome[q] /\ helper'[q] = helper[q]
          /\ client'[q] = client[q] /\ frame'[q] = frame[q] /\ reply'[q] = reply[q]
          /\ openAtCall'[q] = openAtCall[q]

LEMMA OneRequestSteps ==
    ASSUME ElevInv, NEW r \in Elev!R, OnlyRequest(r), ElevTypes', Request(r)'
    PROVE  ElevInv'
  <1>1. ASSUME NEW q \in Elev!R, q # r PROVE Request(q)'
    BY <1>1, RequestIsStable DEF ElevInv, OnlyRequest
  <1> QED
    BY <1>1 DEF ElevInv

LEMMA JournalSteps ==
    ASSUME ElevInv, Elev!Approve \/ \E o \in Ops : Elev!Advance(o)
    PROVE  ElevInv'
  <1>1. /\ UNCHANGED <<broker, outcome, helper, client, frame, reply, openAtCall>>
        /\ approved => approved'
    BY DEF Elev!Approve, Elev!Advance
  <1>2. /\ \A o \in Ops : state[o] \in Elev!Terminal => state'[o] \in Elev!Terminal
        /\ state' \in [Ops -> Elev!Terminal \cup {"PENDING", "RUNNING", "FAILED"}]
        /\ approved' \in BOOLEAN
    <2>1. CASE Elev!Approve
      BY <2>1 DEF Elev!Approve, ElevInv, ElevTypes
    <2>2. ASSUME NEW o \in Ops, Elev!Advance(o)
          PROVE  /\ \A u \in Ops : state[u] \in Elev!Terminal => state'[u] \in Elev!Terminal
                 /\ state' \in [Ops -> Elev!Terminal \cup {"PENDING", "RUNNING", "FAILED"}]
                 /\ approved' \in BOOLEAN
      BY <2>2 DEF Elev!Advance, ElevInv, ElevTypes, Elev!Terminal
    <2> QED
      BY <2>1, <2>2
  <1>3. ElevTypes'
    BY <1>1, <1>2 DEF ElevInv, ElevTypes, OnRequests
  <1>4. ASSUME NEW q \in Elev!R PROVE Request(q)'
    BY <1>1, <1>2, <1>4, RequestIsStable DEF ElevInv
  <1> QED
    BY <1>3, <1>4 DEF ElevInv

(* The broker ends its call with an answer of its own.                     *)
LEMMA ReturnsOwnAnswer ==
    ASSUME ElevInv, NEW r \in Elev!R, broker[r] \in {"connect", "write", "read"},
           NEW a, a.kind \notin {"authorized", "rejected"}, Elev!Return(r, a),
           client' = client \/ (client[r] = "broker" /\ client' = [client EXCEPT ![r] = "gone"]),
           UNCHANGED <<helper, frame, reply, approved, state, openAtCall>>
    PROVE  ElevInv'
  <1>1. OnlyRequest(r) /\ ElevTypes'
    BY DEF ElevInv, ElevTypes, Elev!Return, OnlyRequest, OnRequests
  <1>2. outcome'[r] = a /\ broker'[r] = "done"
    BY DEF ElevInv, ElevTypes, Elev!Return, OnRequests
  <1>3. Exchange(r)'
    BY <1>2 DEF ElevInv, ElevTypes, Request, Exchange, OwnFrame
  <1>4. OpenSinceCall(r)'
    BY <1>2 DEF ElevInv, Request, OpenSinceCall, Elev!OpenIn
  <1>5. Earned(r, reply[r])' /\ Earned(r, outcome[r])'
    BY <1>2 DEF ElevInv, Request, Earned
  <1> QED
    BY <1>1, <1>3, <1>4, <1>5, OneRequestSteps DEF Request

LEMMA BrokerSteps ==
    ASSUME ElevInv, NEW r \in Elev!R,
           \/ Elev!RequestElevation(r) \/ Elev!ConnectToHelper(r) \/ Elev!ConnectDeadline(r)
           \/ Elev!WriteRequest(r) \/ Elev!BrokerFails(r) \/ Elev!ReadResponse(r)
    PROVE  ElevInv'
  <1> USE DEF OnRequests
  <1>1. CASE Elev!RequestElevation(r)
    <2>1. PICK a : a.kind \notin {"authorized", "rejected"} /\ outcome' \in {outcome, [outcome EXCEPT ![r] = a]}
      BY <1>1, ReplyFacts DEF Elev!RequestElevation, Elev!Return
    <2>2. /\ broker' \in {[broker EXCEPT ![r] = "done"], [broker EXCEPT ![r] = "connect"]}
          /\ helper' \in {helper, [helper EXCEPT ![r] = "starting"]}
          /\ openAtCall' = [openAtCall EXCEPT ![r] = Elev!OpenIn(Requests[r].op)]
          /\ UNCHANGED <<client, frame, reply, approved, state>>
      BY <1>1 DEF Elev!RequestElevation, Elev!Return
    <2>3. OnlyRequest(r)
      BY <2>1, <2>2 DEF ElevInv, ElevTypes, OnlyRequest
    <2>4. ElevTypes'
      BY <2>1, <2>2 DEF ElevInv, ElevTypes, Elev!OpenIn
    <2>5. /\ broker'[r] # "idle" /\ helper[r] = "none" /\ client'[r] = "none"
          /\ frame'[r] = frame[r] /\ reply'[r] = reply[r]
          /\ openAtCall'[r] = Elev!OpenIn(Requests[r].op)
          /\ broker'[r] = "done" \/ (broker'[r] = "connect" /\ outcome'[r] = outcome[r])
          /\ outcome[r].kind = "none"
      BY <1>1 DEF ElevInv, ElevTypes, Request, Exchange, Elev!RequestElevation, Elev!Return
    <2>6. reply[r].kind = "none"
      BY <2>5 DEF ElevInv, Request, Exchange
    <2>7. Exchange(r)'
      BY <1>1, <2>5, <2>6 DEF ElevInv, Request, Exchange, Elev!RequestElevation
    <2>8. OpenSinceCall(r)'
      BY <1>1, <2>5 DEF OpenSinceCall, Elev!OpenIn, Elev!RequestElevation
    <2>9. outcome'[r].kind \notin {"authorized", "rejected"}
      BY <2>1, <2>5 DEF ElevInv, ElevTypes
    <2>10. Earned(r, reply[r])' /\ Earned(r, outcome[r])'
      BY <2>5, <2>6, <2>9 DEF Earned
    <2> QED
      BY <2>7, <2>8, <2>10, <2>3, <2>4, OneRequestSteps DEF Request
  <1>2. CASE Elev!ConnectToHelper(r)
    <2>1. CASE helper[r] = "listening" /\ client[r] = "none"
      <3>1. /\ client' = [client EXCEPT ![r] = "broker"] /\ broker' = [broker EXCEPT ![r] = "write"]
            /\ UNCHANGED <<outcome, helper, frame, reply, approved, state, openAtCall>>
            /\ broker[r] = "connect"
        BY <1>2, <2>1 DEF Elev!ConnectToHelper
      <3>2. OnlyRequest(r) /\ ElevTypes'
        BY <3>1 DEF ElevInv, ElevTypes, OnlyRequest, OnRequests
      <3>3. Exchange(r)'
        BY <2>1, <3>1 DEF ElevInv, ElevTypes, Request, Exchange
      <3>4. OpenSinceCall(r)' /\ Earned(r, reply[r])' /\ Earned(r, outcome[r])'
        BY <3>1 DEF ElevInv, ElevTypes, Request, OpenSinceCall, Earned, Elev!OpenIn
      <3> QED
        BY <3>2, <3>3, <3>4, OneRequestSteps DEF Request
    <2>2. CASE ~(helper[r] = "listening" /\ client[r] = "none")
      <3>1. PICK why \in {"WrongServer", "Exited"} : Elev!Return(r, Elev!Failed(why))
        BY <1>2, <2>2 DEF Elev!ConnectToHelper
      <3> QED
        BY <1>2, <2>2, <3>1, ReplyFacts, ReturnsOwnAnswer DEF Elev!ConnectToHelper
    <2> QED
      BY <2>1, <2>2
  <1>3. CASE Elev!ConnectDeadline(r)
    BY <1>3, ReplyFacts, ReturnsOwnAnswer DEF Elev!ConnectDeadline
  <1>4. CASE Elev!WriteRequest(r)
    <2>1. /\ frame' = [frame EXCEPT ![r] = OwnFrame(r)] /\ broker' = [broker EXCEPT ![r] = "read"]
          /\ UNCHANGED <<outcome, helper, client, reply, approved, state, openAtCall>>
          /\ broker[r] = "write"
      BY <1>4 DEF Elev!WriteRequest, OwnFrame
    <2>2. OnlyRequest(r) /\ ElevTypes'
      BY <2>1 DEF ElevInv, ElevTypes, OnlyRequest, OnRequests
    <2>3. broker'[r] = "read" /\ frame'[r] = OwnFrame(r) /\ client[r] = "broker"
      BY <2>1 DEF ElevInv, ElevTypes, Request, Exchange
    <2>4. Exchange(r)'
      BY <2>1, <2>3 DEF ElevInv, Request, Exchange, OwnFrame
    <2>5. OpenSinceCall(r)' /\ Earned(r, reply[r])' /\ Earned(r, outcome[r])'
      BY <2>1 DEF ElevInv, ElevTypes, Request, OpenSinceCall, Earned, Elev!OpenIn
    <2> QED
      BY <2>2, <2>4, <2>5, OneRequestSteps DEF Request
  <1>5. CASE Elev!BrokerFails(r)
    BY <1>5, ReplyFacts, ReturnsOwnAnswer DEF Elev!BrokerFails, ElevInv, Request, Exchange
  <1>6. CASE Elev!ReadResponse(r)
    <2>1. CASE reply[r].kind = "authorized" /\ reply[r] # Elev!Authorized(Requests[r].run, Requests[r].op)
      BY <1>6, <2>1, ReplyFacts, ReturnsOwnAnswer DEF Elev!ReadResponse
    <2>2. CASE ~(reply[r].kind = "authorized" /\ reply[r] # Elev!Authorized(Requests[r].run, Requests[r].op))
      <3>1. /\ outcome' = [outcome EXCEPT ![r] = reply[r]] /\ broker' = [broker EXCEPT ![r] = "done"]
            /\ UNCHANGED <<helper, client, frame, reply, approved, state, openAtCall>>
            /\ broker[r] = "read"
        BY <1>6, <2>2 DEF Elev!ReadResponse, Elev!Return
      <3>2. OnlyRequest(r) /\ ElevTypes'
        BY <3>1 DEF ElevInv, ElevTypes, OnlyRequest, OnRequests
      <3>3. broker'[r] = "done" /\ outcome'[r] = reply[r]
        BY <3>1 DEF ElevInv, ElevTypes
      <3>4. Exchange(r)' /\ OpenSinceCall(r)'
        BY <3>1, <3>3 DEF ElevInv, Request, Exchange, OpenSinceCall, Elev!OpenIn, OwnFrame
      <3>5. Earned(r, reply[r])' /\ Earned(r, outcome[r])'
        BY <3>1, <3>3 DEF ElevInv, Request, Earned
      <3> QED
        BY <3>2, <3>4, <3>5, OneRequestSteps DEF Request
    <2> QED
      BY <2>1, <2>2
  <1> QED
    BY <1>1, <1>2, <1>3, <1>4, <1>5, <1>6

(* What the helper answers to the broker's own request is warranted.       *)
LEMMA DecisionIsEarned ==
    ASSUME ElevInv, NEW r \in Elev!R, client[r] = "broker", helper[r] = "listening",
           frame[r].kind = "request", helper'[r] = "exited",
           UNCHANGED <<approved, state, openAtCall>>
    PROVE  /\ \A a : a = Elev!Decision(r, frame[r]) => Earned(r, a)'
           /\ Elev!Decision(r, frame[r]).kind \in {"authorized", "rejected"}
  <1>1. frame[r] = OwnFrame(r) /\ broker[r] # "idle"
    BY DEF ElevInv, Request, Exchange, Elev!NoFrame
  <1>2. /\ frame[r].run = Requests[r].run /\ frame[r].op = Requests[r].op /\ frame[r].nonce = r
    BY <1>1 DEF OwnFrame
  <1> DEFINE D == Elev!Decision(r, frame[r])
             u == Requests[r].run
             o == Requests[r].op
  <1>3. \/ D = Elev!Rejected("JournalUnavailable")
        \/ D = Elev!Rejected("OperationMissing") /\ (o \notin Ops \/ u # Elev!Run)
        \/ D = Elev!Rejected("ApprovalMissing")
        \/ D = Elev!Rejected("OperationNotElevated") /\ o \notin Elevated
        \/ D = Elev!Rejected("OperationAlreadyCompleted") /\ o \in Ops /\ state[o] \in Elev!Terminal
        \/ /\ D = Elev!Authorized(u, o) /\ u = Elev!Run /\ approved
           /\ o \in Elevated /\ o \in Ops /\ state[o] \notin Elev!Terminal
    BY <1>2 DEF Elev!Decision, Elev!ReadApproval
  <1>4. o \in Ops /\ state[o] \notin Elev!Terminal => openAtCall[r]
    BY <1>1 DEF ElevInv, Request, OpenSinceCall, Elev!OpenIn
  <1> QED
    BY <1>3, <1>4, ReplyFacts DEF Earned

LEMMA HelperAnswers ==
    ASSUME ElevInv, NEW r \in Elev!R, helper[r] = "listening", client[r] # "none", NEW a,
           Elev!WriteResponse(r, a), client[r] = "broker" => Earned(r, a)',
           UNCHANGED <<broker, outcome, client, frame, approved, state, openAtCall>>
    PROVE  ElevInv'
  <1>1. OnlyRequest(r) /\ ElevTypes'
    BY DEF ElevInv, ElevTypes, OnlyRequest, OnRequests, Elev!WriteResponse, Elev!Exit
  <1>2. helper'[r] = "exited" /\ reply'[r] = (IF client[r] = "broker" THEN a ELSE reply[r])
    BY DEF ElevInv, ElevTypes, OnRequests, Elev!WriteResponse, Elev!Exit
  <1>3. Exchange(r)'
    BY <1>2 DEF ElevInv, Request, Exchange, OwnFrame
  <1>4. OpenSinceCall(r)' /\ Earned(r, outcome[r])'
    BY <1>2 DEF ElevInv, Request, OpenSinceCall, Earned, Elev!OpenIn
  <1>5. Earned(r, reply[r])'
    <2>1. CASE client[r] = "broker"
      BY <1>2, <2>1 DEF Earned
    <2>2. CASE client[r] # "broker"
      BY <1>2, <2>2 DEF ElevInv, Request, Earned
    <2> QED
      BY <2>1, <2>2
  <1> QED
    BY <1>1, <1>3, <1>4, <1>5, OneRequestSteps DEF Request

LEMMA HelperSteps ==
    ASSUME ElevInv, NEW r \in Elev!R,
           \/ Elev!CreatePipe(r) \/ Elev!HelperConnectTimeout(r) \/ Elev!InvalidRequest(r)
           \/ Elev!AuthorizeRequest(r) \/ \E f \in Stray : Elev!StrayConnects(r, f)
    PROVE  ElevInv'
  <1>1. CASE Elev!CreatePipe(r) \/ Elev!HelperConnectTimeout(r)
    <2>1. /\ UNCHANGED <<broker, outcome, client, frame, reply, approved, state, openAtCall>>
          /\ \E h \in {"listening", "exited"} : helper' = [helper EXCEPT ![r] = h]
          /\ helper[r] \in {"starting", "listening"} /\ client[r] = "none"
      BY <1>1 DEF Elev!CreatePipe, Elev!HelperConnectTimeout, Elev!Exit, ElevInv, ElevTypes,
                  Request, Exchange
    <2>2. OnlyRequest(r) /\ ElevTypes'
      BY <2>1 DEF ElevInv, ElevTypes, OnlyRequest, OnRequests
    <2>3. Exchange(r)' /\ OpenSinceCall(r)'
      BY <2>1 DEF ElevInv, ElevTypes, Request, Exchange, OpenSinceCall, Elev!OpenIn, OwnFrame
    <2>4. Earned(r, reply[r])' /\ Earned(r, outcome[r])'
      BY <2>1 DEF ElevInv, ElevTypes, Request, Earned
    <2> QED
      BY <2>2, <2>3, <2>4, OneRequestSteps DEF Request
  <1>2. CASE Elev!InvalidRequest(r)
    <2>1. ASSUME NEW why, why = "InvalidRequest"
          PROVE  Earned(r, Elev!Rejected(why))'
      BY <2>1, ReplyFacts DEF Earned
    <2> QED
      BY <1>2, <2>1, HelperAnswers DEF Elev!InvalidRequest
  <1>3. CASE Elev!AuthorizeRequest(r)
    <2>1. /\ helper[r] = "listening" /\ frame[r].kind = "request"
          /\ UNCHANGED <<broker, outcome, client, frame, approved, state, openAtCall>>
      BY <1>3 DEF Elev!AuthorizeRequest
    <2>2. client[r] # "none"
      BY <2>1 DEF ElevInv, Request, Exchange, Elev!NoFrame
    <2>3. CASE Elev!WriteResponse(r, Elev!Decision(r, frame[r]))
      <3>1. helper'[r] = "exited"
        BY <2>3 DEF Elev!WriteResponse, Elev!Exit, ElevInv, ElevTypes
      <3>2. PICK a : a = Elev!Decision(r, frame[r])
        OBVIOUS
      <3>3. client[r] = "broker" => Earned(r, a)'
        BY <2>1, <3>1, <3>2, DecisionIsEarned
      <3> QED
        BY <2>1, <2>2, <2>3, <3>2, <3>3, HelperAnswers
    <2>4. CASE Elev!WriteResponse(r, Elev!Rejected("JournalUnavailable"))
      <3>1. Earned(r, Elev!Rejected("JournalUnavailable"))'
        BY ReplyFacts DEF Earned
      <3> QED
        BY <2>1, <2>2, <2>4, <3>1, HelperAnswers
    <2> QED
      BY <1>3, <2>3, <2>4 DEF Elev!AuthorizeRequest
  <1>4. ASSUME NEW f \in Stray, Elev!StrayConnects(r, f) PROVE ElevInv'
    <2>1. /\ client' = [client EXCEPT ![r] = "stray"] /\ frame' = [frame EXCEPT ![r] = f]
          /\ UNCHANGED <<broker, outcome, helper, reply, approved, state, openAtCall>>
          /\ helper[r] = "listening" /\ client[r] = "none"
      BY <1>4 DEF Elev!StrayConnects
    <2>2. OnlyRequest(r) /\ ElevTypes'
      BY <2>1 DEF ElevInv, ElevTypes, OnlyRequest, OnRequests
    <2>3. Exchange(r)' /\ OpenSinceCall(r)'
      BY <2>1 DEF ElevInv, ElevTypes, Request, Exchange, OpenSinceCall, Elev!OpenIn
    <2>4. Earned(r, reply[r])' /\ Earned(r, outcome[r])'
      BY <2>1 DEF ElevInv, ElevTypes, Request, Earned
    <2> QED
      BY <2>2, <2>3, <2>4, OneRequestSteps DEF Request
  <1> QED
    BY <1>1, <1>2, <1>3, <1>4

LEMMA ElevStepInv == ElevInv /\ [Elev!ElevNext]_(Elev!elevVars) => ElevInv'
  <1> SUFFICES ASSUME ElevInv, [Elev!ElevNext]_(Elev!elevVars) PROVE ElevInv'
    OBVIOUS
  <1>1. CASE UNCHANGED Elev!elevVars
    <2>1. UNCHANGED <<broker, outcome, helper, client, frame, reply, approved, state, openAtCall>>
      BY <1>1 DEF Elev!elevVars
    <2> QED
      BY <2>1, RequestIsStable DEF ElevInv, ElevTypes, OnRequests
  <1> QED
    BY <1>1, JournalSteps, BrokerSteps, HelperSteps DEF Elev!ElevNext, Elev!Finished

LEMMA ElevInvImplies ==
    ElevInv => /\ Elev!ElevTypeOK /\ Elev!AuthorizationIsEarned
               /\ Elev!AuthorizationIsNotStale /\ Elev!RejectionIsTrue
  BY DEF ElevInv, ElevTypes, Request, Exchange, Earned, Elev!ElevTypeOK,
         Elev!AuthorizationIsEarned, Elev!AuthorizationIsNotStale, Elev!RejectionIsTrue

-----------------------------------------------------------------------------
(* ProcessRunner: the proof.                                               *)

LEMMA StreamFacts ==
    /\ Proc!Streams = {"stdout", "stderr"}
    /\ "stdout" \in Proc!Streams /\ "stderr" \in Proc!Streams
  BY DEF Proc!Streams

LEMMA ProcInitInv == Proc!RunInit => ProcInv
  <1> SUFFICES ASSUME Proc!RunInit PROVE ProcInv
    OBVIOUS
  <1>1. 0 \in 0..MaxWritten /\ spec.limit \in Nat
    BY ProcessAssumption DEF Proc!RunInit
  <1>2. ProcTypes
    BY <1>1 DEF Proc!RunInit, ProcTypes, Proc!Zero, Proc!None
  <1>3. Stage
    BY <1>1 DEF Proc!RunInit, Stage, Proc!Zero, Proc!None
  <1>4. Counted
    BY <1>1 DEF Proc!RunInit, Counted, Proc!Zero, Proc!Streams
  <1>5. \A s \in Proc!Streams : Stream(s)
    BY DEF Proc!RunInit, Stream, Proc!Zero
  <1> QED
    BY <1>2, <1>3, <1>4, <1>5 DEF ProcInv

(* Steps of the child, its descendant, the caller and the clock.           *)
LEMMA EnvironmentSteps ==
    ASSUME ProcInv,
           \/ \E x \in Registered : Proc!RegisterObserved(x)
           \/ Proc!ChildExits \/ Proc!ChildSpawns \/ Proc!HeirExits
           \/ Proc!Cancel \/ Proc!DeadlinePasses
    PROVE  ProcInv'
  <1>1. /\ UNCHANGED <<spec, pc, pipe, written, kept, reader, total, answer>>
        /\ \/ UNCHANGED child
           \/ child = "running" /\ child' = "exited"
        /\ \/ UNCHANGED heir
           \/ child = "running" /\ child' = child /\ heir' = TRUE
           \/ heir' = FALSE
        /\ cancel' \in BOOLEAN /\ late' \in BOOLEAN
        /\ cancel => cancel'
        /\ late => late'
    BY DEF ProcInv, ProcTypes, Proc!RegisterObserved, Proc!ChildExits, Proc!ChildSpawns,
           Proc!HeirExits, Proc!Cancel, Proc!DeadlinePasses
  <1>2. observed' \subseteq {x.component : x \in Registered}
    BY DEF ProcInv, ProcTypes, Proc!RegisterObserved, Proc!ChildExits, Proc!ChildSpawns,
           Proc!HeirExits, Proc!Cancel, Proc!DeadlinePasses
  <1>3. ProcTypes'
    BY <1>1, <1>2, ZenonT(40) DEF ProcInv, ProcTypes
  <1>4. Stage'
    BY <1>1 DEF ProcInv, Stage, Told, ProcTypes
  <1>5. Counted' /\ \A s \in Proc!Streams : Stream(s)'
    BY <1>1 DEF ProcInv, Counted, Stream
  <1> QED
    BY <1>3, <1>4, <1>5 DEF ProcInv

LEMMA WriteSteps ==
    ASSUME ProcInv, NEW s \in Proc!Streams, NEW n \in 1..2, Proc!Writes(s, n)
    PROVE  ProcInv'
  <1>1. /\ child = "running" \/ heir
        /\ written[s] + n <= MaxWritten
        /\ pipe' = [pipe EXCEPT ![s] = pipe[s] + n]
        /\ written' = [written EXCEPT ![s] = written[s] + n]
        /\ UNCHANGED <<spec, observed, pc, child, heir, kept, reader, total, cancel, late, answer>>
    BY DEF Proc!Writes
  <1>2. ASSUME NEW t \in Proc!Streams
        PROVE  /\ pipe[t] \in Nat /\ written[t] \in Nat /\ kept[t] \in Nat
               /\ kept[t] + pipe[t] <= written[t]
    BY <1>2, ProcessAssumption DEF ProcInv, ProcTypes, Stream
  <1>3. pipe[s] + n \in 0..MaxWritten /\ written[s] + n \in 0..MaxWritten
    BY <1>1, <1>2, ProcessAssumption
  <1>4. ProcTypes'
    BY <1>1, <1>3 DEF ProcInv, ProcTypes
  <1>5. Stage'
    BY <1>1 DEF ProcInv, Stage, Stream, Told
  <1>6. Counted'
    <2>1. CASE s = "stdout"
      BY <1>1, <1>2, <2>1, StreamFacts DEF ProcInv, Counted, ProcTypes
    <2>2. CASE s = "stderr"
      BY <1>1, <1>2, <2>2, StreamFacts DEF ProcInv, Counted, ProcTypes
    <2> QED
      BY <2>1, <2>2, StreamFacts
  <1>7. ASSUME NEW t \in Proc!Streams PROVE Stream(t)'
    <2>1. CASE t = s
      BY <1>1, <1>2, <2>1 DEF ProcInv, Stream, ProcTypes
    <2>2. CASE t # s
      BY <1>1, <1>7, <2>2 DEF ProcInv, Stream, ProcTypes
    <2> QED
      BY <2>1, <2>2
  <1> QED
    BY <1>4, <1>5, <1>6, <1>7 DEF ProcInv

LEMMA StartSteps ==
    ASSUME ProcInv, Proc!Start
    PROVE  ProcInv'
  <1>1. /\ pc = "idle"
        /\ UNCHANGED <<spec, observed, heir, pipe, written, kept, total, cancel, late>>
        /\ \/ \E code \in {"SecurityPolicy", "ProviderUnavailable", "Io"} :
                /\ pc' = "done" /\ answer' = Proc!Error(code) /\ UNCHANGED <<child, reader>>
           \/ /\ pc' = "select" /\ child' = "running" /\ UNCHANGED answer
              /\ reader' = [s \in Proc!Streams |-> "reading"]
    BY DEF Proc!Start, Proc!Return
  <1>2. child = "none" /\ ~heir /\ answer = Proc!None
    BY <1>1 DEF ProcInv, Stage
  <1>3. ASSUME NEW s \in Proc!Streams PROVE kept[s] = 0 /\ written[s] = 0 /\ pipe[s] = 0
    BY <1>1, <1>3, ProcessAssumption DEF ProcInv, Stage, Stream, ProcTypes
  <1>4. ASSUME pc' = "select" PROVE ProcTypes' /\ Stage'
    <2>1. ProcTypes'
      BY <1>1, <1>4 DEF ProcInv, ProcTypes
    <2>2. Stage'
      BY <1>1, <1>2, <1>4 DEF Stage, Proc!None
    <2> QED
      BY <2>1, <2>2
  <1>5. ASSUME NEW code \in {"SecurityPolicy", "ProviderUnavailable", "Io"},
               pc' = "done", answer' = Proc!Error(code), UNCHANGED <<child, reader>>
        PROVE  ProcTypes' /\ Stage'
    <2>1. /\ answer'.kind = code
          /\ answer' \in [kind : {"none", "ok", "output_failed", "SecurityPolicy",
                                 "ProviderUnavailable", "Io", "OutputError"},
                          exit : BOOLEAN, timedOut : BOOLEAN, cancelled : BOOLEAN]
      BY <1>5 DEF Proc!Error, Proc!None
    <2>2. ProcTypes'
      BY <1>1, <1>5, <2>1 DEF ProcInv, ProcTypes
    <2>3. Stage'
      BY <1>2, <1>5, <2>1 DEF Stage
    <2> QED
      BY <2>2, <2>3
  <1>6. ProcTypes' /\ Stage'
    BY <1>1, <1>4, <1>5
  <1>7. Counted'
    BY <1>1 DEF ProcInv, Counted
  <1>8. \A s \in Proc!Streams : Stream(s)'
    BY <1>1, <1>2, <1>3 DEF Stream
  <1> QED
    BY <1>6, <1>7, <1>8 DEF ProcInv

LEMMA ReadSteps ==
    ASSUME ProcInv, NEW s \in Proc!Streams, Proc!Read(s)
    PROVE  ProcInv'
  <1> DEFINE n == Proc!Least(pipe[s], Buffer)
  <1>1. ASSUME NEW t \in Proc!Streams
        PROVE  /\ pipe[t] \in Nat /\ written[t] \in Nat /\ kept[t] \in Nat
               /\ pipe[t] <= MaxWritten /\ written[t] <= MaxWritten
               /\ kept[t] + pipe[t] <= written[t]
    BY <1>1, ProcessAssumption DEF ProcInv, ProcTypes, Stream
  <1>2. n \in Nat /\ n > 0 /\ n <= pipe[s]
    BY <1>1, ProcessAssumption DEF Proc!Read, Proc!Least
  <1>3. /\ reader[s] = "reading"
        /\ pipe' = [pipe EXCEPT ![s] = pipe[s] - n] /\ total' = total + n
        /\ UNCHANGED <<spec, observed, pc, child, heir, written, cancel, late, answer>>
        /\ \/ /\ reader' = [reader EXCEPT ![s] = "failed"] /\ UNCHANGED kept
           \/ /\ total + n <= spec.limit
              /\ kept' = [kept EXCEPT ![s] = kept[s] + n] /\ UNCHANGED reader
    <2>1. total + n \in Nat /\ spec.limit \in Nat
      BY <1>2, ProcessAssumption DEF ProcInv, ProcTypes
    <2>2. total + n > spec.limit \/ total + n <= spec.limit
      BY <2>1
    <2> QED
      BY <2>2 DEF Proc!Read
  <1> HIDE DEF n
  <1>4. ProcTypes'
    <2>1. pipe[s] - n \in 0..MaxWritten /\ kept[s] + n \in 0..MaxWritten /\ total + n \in Nat
      BY <1>1, <1>2, ProcessAssumption DEF ProcInv, ProcTypes
    <2> QED
      BY <1>3, <2>1 DEF ProcInv, ProcTypes
  <1>5. Stage'
    <2>1. pc # "idle" /\ answer.kind # "ok"
      BY <1>2, <1>3, <1>1 DEF ProcInv, Stage
    <2>2. pc = "join_stderr" => s # "stdout"
      BY <1>3 DEF ProcInv, Stage
    <2> QED
      BY <1>3, <2>1, <2>2, StreamFacts DEF ProcInv, Stage, Told, ProcTypes
  <1>6. Counted'
    <2>1. total' = (written'["stdout"] - pipe'["stdout"]) + (written'["stderr"] - pipe'["stderr"])
      <3>1. CASE s = "stdout"
        BY <1>1, <1>2, <1>3, <3>1, StreamFacts DEF ProcInv, Counted, ProcTypes
      <3>2. CASE s = "stderr"
        BY <1>1, <1>2, <1>3, <3>2, StreamFacts DEF ProcInv, Counted, ProcTypes
      <3> QED
        BY <3>1, <3>2, StreamFacts
    <2>2. CASE UNCHANGED kept
      BY <1>3, <2>1, <2>2 DEF ProcInv, Counted
    <2>3. CASE total + n <= spec.limit /\ kept' = [kept EXCEPT ![s] = kept[s] + n]
      <3>1. kept["stdout"] + kept["stderr"] <= total
        BY <1>1, StreamFacts DEF ProcInv, Counted
      <3>2. kept'["stdout"] + kept'["stderr"] = kept["stdout"] + kept["stderr"] + n
        <4>1. CASE s = "stdout"
          BY <1>1, <1>2, <2>3, <4>1, StreamFacts DEF ProcInv, ProcTypes
        <4>2. CASE s = "stderr"
          BY <1>1, <1>2, <2>3, <4>2, StreamFacts DEF ProcInv, ProcTypes
        <4> QED
          BY <4>1, <4>2, StreamFacts
      <3>3. kept["stdout"] \in Nat /\ kept["stderr"] \in Nat /\ total \in Nat /\ spec.limit \in Nat
        BY <1>1, StreamFacts, ProcessAssumption DEF ProcInv, ProcTypes
      <3>4. kept'["stdout"] + kept'["stderr"] <= spec'.limit
        BY <1>2, <1>3, <2>3, <3>1, <3>2, <3>3
      <3> QED
        BY <2>1, <3>4 DEF Counted
    <2> QED
      BY <1>3, <2>2, <2>3
  <1>7. ASSUME NEW t \in Proc!Streams PROVE Stream(t)'
    <2>1. CASE t = s
      BY <1>1, <1>2, <1>3, <2>1 DEF ProcInv, Stream, ProcTypes
    <2>2. CASE t # s
      BY <1>3, <1>7, <2>2 DEF ProcInv, Stream, ProcTypes
    <2> QED
      BY <2>1, <2>2
  <1> QED
    BY <1>4, <1>5, <1>6, <1>7 DEF ProcInv

(* A reader that ends, or fails and loses what it had not read.            *)
LEMMA ReaderEndSteps ==
    ASSUME ProcInv, NEW s \in Proc!Streams, Proc!ReadFails(s) \/ Proc!ReadEnd(s)
    PROVE  ProcInv'
  <1>1. /\ reader[s] = "reading"
        /\ UNCHANGED <<spec, observed, pc, child, heir, pipe, written, kept, total, cancel, late,
                       answer>>
        /\ \/ reader' = [reader EXCEPT ![s] = "failed"]
           \/ /\ reader' = [reader EXCEPT ![s] = "eof"]
              /\ pipe[s] = 0 /\ child # "running" /\ ~heir
    BY DEF Proc!ReadFails, Proc!ReadEnd
  <1>2. ProcTypes'
    BY <1>1 DEF ProcInv, ProcTypes
  <1>3. Counted'
    BY <1>1 DEF ProcInv, Counted
  <1>4. Stage'
    BY <1>1, StreamFacts DEF ProcInv, Stage, Told, ProcTypes
  <1>5. \A t \in Proc!Streams : Stream(t)'
    BY <1>1 DEF ProcInv, Stream, ProcTypes
  <1> QED
    BY <1>2, <1>4, <1>5, <1>3 DEF ProcInv

LEMMA SelectSteps ==
    ASSUME ProcInv, Proc!Selects
    PROVE  ProcInv'
  <1>1. /\ pc = "select" /\ pc' = "join_stdout"
        /\ UNCHANGED <<spec, observed, heir, pipe, written, kept, reader, total, cancel, late>>
        /\ child' = IF child = "running" THEN "killed" ELSE child
    BY DEF Proc!Selects, Proc!SelectCancelled, Proc!SelectTimeout, Proc!SelectOutputFailure,
           Proc!SelectExit, Proc!Chosen, Proc!TerminateAndWait
  <1>2. \/ answer' = [Proc!None EXCEPT !.cancelled = TRUE] /\ cancel
        \/ answer' = [Proc!None EXCEPT !.timedOut = TRUE] /\ late
        \/ answer' = Proc!Error("output_failed")
        \/ answer' = [Proc!None EXCEPT !.exit = TRUE] /\ child' = "exited"
    BY DEF Proc!Selects, Proc!SelectCancelled, Proc!SelectTimeout, Proc!SelectOutputFailure,
           Proc!SelectExit, Proc!Chosen
  <1>3. ProcTypes'
    BY <1>1, <1>2 DEF ProcInv, ProcTypes, Proc!None, Proc!Error
  <1>4. answer'.kind = "output_failed" \/ (answer'.kind = "none" /\ Told')
    BY <1>1, <1>2 DEF Told, Proc!None, Proc!Error
  <1>5. Stage'
    BY <1>1, <1>4 DEF Stage
  <1>6. Counted' /\ \A s \in Proc!Streams : Stream(s)'
    BY <1>1 DEF ProcInv, Counted, Stream
  <1> QED
    BY <1>3, <1>5, <1>6 DEF ProcInv

LEMMA SelectFailsSteps ==
    ASSUME ProcInv, Proc!SelectFails
    PROVE  ProcInv'
  <1>1. /\ pc = "select" /\ pc' = "done" /\ answer' = Proc!Error("Io")
        /\ UNCHANGED <<spec, observed, heir, pipe, written, kept, reader, total, cancel, late>>
        /\ child' = child \/ child' = IF child = "running" THEN "killed" ELSE child
    BY DEF Proc!SelectFails, Proc!Return, Proc!TerminateAndWait
  <1>2. ProcTypes'
    BY <1>1 DEF ProcInv, ProcTypes, Proc!None, Proc!Error
  <1>3. Stage'
    BY <1>1 DEF Stage, Proc!None, Proc!Error
  <1>4. Counted' /\ \A s \in Proc!Streams : Stream(s)'
    BY <1>1 DEF ProcInv, Counted, Stream
  <1> QED
    BY <1>2, <1>3, <1>4 DEF ProcInv

LEMMA JoinSteps ==
    ASSUME ProcInv, Proc!Joins
    PROVE  ProcInv'
  <1>1. UNCHANGED <<spec, observed, child, heir, pipe, written, kept, reader, total, cancel, late>>
    BY DEF Proc!Joins, Proc!JoinStdout, Proc!JoinStderr
  <1>2. /\ pc \in {"join_stdout", "join_stderr"}
        /\ \/ pc' = "done" /\ answer' = Proc!Error("OutputError")
           \/ pc' = "join_stderr" /\ UNCHANGED answer /\ reader["stdout"] = "eof"
           \/ /\ pc = "join_stderr" /\ pc' = "done" /\ answer' = [answer EXCEPT !.kind = "ok"]
              /\ answer.kind # "output_failed" /\ reader["stderr"] = "eof"
    BY DEF Proc!Joins, Proc!JoinStdout, Proc!JoinStderr, Proc!Return
  <1>3. ProcTypes'
    BY <1>1, <1>2 DEF ProcInv, ProcTypes, Proc!Error, Proc!None
  <1>4. Stage'
    <2>1. CASE pc' = "done" /\ answer' = Proc!Error("OutputError")
      BY <1>1, <1>2, <2>1 DEF ProcInv, Stage, Proc!Error, Proc!None
    <2>2. CASE pc' = "join_stderr" /\ UNCHANGED answer /\ reader["stdout"] = "eof"
      BY <1>1, <1>2, <2>2 DEF ProcInv, Stage, Told
    <2>3. CASE /\ pc = "join_stderr" /\ pc' = "done" /\ answer' = [answer EXCEPT !.kind = "ok"]
               /\ answer.kind # "output_failed" /\ reader["stderr"] = "eof"
      <3>1. Told /\ reader["stdout"] = "eof" /\ child # "running"
        BY <2>3 DEF ProcInv, Stage
      <3>2. answer'.kind = "ok" /\ Told'
        BY <1>1, <2>3, <3>1 DEF ProcInv, ProcTypes, Told
      <3> QED
        BY <1>1, <2>3, <3>1, <3>2, StreamFacts DEF Stage
    <2> QED
      BY <1>2, <2>1, <2>2, <2>3
  <1>5. Counted' /\ \A s \in Proc!Streams : Stream(s)'
    BY <1>1 DEF ProcInv, Counted, Stream
  <1> QED
    BY <1>3, <1>4, <1>5 DEF ProcInv

LEMMA ProcStepInv == ProcInv /\ [Proc!RunNext]_(Proc!procVars) => ProcInv'
  <1> SUFFICES ASSUME ProcInv, [Proc!RunNext]_(Proc!procVars) PROVE ProcInv'
    OBVIOUS
  <1>1. CASE UNCHANGED Proc!procVars
    BY <1>1 DEF Proc!procVars, ProcInv, ProcTypes, Stage, Told, Counted, Stream
  <1> QED
    BY <1>1, EnvironmentSteps, WriteSteps, StartSteps, ReadSteps, ReaderEndSteps, SelectSteps,
       SelectFailsSteps, JoinSteps DEF Proc!RunNext, Proc!Readers, Proc!Finished

LEMMA ProcInvImplies ==
    ProcInv => /\ Proc!ProcTypeOK /\ Proc!OutputIsBounded /\ Proc!ResultIsComplete
               /\ Proc!NothingLeftRunning /\ Proc!ResultIsTrue
  <1> SUFFICES ASSUME ProcInv
               PROVE  /\ Proc!ProcTypeOK /\ Proc!OutputIsBounded /\ Proc!ResultIsComplete
                      /\ Proc!NothingLeftRunning /\ Proc!ResultIsTrue
    OBVIOUS
  <1>1. ASSUME NEW s \in Proc!Streams
        PROVE  pipe[s] \in Nat /\ written[s] \in Nat /\ kept[s] \in Nat
    BY <1>1, ProcessAssumption DEF ProcInv, ProcTypes
  <1>2. total = written["stdout"] - pipe["stdout"] + written["stderr"] - pipe["stderr"]
    BY <1>1, StreamFacts DEF ProcInv, Counted
  <1>3. Proc!ProcTypeOK
    BY <1>2 DEF ProcInv, ProcTypes, Proc!ProcTypeOK
  <1>4. Proc!OutputIsBounded /\ Proc!NothingLeftRunning /\ Proc!ResultIsTrue
    BY DEF ProcInv, Counted, Stage, Told, Proc!OutputIsBounded, Proc!NothingLeftRunning,
           Proc!ResultIsTrue
  <1>5. Proc!ResultIsComplete
    <2> SUFFICES ASSUME answer.kind = "ok" PROVE kept = written
      BY DEF Proc!ResultIsComplete
    <2>1. ASSUME NEW s \in Proc!Streams PROVE kept[s] = written[s]
      BY <1>1, <2>1 DEF ProcInv, Stage, Stream
    <2> QED
      BY <2>1 DEF ProcInv, ProcTypes
  <1> QED
    BY <1>3, <1>4, <1>5

-----------------------------------------------------------------------------
(* RunService: the proof.                                                  *)

LEMMA FileFacts == \A v : Saved(v) # Serv!NoFile
  BY DEF Saved, Serv!NoFile

LEMMA ServInitInv == Serv!ServiceInit => ServInv
  <1> SUFFICES ASSUME Serv!ServiceInit PROVE ServInv
    OBVIOUS
  <1>1. Serv!Idle \in Process
    BY DEF Serv!Idle, Process, Commands, Steps
  <1>2. ServTypes
    BY <1>1 DEF Serv!ServiceInit, ServTypes, JournalRow, Serv!NoRow, Serv!NoFile
  <1>3. OneCreator /\ \A p \in Procs : Position(p)
    BY DEF Serv!ServiceInit, OneCreator, Position, Creating, Working, Serv!Idle, Creators
  <1>4. Stored
    BY DEF Serv!ServiceInit, Stored, Row, Serv!NoRow, Serv!ExitZeroIsEarned
  <1> QED
    BY <1>2, <1>3, <1>4 DEF ServInv

(* While a process works on a run, nobody creates it; while one creates    *)
(* it, nobody works on it and nobody else creates it.                      *)
LEMMA RunsAreApart ==
    ASSUME ServInv, NEW p \in Procs, NEW q \in Procs, p # q, proc[p].run = proc[q].run
    PROVE  /\ Working(p) => ~Creating(q)
           /\ Creating(p) => ~Creating(q) /\ ~Working(q)
  BY FileFacts DEF ServInv, OneCreator, Position

(* What a step leaves q of the journal and the file of its run.            *)
Kept(q) ==
    LET r == proc[q].run IN
    \/ runFile'[r] = runFile[r] /\ journal'[r] = journal[r]
    \/ ~Creating(q) /\ ~Working(q)
    \/ /\ ~Creating(q) /\ runFile'[r] = runFile[r]
       /\ journal[r].approved => journal'[r].approved

LEMMA PositionIsStable ==
    ASSUME NEW q \in Procs, Position(q), proc'[q] = proc[q], consented \subseteq consented',
           applied \subseteq applied', Kept(q)
    PROVE  Position(q)'
  <1>1. \A u : Changed(u) => Changed(u)'
    BY DEF Changed
  <1>2. /\ Creating(q)' <=> Creating(q)
        /\ Working(q)' <=> Working(q)
    BY DEF Creating, Working
  <1>3. proc[q].at = "execute" => Working(q)
    BY DEF Working
  <1>4. proc[q].at = "scan" /\ proc[q].cmd = "planned" => Working(q)
    BY DEF Working, Creators
  <1>5. CASE UNCHANGED <<runFile[proc[q].run], journal[proc[q].run]>>
    BY <1>1, <1>2, <1>5 DEF Position
  <1>6. CASE ~Creating(q) /\ ~Working(q)
    BY <1>1, <1>2, <1>3, <1>4, <1>6 DEF Position
  <1>7. CASE /\ ~Creating(q) /\ runFile'[proc[q].run] = runFile[proc[q].run]
             /\ journal[proc[q].run].approved => journal'[proc[q].run].approved
    BY <1>1, <1>2, <1>7 DEF Position
  <1> QED
    BY <1>5, <1>6, <1>7 DEF Kept

(* A step of p, put together.                                              *)
LEMMA OneProcessSteps ==
    ASSUME ServInv, NEW p \in Procs, ServTypes', Stored', Position(p)',
           \A q \in Procs : q # p => proc'[q] = proc[q] /\ Kept(q),
           \/ ~Creating(p)'
           \/ Creating(p) /\ proc'[p].run = proc[p].run
           \/ \A q \in Procs : proc[q].run # proc'[p].run,
           consented \subseteq consented', applied \subseteq applied'
    PROVE  ServInv'
  <1>1. ASSUME NEW q \in Procs, q # p PROVE Position(q)'
    BY <1>1, PositionIsStable DEF ServInv
  <1>2. ASSUME NEW q \in Procs, q # p PROVE Creating(q)' <=> Creating(q)
    BY <1>2 DEF Creating
  <1>3. OneCreator'
    BY <1>2 DEF ServInv, OneCreator
  <1> QED
    BY <1>1, <1>3 DEF ServInv

(* Steps that change nothing but the process.                              *)
LEMMA ProcessAlone ==
    ASSUME ServInv, NEW p \in Procs, proc' \in [Procs -> Process], Position(p)',
           \A q \in Procs : q # p => proc'[q] = proc[q],
           \/ ~Creating(p)'
           \/ Creating(p) /\ proc'[p].run = proc[p].run
           \/ \A q \in Procs : proc[q].run # proc'[p].run,
           consented \subseteq consented', consented' \subseteq Runs,
           UNCHANGED <<package, target, journal, runFile, report, applied, exits>>
    PROVE  ServInv'
  <1>1. ServTypes'
    BY DEF ServInv, ServTypes
  <1>2. \A u : Changed(u) <=> Changed(u)'
    BY DEF Changed
  <1>3. Stored'
    BY <1>2 DEF ServInv, Stored, Row, Serv!ExitZeroIsEarned
  <1>4. \A q \in Procs : Kept(q)
    BY DEF Kept
  <1> QED
    BY <1>1, <1>3, <1>4, OneProcessSteps

LEMMA EndSteps ==
    ASSUME ServInv, NEW p \in Procs, Serv!End(p),
           UNCHANGED <<package, target, journal, runFile, report, applied, consented, exits>>
    PROVE  ServInv'
  <1>1. Serv!Idle \in Process
    BY DEF Serv!Idle, Process, Commands, Steps
  <1>2. /\ proc' \in [Procs -> Process] /\ proc'[p] = Serv!Idle
        /\ \A q \in Procs : q # p => proc'[q] = proc[q]
    BY <1>1 DEF Serv!End, ServInv, ServTypes
  <1>3. ~Creating(p)' /\ ~Working(p)' /\ proc'[p].at = "idle" /\ proc'[p].seen = {}
    BY <1>2 DEF Creating, Working, Serv!Idle, Creators
  <1>4. Position(p)'
    BY <1>3 DEF Position
  <1>5. consented' \subseteq Runs
    BY DEF ServInv, ServTypes
  <1> QED
    BY <1>2, <1>3, <1>4, <1>5, ProcessAlone

(* A process that goes on within its command, with or without a new scan.  *)
LEMMA StepUpdate ==
    ASSUME NEW w \in Process, NEW at \in Steps, NEW v, v = [w EXCEPT !.at = at]
    PROVE  /\ v \in Process /\ v.at = at /\ v.seen = w.seen /\ v.failed = w.failed
           /\ v.cmd = w.cmd /\ v.run = w.run /\ v.pkg = w.pkg /\ v.plan = w.plan
  BY DEF Process

LEMMA ProcessesUpdate ==
    ASSUME NEW f \in [Procs -> Process], NEW p \in Procs, NEW w \in Process, NEW g,
           g = [f EXCEPT ![p] = w]
    PROVE  g \in [Procs -> Process] /\ g[p] = w /\ \A q \in Procs : q # p => g[q] = f[q]
  OBVIOUS

LEMMA GoesOn ==
    ASSUME ServInv, NEW p \in Procs, NEW at \in Steps, Serv!To(p, at)
    PROVE  /\ proc' \in [Procs -> Process]
           /\ \A q \in Procs : q # p => proc'[q] = proc[q]
           /\ proc'[p].at = at /\ proc'[p].cmd = proc[p].cmd /\ proc'[p].run = proc[p].run
           /\ proc'[p].pkg = proc[p].pkg /\ proc'[p].plan = proc[p].plan
           /\ proc'[p].seen = proc[p].seen
  <1>1. proc \in [Procs -> Process] /\ proc[p] \in Process
    BY DEF ServInv, ServTypes
  <1>2. PICK v : v = [proc[p] EXCEPT !.at = at]
    OBVIOUS
  <1>3. /\ v \in Process /\ v.at = at /\ v.seen = proc[p].seen /\ v.cmd = proc[p].cmd
        /\ v.run = proc[p].run /\ v.pkg = proc[p].pkg /\ v.plan = proc[p].plan
    BY <1>1, <1>2, StepUpdate
  <1>4. proc' = [proc EXCEPT ![p] = v]
    BY <1>2 DEF Serv!To
  <1>5. /\ proc' \in [Procs -> Process] /\ proc'[p] = v
        /\ \A q \in Procs : q # p => proc'[q] = proc[q]
    BY <1>1, <1>3, <1>4, ProcessesUpdate
  <1> QED
    BY <1>3, <1>5

ScannedTo(p, at) == proc' = [proc EXCEPT ![p].seen = target, ![p].at = at]

LEMMA GoesOnScanned ==
    ASSUME ServInv, NEW p \in Procs, NEW at \in Steps, ScannedTo(p, at)
    PROVE  /\ proc' \in [Procs -> Process]
           /\ \A q \in Procs : q # p => proc'[q] = proc[q]
           /\ proc'[p].at = at /\ proc'[p].cmd = proc[p].cmd /\ proc'[p].run = proc[p].run
           /\ proc'[p].pkg = proc[p].pkg /\ proc'[p].plan = proc[p].plan
           /\ proc'[p].seen = target
  <1>1. proc \in [Procs -> Process] /\ proc[p] \in Process /\ target \in SUBSET Runs
    BY DEF ServInv, ServTypes
  <1>2. PICK v : v = [proc[p] EXCEPT !.seen = target, !.at = at]
    OBVIOUS
  <1>3. /\ v \in Process /\ v.at = at /\ v.seen = target /\ v.cmd = proc[p].cmd
        /\ v.run = proc[p].run /\ v.pkg = proc[p].pkg /\ v.plan = proc[p].plan
    BY <1>1, <1>2 DEF Process
  <1>4. proc' = [proc EXCEPT ![p] = v]
    BY <1>2 DEF ScannedTo
  <1>5. /\ proc' \in [Procs -> Process] /\ proc'[p] = v
        /\ \A q \in Procs : q # p => proc'[q] = proc[q]
    BY <1>1, <1>3, <1>4, ProcessesUpdate
  <1> QED
    BY <1>3, <1>5

LEMMA DispatchSteps ==
    ASSUME ServInv, NEW p \in Procs, NEW r \in Runs,
           NEW c \in {"plan", "verify", "report"} \cup Serv!Executing, Serv!Dispatch(p, c, r)
    PROVE  ServInv'
  <1> DEFINE at == Serv!FirstStep(c)
             rec == [Serv!Idle EXCEPT !.cmd = c, !.run = r, !.at = at]
  <1>1. /\ c \in Commands
        /\ at \in {"inspect", "fetch", "load"}
        /\ c \in Creators => at = "inspect"
        /\ c \notin Creators => at # "inspect"
    BY DEF Serv!FirstStep, Commands, Creators, Serv!Executing
  <1> HIDE DEF at
  <1>2. /\ rec.cmd = c /\ rec.run = r /\ rec.at = at /\ rec.seen = {} /\ rec \in Process
    BY <1>1 DEF Serv!Idle, Process, Steps
  <1> HIDE DEF rec
  <1>3. /\ proc' = [proc EXCEPT ![p] = rec]
        /\ UNCHANGED <<package, target, journal, runFile, report, applied, exits>>
        /\ c \in Creators => journal[r] = Serv!NoRow /\ \A q \in Procs : proc[q].run # r
        /\ consented' = IF c \in {"restore", "planned"} THEN consented \cup {r} ELSE consented
    BY DEF Serv!Dispatch, Creators, rec, at
  <1>4. /\ proc' \in [Procs -> Process] /\ proc'[p] = rec
        /\ \A q \in Procs : q # p => proc'[q] = proc[q]
    BY <1>2, <1>3 DEF ServInv, ServTypes
  <1>5. c \in Creators => runFile[r] = Serv!NoFile
    BY <1>3 DEF ServInv, Stored, Row, Serv!NoRow
  <1>6. ~Working(p)' /\ (Creating(p)' <=> c \in Creators)
    BY <1>1, <1>2, <1>4 DEF Working, Creating
  <1>7. Position(p)'
    BY <1>1, <1>2, <1>3, <1>4, <1>5, <1>6 DEF Position, Commands, Creators
  <1>8. consented \subseteq consented' /\ consented' \subseteq Runs
    BY <1>3 DEF ServInv, ServTypes
  <1> QED
    BY <1>2, <1>3, <1>4, <1>6, <1>7, <1>8, ProcessAlone

LEMMA InspectSteps ==
    ASSUME ServInv, NEW p \in Procs, Serv!Inspect(p)
    PROVE  ServInv'
  <1>1. /\ proc[p].at = "inspect"
        /\ UNCHANGED <<package, target, journal, runFile, report, applied, consented, exits>>
    BY DEF Serv!Inspect
  <1>2. /\ proc' \in [Procs -> Process]
        /\ \A q \in Procs : q # p => proc'[q] = proc[q]
        /\ proc'[p].at = "scan" /\ proc'[p].pkg = package /\ proc'[p].plan = package
        /\ proc'[p].cmd = proc[p].cmd /\ proc'[p].run = proc[p].run /\ proc'[p].seen = proc[p].seen
    BY DEF Serv!Inspect, ServInv, ServTypes, Process, Steps
  <1>3. proc[p].cmd \in Creators
    BY <1>1 DEF ServInv, Position
  <1>4. Creating(p) /\ Creating(p)' /\ ~Working(p)'
    BY <1>1, <1>2, <1>3 DEF Creating, Working
  <1>5. \A u : Changed(u) <=> Changed(u)'
    BY <1>1 DEF Changed
  <1>6. Position(p)'
    BY <1>1, <1>2, <1>3, <1>4, <1>5 DEF ServInv, Position, Creators
  <1>7. consented' \subseteq Runs
    BY <1>1 DEF ServInv, ServTypes
  <1> QED
    BY <1>1, <1>2, <1>4, <1>6, <1>7, ProcessAlone

LEMMA LoadSteps ==
    ASSUME ServInv, NEW p \in Procs, Serv!Load(p)
    PROVE  ServInv'
  <1> DEFINE r == proc[p].run
  <1>1. /\ proc[p].at = "load"
        /\ UNCHANGED <<package, target, journal, runFile, report, applied, consented, exits>>
    BY DEF Serv!Load
  <1>2. CASE runFile[r] = Serv!NoFile \/ package = 0 \/ ~Serv!ValidRunPackage(r)
    BY <1>1, <1>2, EndSteps DEF Serv!Load, Serv!Run
  <1>3. CASE ~(runFile[r] = Serv!NoFile \/ package = 0 \/ ~Serv!ValidRunPackage(r))
    <2>1. /\ proc' \in [Procs -> Process]
          /\ \A q \in Procs : q # p => proc'[q] = proc[q]
          /\ proc'[p].at = IF proc[p].cmd = "planned" THEN "approve" ELSE "scan"
          /\ proc'[p].pkg = package /\ proc'[p].plan = runFile[r].version
          /\ proc'[p].cmd = proc[p].cmd /\ proc'[p].run = r /\ proc'[p].seen = proc[p].seen
      <3>1. r \in Runs
        BY <1>1 DEF ServInv, Position
      <3>2. runFile[r].version \in Versions \cup {0} /\ package \in Versions \cup {0}
        BY <3>1 DEF ServInv, ServTypes
      <3>3. {"approve", "scan"} \subseteq Steps
        BY DEF Steps
      <3> QED
        BY <1>1, <1>3, <3>2, <3>3 DEF Serv!Load, Serv!Run, ServInv, ServTypes, Process
    <2>2. r \in Runs /\ proc[p].cmd \notin Creators /\ proc[p].cmd # "none"
      BY <1>1 DEF ServInv, Position
    <2>3. runFile[r] = Saved(package) /\ runFile[r].version = package
      <3>1. runFile[r].version = package /\ runFile[r].trust = "UserApproved"
        BY <1>3 DEF Serv!ValidRunPackage
      <3>2. runFile[r] \in [version : Versions \cup {0}, trust : {"none", "UserApproved"}]
        BY <2>2 DEF ServInv, ServTypes
      <3> QED
        BY <3>1, <3>2 DEF Saved
    <2>4. ~Creating(p)' /\ proc'[p].at \in {"approve", "scan"}
      BY <2>1, <2>2 DEF Creating
    <2>5. \A u : Changed(u) <=> Changed(u)'
      BY <1>1 DEF Changed
    <2>6. Position(p)'
      BY <1>1, <2>1, <2>2, <2>3, <2>4, <2>5 DEF ServInv, Position
    <2>7. consented' \subseteq Runs
      BY <1>1 DEF ServInv, ServTypes
    <2> QED
      BY <1>1, <2>1, <2>4, <2>6, <2>7, ProcessAlone
  <1> QED
    BY <1>2, <1>3

LEMMA ScanSteps ==
    ASSUME ServInv, NEW p \in Procs, Serv!Scan(p)
    PROVE  ServInv'
  <1> DEFINE next == CASE proc[p].cmd \in {"plan", "restore"} -> "create"
                       [] proc[p].cmd = "planned" -> "execute"
                       [] proc[p].cmd = "resume" -> "require"
                       [] OTHER -> "report"
  <1>1. /\ proc[p].at = "scan"
        /\ UNCHANGED <<package, target, journal, runFile, report, applied, consented, exits>>
    BY DEF Serv!Scan
  <1>2. CASE Serv!End(p)
    BY <1>1, <1>2, EndSteps
  <1>3. CASE ScannedTo(p, next)
    <2>1. /\ next \in {"create", "execute", "require", "report"}
          /\ next = "create" <=> proc[p].cmd \in Creators
          /\ next = "execute" <=> proc[p].cmd = "planned"
      BY DEF Creators
    <2> HIDE DEF next
    <2>2. /\ proc' \in [Procs -> Process]
          /\ \A q \in Procs : q # p => proc'[q] = proc[q]
          /\ proc'[p].at = next /\ proc'[p].seen = target
          /\ proc'[p].pkg = proc[p].pkg /\ proc'[p].plan = proc[p].plan
          /\ proc'[p].cmd = proc[p].cmd /\ proc'[p].run = proc[p].run
      <3>1. next \in Steps
        BY <2>1 DEF Steps
      <3> QED
        BY <1>3, <3>1, GoesOnScanned
    <2>3. /\ Creating(p) <=> proc[p].cmd \in Creators
          /\ Working(p) <=> proc[p].cmd \notin Creators
          /\ Creating(p)' <=> proc[p].cmd \in Creators
          /\ Working(p)' <=> proc[p].cmd \notin Creators
      BY <1>1, <2>1, <2>2 DEF Creating, Working
    <2>4. \A u \in target : Changed(u)'
      BY <1>1 DEF ServInv, Stored, Changed
    <2>5. Position(p)'
      BY <1>1, <2>1, <2>2, <2>3, <2>4 DEF ServInv, Position
    <2>6. consented' \subseteq Runs
      BY <1>1 DEF ServInv, ServTypes
    <2> QED
      BY <1>1, <2>2, <2>3, <2>5, <2>6, ProcessAlone
  <1> QED
    BY <1>2, <1>3 DEF Serv!Scan, ScannedTo

LEMMA RequireAndFetchSteps ==
    ASSUME ServInv, NEW p \in Procs, Serv!RequireApproved(p) \/ Serv!FetchReport(p)
    PROVE  ServInv'
  <1>1. UNCHANGED <<package, target, journal, runFile, report, applied, consented, exits>>
    BY DEF Serv!RequireApproved, Serv!FetchReport
  <1>2. CASE Serv!End(p)
    BY <1>1, <1>2, EndSteps
  <1>3. \A u : Changed(u) <=> Changed(u)'
    BY <1>1 DEF Changed
  <1>4. consented' \subseteq Runs
    BY <1>1 DEF ServInv, ServTypes
  <1>5. CASE Serv!RequireApproved(p) /\ ~Serv!End(p)
    <2>1. proc[p].at = "require" /\ journal[proc[p].run].approved /\ Serv!To(p, "execute")
      BY <1>5 DEF Serv!RequireApproved, Serv!Run
    <2>2. "execute" \in Steps
      BY DEF Steps
    <2>3. Working(p) /\ Working(p)' /\ ~Creating(p) /\ ~Creating(p)'
      BY <2>1, <2>2, GoesOn DEF Working, Creating
    <2>4. Position(p)'
      BY <1>1, <1>3, <2>1, <2>2, <2>3, GoesOn DEF ServInv, Position
    <2> QED
      BY <1>1, <1>4, <2>1, <2>2, <2>3, <2>4, GoesOn, ProcessAlone
  <1>6. CASE Serv!FetchReport(p) /\ ~Serv!End(p)
    <2>1. proc[p].at = "fetch" /\ Serv!To(p, "load")
      BY <1>6 DEF Serv!FetchReport
    <2>2. "load" \in Steps
      BY DEF Steps
    <2>3. ~Working(p)' /\ ~Creating(p)'
      BY <2>1, <2>2, GoesOn DEF Working, Creating
    <2>4. Position(p)'
      BY <1>1, <1>3, <2>1, <2>2, <2>3, GoesOn DEF ServInv, Position
    <2> QED
      BY <1>1, <1>4, <2>1, <2>2, <2>3, <2>4, GoesOn, ProcessAlone
  <1> QED
    BY <1>2, <1>5, <1>6

LEMMA RescanSteps ==
    ASSUME ServInv, NEW p \in Procs, Serv!Rescan(p)
    PROVE  ServInv'
  <1>1. /\ proc[p].at = "rescan"
        /\ UNCHANGED <<package, target, journal, runFile, report, applied, consented, exits>>
    BY DEF Serv!Rescan
  <1>2. CASE Serv!End(p)
    BY <1>1, <1>2, EndSteps
  <1>3. CASE Serv!To(p, "report") \/ ScannedTo(p, "report")
    <2>1. /\ proc' \in [Procs -> Process]
          /\ \A q \in Procs : q # p => proc'[q] = proc[q]
          /\ proc'[p].at = "report" /\ proc'[p].seen \in {target, proc[p].seen}
          /\ proc'[p].pkg = proc[p].pkg /\ proc'[p].plan = proc[p].plan
          /\ proc'[p].cmd = proc[p].cmd /\ proc'[p].run = proc[p].run
      <3>1. "report" \in Steps
        BY DEF Steps
      <3>2. CASE Serv!To(p, "report")
        BY <3>1, <3>2, GoesOn
      <3>3. CASE ScannedTo(p, "report")
        BY <3>1, <3>3, GoesOnScanned
      <3> QED
        BY <1>3, <3>2, <3>3
    <2>2. Working(p) /\ Working(p)' /\ ~Creating(p)'
      BY <1>1, <2>1 DEF Working, Creating
    <2>3. \A u \in target \cup proc[p].seen : Changed(u)'
      BY <1>1 DEF ServInv, Stored, Position, Changed
    <2>4. Position(p)'
      BY <1>1, <2>1, <2>2, <2>3 DEF ServInv, Position
    <2>5. consented' \subseteq Runs
      BY <1>1 DEF ServInv, ServTypes
    <2> QED
      BY <1>1, <2>1, <2>2, <2>4, <2>5, ProcessAlone
  <1> QED
    BY <1>2, <1>3 DEF Serv!Rescan, ScannedTo

(* Steps that change the row or the file of run r.                         *)
LEMMA KeptElsewhere ==
    ASSUME ServInv, NEW q \in Procs, NEW r \in Runs,
           \A u \in Runs : u # r => runFile'[u] = runFile[u] /\ journal'[u] = journal[u],
           proc[q].run = r => Kept(q)
    PROVE  Kept(q)
  <1>1. CASE proc[q].at = "idle"
    BY <1>1 DEF Kept, Creating, Working
  <1>2. CASE proc[q].at # "idle" /\ proc[q].run # r
    BY <1>2 DEF Kept, ServInv, Position
  <1> QED
    BY <1>1, <1>2

LEMMA ReportSteps ==
    ASSUME ServInv, NEW p \in Procs, Serv!WriteReport(p)
    PROVE  ServInv'
  <1> DEFINE r == proc[p].run
  <1>1. /\ proc[p].at = "report" /\ Serv!End(p)
        /\ UNCHANGED <<package, target, journal, runFile, applied, consented>>
    BY DEF Serv!WriteReport
  <1>2. CASE UNCHANGED <<report, exits>>
    BY <1>1, <1>2, EndSteps
  <1>3. CASE /\ report' = [report EXCEPT ![r] = Serv!Verdict(p)]
             /\ exits' = exits \cup {[run |-> r, zero |-> Serv!ExitZero(p), failed |-> proc[p].failed]}
    <2>1. r \in Runs /\ proc[p] \in Process
      BY <1>1 DEF ServInv, ServTypes, Position
    <2>2. /\ Serv!Verdict(p) \in {"waiting", "verified", "partial"}
          /\ Serv!Verdict(p) = "verified" => journal[r].status = "complete" /\ r \in proc[p].seen
      BY DEF Serv!Verdict, Serv!Run
    <2>3. Serv!Verdict(p) = "verified" => journal[r].status = "complete" /\ Changed(r)
      BY <2>1, <2>2 DEF ServInv, Position
    <2>4. Serv!ExitZero(p) \in BOOLEAN /\ (Serv!ExitZero(p) => journal[r].status = "complete" /\ ~proc[p].failed)
      BY <2>3 DEF Serv!ExitZero
    <2>5. Serv!Idle \in Process
      BY DEF Serv!Idle, Process, Commands, Steps
    <2>6. /\ proc' \in [Procs -> Process] /\ proc'[p] = Serv!Idle
          /\ \A q \in Procs : q # p => proc'[q] = proc[q]
      BY <1>1, <2>5 DEF Serv!End, ServInv, ServTypes
    <2>7. proc[p].failed \in BOOLEAN
      BY <2>1 DEF Process
    <2>8. exits' \subseteq [run : Runs, zero : BOOLEAN, failed : BOOLEAN]
      BY <1>3, <2>1, <2>4, <2>7 DEF ServInv, ServTypes
    <2>9. ServTypes'
      BY <1>1, <1>3, <2>2, <2>6, <2>8 DEF ServInv, ServTypes
    <2>10. \A u : Changed(u) <=> Changed(u)'
      BY <1>1 DEF Changed
    <2>11. \A u \in Runs : Row(u)'
      BY <1>1, <1>3, <2>1, <2>3, <2>10 DEF ServInv, ServTypes, Stored, Row
    <2>12. Serv!ExitZeroIsEarned'
      BY <1>1, <1>3, <2>4 DEF ServInv, Stored, Serv!ExitZeroIsEarned
    <2>13. Stored'
      BY <1>1, <2>10, <2>11, <2>12 DEF ServInv, Stored
    <2>14. ~Creating(p)' /\ ~Working(p)' /\ proc'[p].at = "idle" /\ proc'[p].seen = {}
      BY <2>6 DEF Creating, Working, Serv!Idle, Creators
    <2>15. Position(p)'
      BY <2>14 DEF Position
    <2>16. \A q \in Procs : Kept(q)
      BY <1>1 DEF Kept
    <2> QED
      BY <1>1, <2>6, <2>9, <2>13, <2>14, <2>15, <2>16, OneProcessSteps
  <1> QED
    BY <1>2, <1>3 DEF Serv!WriteReport, Serv!Run

LEMMA CreateSteps ==
    ASSUME ServInv, NEW p \in Procs, Serv!CreateRun(p)
    PROVE  ServInv'
  <1> DEFINE r == proc[p].run
             row == [version |-> proc[p].plan, approved |-> FALSE, status |-> "ready"]
             at == IF proc[p].cmd = "restore" THEN "approve" ELSE "save"
  <1>1. /\ proc[p].at = "create" /\ Serv!To(p, at)
        /\ journal' = [journal EXCEPT ![r] = row]
        /\ UNCHANGED <<package, target, runFile, report, applied, consented, exits>>
    BY DEF Serv!CreateRun, Serv!Run
  <1>2. proc[p].cmd \in Creators /\ r \in Runs /\ proc[p] \in Process /\ at \in Steps
    BY <1>1 DEF ServInv, ServTypes, Position, Steps
  <1>3. Creating(p)
    BY <1>1, <1>2 DEF Creating
  <1>4. runFile[r] = Serv!NoFile /\ journal[r] = Serv!NoRow /\ proc[p].plan = proc[p].pkg
    BY <1>1, <1>3 DEF ServInv, Position
  <1>5. /\ row \in JournalRow
        /\ row.version = proc[p].plan /\ row.approved = FALSE /\ row.status = "ready"
    BY <1>2 DEF Process, JournalRow
  <1> HIDE DEF row
  <1>6. /\ journal' \in [Runs -> JournalRow]
        /\ journal'[r] = row /\ \A u \in Runs : u # r => journal'[u] = journal[u]
    BY <1>1, <1>2, <1>5 DEF ServInv, ServTypes
  <1>7. ServTypes'
    BY <1>1, <1>2, <1>6, GoesOn DEF ServInv, ServTypes
  <1>8. journal[r].status = "none"
    BY <1>4 DEF Serv!NoRow
  <1>9. \A u : Changed(u) <=> Changed(u)'
    BY <1>1 DEF Changed
  <1>10. \A u \in Runs : Row(u)'
    <2>1. ASSUME NEW u \in Runs, u = r PROVE Row(u)'
      BY <1>1, <1>2, <1>4, <1>5, <1>6, <1>8, <2>1 DEF ServInv, Stored, Row
    <2>2. ASSUME NEW u \in Runs, u # r PROVE Row(u)'
      BY <1>1, <1>6, <1>9, <2>2 DEF ServInv, Stored, Row
    <2> QED
      BY <2>1, <2>2
  <1>11. \A x \in applied : x[1] # r /\ x[1] \in Runs
    BY <1>4, FileFacts DEF ServInv, ServTypes, Stored
  <1>12. \A x \in exits : x.run \in Runs /\ (x.zero => x.run # r)
    BY <1>8 DEF ServInv, ServTypes, Stored, Serv!ExitZeroIsEarned
  <1>13. Stored'
    <2>1. \A x \in applied' : runFile'[x[1]] = Saved(x[2]) /\ journal'[x[1]].approved
      BY <1>1, <1>6, <1>11 DEF ServInv, Stored
    <2>2. Serv!ExitZeroIsEarned'
      BY <1>1, <1>6, <1>12 DEF ServInv, Stored, Serv!ExitZeroIsEarned
    <2> QED
      BY <1>1, <1>9, <1>10, <2>1, <2>2 DEF ServInv, Stored
  <1>14. Creating(p)' /\ ~Working(p)' /\ proc'[p].at = at
    BY <1>1, <1>2, GoesOn DEF Creating, Working
  <1>15. Position(p)'
    BY <1>1, <1>2, <1>3, <1>4, <1>5, <1>6, <1>9, <1>14, GoesOn DEF ServInv, Position, Creators
  <1>16. \A q \in Procs : q # p => Kept(q)
    <2>1. ASSUME NEW q \in Procs, q # p, proc[q].run = r PROVE Kept(q)
      BY <1>3, <2>1, RunsAreApart DEF Kept
    <2> QED
      BY <1>1, <1>2, <1>6, <2>1, KeptElsewhere
  <1> QED
    BY <1>1, <1>2, <1>3, <1>7, <1>13, <1>15, <1>16, GoesOn, OneProcessSteps

LEMMA ApproveSteps ==
    ASSUME ServInv, NEW p \in Procs, Serv!ApproveRun(p)
    PROVE  ServInv'
  <1> DEFINE r == proc[p].run
             at == IF proc[p].cmd = "planned" THEN "scan" ELSE "save"
  <1>1. /\ proc[p].at = "approve" /\ Serv!To(p, at)
        /\ journal' = [journal EXCEPT ![r].approved = TRUE]
        /\ UNCHANGED <<package, target, runFile, report, applied, consented, exits>>
    BY DEF Serv!ApproveRun, Serv!Run
  <1>2. proc[p].cmd \in {"restore", "planned"} /\ r \in Runs /\ at \in Steps /\ r \in consented
    BY <1>1 DEF ServInv, Position, Steps
  <1>3. /\ Creating(p) <=> proc[p].cmd = "restore"
        /\ Working(p) <=> proc[p].cmd = "planned"
    BY <1>1, <1>2 DEF Creating, Working, Creators
  <1>4. /\ journal' \in [Runs -> JournalRow]
        /\ journal'[r].approved /\ journal'[r].version = journal[r].version
        /\ journal'[r].status = journal[r].status
        /\ \A u \in Runs : u # r => journal'[u] = journal[u]
    <2>1. journal \in [Runs -> JournalRow] /\ journal[r] \in JournalRow
      BY <1>2 DEF ServInv, ServTypes
    <2>2. PICK w : w = [journal[r] EXCEPT !.approved = TRUE]
      OBVIOUS
    <2>3. /\ w \in JournalRow /\ w.approved /\ w.version = journal[r].version
          /\ w.status = journal[r].status
      BY <2>1, <2>2 DEF JournalRow
    <2>4. journal' = [journal EXCEPT ![r] = w]
      BY <1>1, <2>2
    <2> QED
      BY <1>2, <2>1, <2>3, <2>4
  <1>5. ServTypes'
    BY <1>1, <1>2, <1>4, GoesOn DEF ServInv, ServTypes
  <1>6. \A u : Changed(u) <=> Changed(u)'
    BY <1>1 DEF Changed
  <1>7. \A u \in Runs : Row(u)'
    <2>1. ASSUME NEW u \in Runs, u = r PROVE Row(u)'
      BY <1>1, <1>2, <1>4, <1>6, <2>1 DEF ServInv, Stored, Row
    <2>2. ASSUME NEW u \in Runs, u # r PROVE Row(u)'
      BY <1>1, <1>4, <1>6, <2>2 DEF ServInv, Stored, Row
    <2> QED
      BY <2>1, <2>2
  <1>8. /\ \A x \in applied : x[1] \in Runs
        /\ \A x \in exits : x.run \in Runs
    BY DEF ServInv, ServTypes
  <1>9. Stored'
    <2>1. \A x \in applied' : runFile'[x[1]] = Saved(x[2]) /\ journal'[x[1]].approved
      BY <1>1, <1>4, <1>8 DEF ServInv, Stored
    <2>2. Serv!ExitZeroIsEarned'
      BY <1>1, <1>4, <1>8 DEF ServInv, Stored, Serv!ExitZeroIsEarned
    <2> QED
      BY <1>1, <1>6, <1>7, <2>1, <2>2 DEF ServInv, Stored
  <1>10. Position(p)'
    <2>1. CASE proc[p].cmd = "restore"
      <3>1. Creating(p)' /\ ~Working(p)'
        BY <1>1, <1>2, <2>1, GoesOn DEF Creating, Working, Creators
      <3> QED
        BY <1>1, <1>2, <1>3, <1>4, <1>6, <2>1, <3>1, GoesOn DEF ServInv, Position, Creators
    <2>2. CASE proc[p].cmd = "planned"
      <3>1. ~Creating(p)' /\ Working(p)'
        BY <1>1, <1>2, <2>2, GoesOn DEF Creating, Working, Creators
      <3> QED
        BY <1>1, <1>2, <1>3, <1>4, <1>6, <2>2, <3>1, GoesOn DEF ServInv, Position, Creators
    <2> QED
      BY <1>2, <2>1, <2>2
  <1>11. \A q \in Procs : q # p => Kept(q)
    <2>1. ASSUME NEW q \in Procs, q # p, proc[q].run = r PROVE Kept(q)
      BY <1>1, <1>2, <1>3, <1>4, <2>1, RunsAreApart DEF Kept
    <2> QED
      BY <1>1, <1>2, <1>4, <2>1, KeptElsewhere
  <1>12. ~Creating(p)' \/ Creating(p)
    BY <1>1, <1>2, <1>3, GoesOn DEF Creating, Creators
  <1> QED
    BY <1>1, <1>2, <1>5, <1>9, <1>10, <1>11, <1>12, GoesOn, OneProcessSteps

LEMMA SaveSteps ==
    ASSUME ServInv, NEW p \in Procs, Serv!SaveRunState(p)
    PROVE  ServInv'
  <1> DEFINE r == proc[p].run
  <1>1. /\ proc[p].at = "save"
        /\ IF proc[p].cmd = "plan" THEN Serv!End(p) ELSE Serv!To(p, "execute")
        /\ runFile' = [runFile EXCEPT ![r] = Saved(proc[p].plan)]
        /\ UNCHANGED <<package, target, journal, report, applied, consented, exits>>
    BY DEF Serv!SaveRunState, Serv!Run, Saved
  <1>2. /\ proc[p].cmd \in Creators /\ r \in Runs /\ proc[p] \in Process
        /\ "execute" \in Steps /\ Serv!Idle \in Process
    BY <1>1 DEF ServInv, ServTypes, Position, Steps, Serv!Idle, Process, Commands
  <1>3. Creating(p)
    BY <1>1, <1>2 DEF Creating
  <1>4. /\ runFile[r] = Serv!NoFile /\ proc[p].plan = proc[p].pkg
        /\ journal[r].version = proc[p].plan /\ journal[r].status # "none"
        /\ proc[p].cmd = "restore" => journal[r].approved /\ r \in consented
    BY <1>1, <1>3 DEF ServInv, Position
  <1>5. Saved(proc[p].plan) \in [version : Versions \cup {0}, trust : {"none", "UserApproved"}]
    BY <1>2 DEF Process, Saved
  <1>6. /\ runFile' \in [Runs -> [version : Versions \cup {0}, trust : {"none", "UserApproved"}]]
        /\ runFile'[r] = Saved(proc[p].plan) /\ \A u \in Runs : u # r => runFile'[u] = runFile[u]
    BY <1>1, <1>2, <1>5 DEF ServInv, ServTypes
  <1>7. /\ proc' \in [Procs -> Process]
        /\ \A q \in Procs : q # p => proc'[q] = proc[q]
        /\ \/ proc'[p] = Serv!Idle
           \/ /\ proc[p].cmd = "restore" /\ proc'[p].at = "execute" /\ proc'[p].cmd = proc[p].cmd
              /\ proc'[p].run = r /\ proc'[p].pkg = proc[p].pkg /\ proc'[p].plan = proc[p].plan
              /\ proc'[p].seen = proc[p].seen
    <2>1. CASE Serv!End(p)
      BY <1>2, <2>1 DEF Serv!End, ServInv, ServTypes
    <2>2. CASE proc[p].cmd = "restore" /\ Serv!To(p, "execute")
      BY <1>2, <2>2, GoesOn
    <2> QED
      BY <1>1, <1>2, <2>1, <2>2 DEF Creators
  <1>8. ServTypes'
    BY <1>1, <1>6, <1>7 DEF ServInv, ServTypes
  <1>9. \A u : Changed(u) <=> Changed(u)'
    BY <1>1 DEF Changed
  <1>10. \A u \in Runs : Row(u)'
    <2>1. ASSUME NEW u \in Runs, u = r PROVE Row(u)'
      BY <1>1, <1>4, <1>6, <1>9, <2>1 DEF ServInv, Stored, Row
    <2>2. ASSUME NEW u \in Runs, u # r PROVE Row(u)'
      BY <1>1, <1>6, <1>9, <2>2 DEF ServInv, Stored, Row
    <2> QED
      BY <2>1, <2>2
  <1>11. \A x \in applied : x[1] # r /\ x[1] \in Runs
    BY <1>4, FileFacts DEF ServInv, ServTypes, Stored
  <1>12. Stored'
    <2>1. \A x \in applied' : runFile'[x[1]] = Saved(x[2]) /\ journal'[x[1]].approved
      BY <1>1, <1>6, <1>11 DEF ServInv, Stored
    <2>2. Serv!ExitZeroIsEarned'
      BY <1>1 DEF ServInv, Stored, Serv!ExitZeroIsEarned
    <2> QED
      BY <1>1, <1>9, <1>10, <2>1, <2>2 DEF ServInv, Stored
  <1>13. ~Creating(p)'
    BY <1>7 DEF Creating, Serv!Idle, Creators
  <1>14. Position(p)'
    <2>1. CASE proc'[p] = Serv!Idle
      <3>1. ~Working(p)' /\ proc'[p].at = "idle" /\ proc'[p].seen = {}
        BY <2>1 DEF Working, Serv!Idle
      <3> QED
        BY <1>13, <3>1 DEF Position
    <2>2. CASE proc'[p] # Serv!Idle
      <3>1. \A u \in proc'[p].seen : Changed(u)'
        BY <1>7, <1>9, <2>2 DEF ServInv, Position
      <3>2. r \in consented' /\ journal'[r].approved /\ runFile'[r] = Saved(proc'[p].pkg)
        BY <1>1, <1>4, <1>6, <1>7, <2>2
      <3> QED
        BY <1>2, <1>4, <1>7, <1>13, <2>2, <3>1, <3>2 DEF Position
    <2> QED
      BY <2>1, <2>2
  <1>15. \A q \in Procs : q # p => Kept(q)
    <2>1. ASSUME NEW q \in Procs, q # p, proc[q].run = r PROVE Kept(q)
      BY <1>3, <2>1, RunsAreApart DEF Kept
    <2> QED
      BY <1>1, <1>2, <1>6, <2>1, KeptElsewhere
  <1> QED
    BY <1>1, <1>7, <1>8, <1>12, <1>13, <1>14, <1>15, OneProcessSteps

(* The executor has the run's row to itself as far as creation goes, and   *)
(* what it changes is covered by the file that was saved before.           *)
LEMMA ExecuteSteps ==
    ASSUME ServInv, NEW p \in Procs, Serv!ExecutePartly(p) \/ Serv!ExecuteAll(p)
    PROVE  ServInv'
  <1> DEFINE r == proc[p].run
             x == <<r, proc[p].pkg>>
  <1>1. /\ proc[p].at = "execute"
        /\ UNCHANGED <<package, runFile, report, consented, exits>>
        /\ \/ UNCHANGED <<applied, target>>
           \/ applied' = applied \cup {x} /\ target' = target \cup {r}
    BY DEF Serv!ExecutePartly, Serv!ExecuteAll, Serv!Run, Serv!Effect
  <1>2. \/ UNCHANGED journal
        \/ /\ journal[r].status # "complete"
           /\ \E s \in {"partial", "complete"} : journal' = [journal EXCEPT ![r].status = s]
    BY DEF Serv!ExecutePartly, Serv!ExecuteAll, Serv!Run
  <1>3. Working(p) /\ ~Creating(p) /\ r \in Runs /\ proc[p] \in Process
    BY <1>1 DEF Working, Creating, ServInv, ServTypes, Position
  <1>4. runFile[r] = Saved(proc[p].pkg) /\ journal[r].approved /\ proc[p].plan = proc[p].pkg
    BY <1>1, <1>3 DEF ServInv, Position
  <1>5. /\ journal' \in [Runs -> JournalRow]
        /\ journal'[r].approved = journal[r].approved /\ journal'[r].version = journal[r].version
        /\ journal'[r].status # "none"
        /\ journal[r].status = "complete" => journal'[r].status = "complete"
        /\ \A u \in Runs : u # r => journal'[u] = journal[u]
    <2>1. journal \in [Runs -> JournalRow] /\ journal[r] \in JournalRow
      BY <1>3 DEF ServInv, ServTypes
    <2>2. journal[r].status # "none"
      BY <1>3, <1>4, FileFacts DEF ServInv, Stored, Row
    <2>3. CASE UNCHANGED journal
      BY <2>1, <2>2, <2>3
    <2>4. ASSUME NEW s \in {"partial", "complete"}, journal[r].status # "complete",
                 journal' = [journal EXCEPT ![r].status = s]
          PROVE  /\ journal' \in [Runs -> JournalRow]
                 /\ journal'[r].approved = journal[r].approved
                 /\ journal'[r].version = journal[r].version /\ journal'[r].status # "none"
                 /\ \A u \in Runs : u # r => journal'[u] = journal[u]
      <3>1. PICK w : w = [journal[r] EXCEPT !.status = s]
        OBVIOUS
      <3>2. /\ w \in JournalRow /\ w.approved = journal[r].approved
            /\ w.version = journal[r].version /\ w.status = s
        BY <2>1, <3>1 DEF JournalRow
      <3>3. journal' = [journal EXCEPT ![r] = w]
        BY <2>4, <3>1
      <3> QED
        BY <1>3, <2>1, <2>4, <3>2, <3>3
    <2> QED
      BY <1>2, <2>3, <2>4
  <1>6. /\ proc' \in [Procs -> Process]
        /\ \A q \in Procs : q # p => proc'[q] = proc[q]
        /\ proc'[p].at = "rescan" /\ proc'[p].cmd = proc[p].cmd /\ proc'[p].run = r
        /\ proc'[p].pkg = proc[p].pkg /\ proc'[p].plan = proc[p].plan
        /\ proc'[p].seen = proc[p].seen
    <2>1. "rescan" \in Steps /\ proc \in [Procs -> Process]
      BY DEF Steps, ServInv, ServTypes
    <2>2. CASE Serv!To(p, "rescan")
      BY <2>1, <2>2, GoesOn
    <2>3. ASSUME NEW c \in BOOLEAN,
                 proc' = [proc EXCEPT ![p].at = "rescan", ![p].failed = TRUE, ![p].cancelled = c]
          PROVE  /\ proc' \in [Procs -> Process]
                 /\ \A q \in Procs : q # p => proc'[q] = proc[q]
                 /\ proc'[p].at = "rescan" /\ proc'[p].cmd = proc[p].cmd /\ proc'[p].run = r
                 /\ proc'[p].pkg = proc[p].pkg /\ proc'[p].plan = proc[p].plan
                 /\ proc'[p].seen = proc[p].seen
      <3>1. PICK v : v = [proc[p] EXCEPT !.at = "rescan", !.failed = TRUE, !.cancelled = c]
        OBVIOUS
      <3>2. /\ v \in Process /\ v.at = "rescan" /\ v.seen = proc[p].seen /\ v.cmd = proc[p].cmd
            /\ v.run = proc[p].run /\ v.pkg = proc[p].pkg /\ v.plan = proc[p].plan
        BY <1>3, <2>1, <3>1 DEF Process
      <3>3. proc' = [proc EXCEPT ![p] = v]
        BY <2>3, <3>1
      <3>4. /\ proc' \in [Procs -> Process] /\ proc'[p] = v
            /\ \A q \in Procs : q # p => proc'[q] = proc[q]
        BY <2>1, <3>2, <3>3, ProcessesUpdate
      <3> QED
        BY <3>2, <3>4
    <2> QED
      BY <2>2, <2>3 DEF Serv!ExecutePartly, Serv!ExecuteAll
  <1>7. /\ applied \subseteq applied' /\ target' \subseteq Runs
        /\ applied' \subseteq Runs \X (Versions \cup {0})
    BY <1>1, <1>3 DEF ServInv, ServTypes, Process
  <1>8. ServTypes'
    BY <1>1, <1>5, <1>6, <1>7 DEF ServInv, ServTypes
  <1>9. \A u : Changed(u) => Changed(u)'
    BY <1>7 DEF Changed
  <1>10. \A u \in target' : Changed(u)'
    <2>1. x[1] = r
      OBVIOUS
    <2>2. applied' = applied \cup {x} => Changed(proc[p].run)'
      BY <1>6, <2>1 DEF Changed
    <2> QED
      BY <1>1, <1>6, <1>9, <2>2 DEF ServInv, Stored
  <1>11. \A u \in Runs : Row(u)'
    <2>1. ASSUME NEW u \in Runs, u = r PROVE Row(u)'
      BY <1>1, <1>5, <1>9, <2>1 DEF ServInv, Stored, Row
    <2>2. ASSUME NEW u \in Runs, u # r PROVE Row(u)'
      BY <1>1, <1>5, <1>9, <2>2 DEF ServInv, Stored, Row
    <2> QED
      BY <2>1, <2>2
  <1>12. \A y \in applied' : runFile'[y[1]] = Saved(y[2]) /\ journal'[y[1]].approved
    <2>1. ASSUME NEW y \in applied PROVE runFile'[y[1]] = Saved(y[2]) /\ journal'[y[1]].approved
      <3>1. y[1] \in Runs
        BY DEF ServInv, ServTypes
      <3> QED
        BY <1>1, <1>5, <3>1 DEF ServInv, Stored
    <2>2. runFile'[x[1]] = Saved(x[2]) /\ journal'[x[1]].approved
      BY <1>1, <1>4, <1>5
    <2> QED
      BY <1>1, <2>1, <2>2
  <1>13. Serv!ExitZeroIsEarned'
    <2>1. \A y \in exits : y.run \in Runs
      BY DEF ServInv, ServTypes
    <2> QED
      BY <1>1, <1>5, <2>1 DEF ServInv, Stored, Serv!ExitZeroIsEarned
  <1>14. Stored'
    BY <1>10, <1>11, <1>12, <1>13 DEF Stored
  <1>15. Working(p)' /\ ~Creating(p)'
    BY <1>6 DEF Working, Creating
  <1>16. Position(p)'
    <2>1. \A u \in proc'[p].seen : Changed(u)'
      BY <1>6, <1>9 DEF ServInv, Position
    <2> QED
      BY <1>1, <1>3, <1>4, <1>6, <1>15, <2>1 DEF ServInv, Position
  <1>17. \A q \in Procs : q # p => Kept(q)
    <2>1. ASSUME NEW q \in Procs, q # p, proc[q].run = r PROVE Kept(q)
      BY <1>1, <1>3, <1>4, <1>5, <2>1, RunsAreApart DEF Kept
    <2> QED
      BY <1>1, <1>3, <1>5, <2>1, KeptElsewhere
  <1> QED
    BY <1>1, <1>6, <1>7, <1>8, <1>14, <1>15, <1>16, <1>17, OneProcessSteps

(* Steps of the user and of the outside that no process takes.             *)
LEMMA OutsideSteps ==
    ASSUME ServInv, UNCHANGED <<proc, journal, runFile, report, applied, consented, exits>>,
           target' \subseteq target, package' \in Versions \cup {0}
    PROVE  ServInv'
  <1>1. ServTypes'
    BY DEF ServInv, ServTypes
  <1>2. \A u : Changed(u) <=> Changed(u)'
    BY DEF Changed
  <1>3. Stored'
    BY <1>2 DEF ServInv, Stored, Row, Serv!ExitZeroIsEarned
  <1>4. OneCreator'
    BY DEF ServInv, OneCreator, Creating
  <1>5. ASSUME NEW q \in Procs PROVE Position(q)'
    BY <1>5, PositionIsStable DEF ServInv, Kept
  <1> QED
    BY <1>1, <1>3, <1>4, <1>5 DEF ServInv

LEMMA ServStepInv == ServInv /\ [Serv!ServiceNext]_(Serv!runVars) => ServInv'
  <1> SUFFICES ASSUME ServInv, [Serv!ServiceNext]_(Serv!runVars) PROVE ServInv'
    OBVIOUS
  <1>1. package \in Versions \cup {0}
    BY DEF ServInv, ServTypes
  <1>2. CASE UNCHANGED Serv!runVars
    BY <1>1, <1>2, OutsideSteps DEF Serv!runVars
  <1>3. CASE \E v \in Versions \cup {0} : Serv!ReplacePackage(v)
    BY <1>3, OutsideSteps DEF Serv!ReplacePackage
  <1>4. CASE \E r \in Runs : Serv!Undo(r)
    BY <1>1, <1>4, OutsideSteps DEF Serv!Undo
  <1>5. CASE \E r \in Runs, a \in Serv!ActionIds : Serv!AcknowledgeAction(r, a)
    BY <1>1, <1>5, OutsideSteps DEF Serv!AcknowledgeAction
  <1>6. ASSUME NEW p \in Procs, Serv!Refuse(p) \/ Serv!ExecuteRefused(p) \/ Serv!Crash(p)
        PROVE  ServInv'
    BY <1>6, EndSteps DEF Serv!Refuse, Serv!ExecuteRefused, Serv!Crash
  <1> QED
    BY <1>2, <1>3, <1>4, <1>5, <1>6, DispatchSteps, InspectSteps, LoadSteps, ScanSteps,
       RequireAndFetchSteps, RescanSteps, ReportSteps, CreateSteps, ApproveSteps, SaveSteps,
       ExecuteSteps DEF Serv!ServiceNext, Serv!Quiet

LEMMA ServInvImplies ==
    ServInv => /\ Serv!AppliedIsApproved /\ Serv!EffectsAreResumable
               /\ Serv!ReportIsEarned /\ Serv!ExitZeroIsEarned
  <1> SUFFICES ASSUME ServInv
               PROVE  /\ Serv!AppliedIsApproved /\ Serv!EffectsAreResumable
                      /\ Serv!ReportIsEarned /\ Serv!ExitZeroIsEarned
    OBVIOUS
  <1>1. ASSUME NEW x \in applied
        PROVE  /\ journal[x[1]].version = x[2] /\ journal[x[1]].approved
               /\ x[1] \in consented /\ runFile[x[1]] = Saved(x[2])
    <2>1. x[1] \in Runs /\ runFile[x[1]] = Saved(x[2]) /\ journal[x[1]].approved
      BY DEF ServInv, ServTypes, Stored
    <2>2. Saved(x[2]) = Saved(journal[x[1]].version)
      BY <2>1, FileFacts DEF ServInv, Stored, Row
    <2> QED
      BY <2>1, <2>2 DEF ServInv, Stored, Row, Saved
  <1>2. Serv!AppliedIsApproved /\ Serv!EffectsAreResumable
    BY <1>1 DEF Serv!AppliedIsApproved, Serv!EffectsAreResumable, Saved
  <1>3. Serv!ReportIsEarned /\ Serv!ExitZeroIsEarned
    BY DEF ServInv, Stored, Row, Changed, Serv!ReportIsEarned
  <1> QED
    BY <1>2, <1>3

-----------------------------------------------------------------------------
(* The parts together.                                                     *)

FrontInv ==
    /\ part = "process" => ProcInv
    /\ part = "elevation" => ElevInv
    /\ part = "service" => ServInv

LEMMA FrontInvHolds == MCSpec => []FrontInv
  <1>1. MCInit => FrontInv
    BY ProcInitInv, ElevInitInv, ServInitInv DEF MCInit, FrontInv
  <1>2. FrontInv /\ [MCNext]_mcVars => FrontInv'
    <2> SUFFICES ASSUME FrontInv, [MCNext]_mcVars PROVE FrontInv'
      OBVIOUS
    <2>1. part' = part
      BY DEF MCNext, ProcessStep, ElevationStep, ServiceStep, CreateStep, RestoreStep,
             DesktopStep, DialogStep, mcVars
    <2>2. /\ part = "process" => [Proc!RunNext]_(Proc!procVars)
          /\ part = "elevation" => [Elev!ElevNext]_(Elev!elevVars)
          /\ part = "service" => [Serv!ServiceNext]_(Serv!runVars)
      <3>1. CASE UNCHANGED mcVars
        BY <3>1 DEF mcVars, Proc!procVars, Elev!elevVars, Serv!runVars
      <3>2. CASE MCNext
        BY <3>2 DEF MCNext, ProcessStep, ElevationStep, ServiceStep, CreateStep, RestoreStep,
                    DesktopStep, DialogStep
      <3> QED
        BY <3>1, <3>2
    <2> QED
      BY <2>1, <2>2, ProcStepInv, ElevStepInv, ServStepInv DEF FrontInv
  <1> QED
    BY <1>1, <1>2, PTL DEF MCSpec

(* Whatever the child writes and starts, whatever the limits are, and      *)
(* however readers, clock and cancellation interleave, ProcessRunner::run  *)
(* keeps no more than the limit, leaves its child running only when it     *)
(* returns the error that says so, and returns a complete and true result  *)
(* or an error.                                                            *)
THEOREM ChildrenAreAlwaysContained == MCSpec => []ProcessesAreContained
  <1>1. FrontInv => ProcessesAreContained
    BY ProcInvImplies DEF FrontInv, ProcessesAreContained
  <1> QED
    BY <1>1, FrontInvHolds, PTL

(* For any number of requests, any operations and whatever other programs  *)
(* send, an authorisation that request_elevation returns was decided by    *)
(* its own helper for an approved, elevated operation that was open when   *)
(* it was asked for, and a refusal has the reason it gives.                *)
THEOREM ElevationIsAlwaysEarned == MCSpec => []ElevationIsEarned
  <1>1. FrontInv => ElevationIsEarned
    BY ElevInvImplies DEF FrontInv, ElevationIsEarned
  <1> QED
    BY <1>1, FrontInvHolds, PTL

(* For any number of processes, runs and package versions, through crashes *)
(* and replaced packages, what is applied was approved for that package,   *)
(* every run with effects has the file that resume needs, and a verified   *)
(* report and exit code zero belong to a complete run (run commands).      *)
THEOREM RunsAreAlwaysAccountedFor == MCSpec => []RunsAreAccountedFor
  <1>1. FrontInv => RunsAreAccountedFor
    BY ServInvImplies DEF FrontInv, RunsAreAccountedFor
  <1> QED
    BY <1>1, FrontInvHolds, PTL

-----------------------------------------------------------------------------
(* The desktop shell: the inductive invariant.                             *)

JobType ==
    [run : 1..runs, kind : {"scan", "restore", "resume"},
     at : {"spawned", "running", "ended", "retaining", "gone"},
     end : Desk!Terminal \cup {"none"}]

(* A job that has not yet taken its run out of the registry.               *)
Registers(t) == job[t].at \in {"spawned", "running", "ended"}

Numbered ==
    /\ runs \in Nat /\ tokens \in Nat
    /\ DOMAIN job \subseteq 1..tokens
    /\ \A t \in DOMAIN job : job[t] \in JobType
    /\ "last" \in DOMAIN ui /\ ui.last \in 0..runs
    /\ "run" \in DOMAIN ui /\ ui.run \in 0..runs
    /\ \A c \in calls : c.run \in 0..runs

(* Registered runs and the jobs that will unregister them, one to one.     *)
OneJobEach ==
    /\ \A t \in DOMAIN job : Registers(t) => job[t].run \in DOMAIN active
    /\ \A t, u \in DOMAIN job : Registers(t) /\ Registers(u) /\ job[t].run = job[u].run => t = u
    /\ \A r \in DOMAIN active : \E t \in DOMAIN job : job[t].run = r /\ Registers(t)

Outcomes ==
    /\ \A t \in DOMAIN job : job[t].at \in {"ended", "retaining"} => job[t].end \in Desk!Terminal
    /\ \A r \in DOMAIN retained :
          retained[r] \in Desk!Terminal \/ \E t \in DOMAIN job : job[t].run = r /\ job[t].at # "gone"

DeskInv == Numbered /\ OneJobEach /\ Outcomes

(* The user's selections: what was written was picked for that use.        *)
DialogInv ==
    /\ picks \in Seq(Dialogs!Kinds)
    /\ \A w \in written : w.id \in DOMAIN picks /\ picks[w.id] = w.kind

-----------------------------------------------------------------------------
(* The desktop shell, action by action.                                    *)

LEMMA NoDomain == DOMAIN <<>> = {}
  OBVIOUS

LEMMA PutFacts ==
    ASSUME NEW map, NEW x, NEW v
    PROVE  /\ DOMAIN Desk!Put(map, x, v) = DOMAIN map \cup {x}
           /\ Desk!Put(map, x, v)[x] = v
           /\ \A y \in DOMAIN map : y # x => Desk!Put(map, x, v)[y] = map[y]
  BY DEF Desk!Put

(* Retaining a status forgets at most one run and changes no other.        *)
LEMMA RetainFacts ==
    ASSUME NEW ret, NEW r, NEW status
    PROVE  \A x \in DOMAIN Desk!Retain(ret, r, status) :
               \/ x = r /\ Desk!Retain(ret, r, status)[x] = status
               \/ x # r /\ x \in DOMAIN ret /\ Desk!Retain(ret, r, status)[x] = ret[x]
  <1>1. PICK all : all = Desk!Put(ret, r, status)
    OBVIOUS
  <1>2. \A x \in DOMAIN all : \/ x = r /\ all[x] = status
                              \/ x # r /\ x \in DOMAIN ret /\ all[x] = ret[x]
    <2>1. /\ DOMAIN all = DOMAIN ret \cup {r} /\ all[r] = status
          /\ \A y \in DOMAIN ret : y # r => all[y] = ret[y]
      BY <1>1 DEF Desk!Put
    <2> QED
      BY <2>1
  <1>3. \A S : S \subseteq DOMAIN all =>
          \A x \in DOMAIN Desk!Restrict(all, S) : x \in DOMAIN all /\ Desk!Restrict(all, S)[x] = all[x]
    BY DEF Desk!Restrict
  <1>4. \/ Desk!Retain(ret, r, status) = all
        \/ Desk!Retain(ret, r, status) = Desk!Restrict(all, DOMAIN all \ {Desk!Min(DOMAIN all)})
    BY <1>1 DEF Desk!Retain
  <1> QED
    BY <1>2, <1>3, <1>4

LEMMA DeskInitInv == Desk!DeskInit => DeskInv
  BY NoDomain DEF Desk!DeskInit, DeskInv, Numbered, OneJobEach, Outcomes

(* Steps that leave the jobs, the registry and what is retained alone.     *)
LEMMA QuietDesk ==
    ASSUME DeskInv, UNCHANGED <<runs, tokens, active, retained, job>>,
           "last" \in DOMAIN ui', ui'.last \in 0..runs, "run" \in DOMAIN ui', ui'.run \in 0..runs,
           \A c \in calls' : c.run \in 0..runs
    PROVE  DeskInv'
  <1>1. Numbered'
    BY DEF DeskInv, Numbered, JobType
  <1>2. OneJobEach' /\ Outcomes'
    BY DEF DeskInv, OneJobEach, Outcomes, Registers
  <1> QED
    BY <1>1, <1>2 DEF DeskInv

(* A job of a run that is not registered begins.                           *)
LEMMA NewJobKeeps ==
    ASSUME DeskInv, NEW r \in Nat, NEW kind \in {"scan", "restore", "resume"},
           r \notin DOMAIN active, runs' \in Nat, runs <= runs', r \in 1..runs',
           tokens' = tokens + 1, Desk!Register(r, tokens'),
           job' = Desk!Put(job, tokens', Desk!NewJob(r, tokens', kind)),
           "last" \in DOMAIN ui', ui'.last \in 0..runs', "run" \in DOMAIN ui', ui'.run \in 0..runs',
           \A c \in calls' : c.run \in 0..runs'
    PROVE  DeskInv'
  <1>1. PICK t, j : t = tokens' /\ j = Desk!NewJob(r, tokens', kind)
    OBVIOUS
  <1>2. /\ t \notin DOMAIN job /\ tokens' \in Nat /\ t \in 1..tokens'
        /\ DOMAIN job \subseteq 1..tokens'
    BY <1>1 DEF DeskInv, Numbered
  <1>3. /\ DOMAIN job' = DOMAIN job \cup {t} /\ job'[t] = j
        /\ \A u \in DOMAIN job : job'[u] = job[u]
    <2>1. job' = Desk!Put(job, t, j)
      BY <1>1
    <2> QED
      BY <1>2, <2>1 DEF Desk!Put
  <1>4. j.run = r /\ j.at = "spawned" /\ j.kind = kind /\ j.end = "none"
    BY <1>1 DEF Desk!NewJob
  <1>5. /\ DOMAIN active' = DOMAIN active \cup {r}
        /\ retained' = Desk!Retain(retained, r, "Starting")
    BY PutFacts DEF Desk!Register
  <1>6. j \in JobType'
    BY <1>1 DEF Desk!NewJob, JobType
  <1>7. \A u \in DOMAIN job : job[u] \in JobType'
    BY DEF DeskInv, Numbered, JobType
  <1>8. Numbered'
    BY <1>2, <1>3, <1>6, <1>7 DEF Numbered
  <1>9. \A u \in DOMAIN job : Registers(u) => job[u].run # r
    BY DEF DeskInv, OneJobEach
  <1>10. /\ Registers(t)' /\ \A u \in DOMAIN job : Registers(u)' <=> Registers(u)
    BY <1>3, <1>4 DEF Registers
  <1>11. \A u \in DOMAIN job' : Registers(u)' => job'[u].run \in DOMAIN active'
    BY <1>3, <1>4, <1>5, <1>10 DEF DeskInv, OneJobEach
  <1>12. \A u, w \in DOMAIN job' : Registers(u)' /\ Registers(w)' /\ job'[u].run = job'[w].run => u = w
    BY <1>3, <1>4, <1>9, <1>10 DEF DeskInv, OneJobEach
  <1>13. \A x \in DOMAIN active' : \E u \in DOMAIN job' : job'[u].run = x /\ Registers(u)'
    BY <1>3, <1>4, <1>5, <1>10 DEF DeskInv, OneJobEach
  <1>14. OneJobEach'
    BY <1>11, <1>12, <1>13 DEF OneJobEach, Registers
  <1>15. Outcomes'
    <2>1. \A u \in DOMAIN job' : job'[u].at \in {"ended", "retaining"} => job'[u].end \in Desk!Terminal
      BY <1>3, <1>4 DEF DeskInv, Outcomes
    <2>2. \A x \in DOMAIN retained' :
            \/ x = r /\ retained'[x] = "Starting"
            \/ x # r /\ x \in DOMAIN retained /\ retained'[x] = retained[x]
      BY <1>5, RetainFacts
    <2>3. \A x \in DOMAIN retained' :
            retained'[x] \in Desk!Terminal \/ \E u \in DOMAIN job' : job'[u].run = x /\ job'[u].at # "gone"
      BY <1>3, <1>4, <2>2 DEF DeskInv, Outcomes
    <2> QED
      BY <2>1, <2>3 DEF Outcomes
  <1> QED
    BY <1>8, <1>14, <1>15 DEF DeskInv

LEMMA StartNewKeeps ==
    ASSUME DeskInv, NEW kind \in {"scan", "restore"}, Desk!StartNew(kind)
    PROVE  DeskInv'
  <1>1. PICK r : r = runs'
    OBVIOUS
  <1>2. runs \in Nat /\ r = runs + 1
    BY <1>1 DEF Desk!StartNew, DeskInv, Numbered
  <1>3. r \notin DOMAIN active
    BY <1>2 DEF DeskInv, OneJobEach, Numbered, JobType
  <1>4. /\ "last" \in DOMAIN ui' /\ ui'.last \in 0..runs
        /\ "run" \in DOMAIN ui' /\ ui'.run \in 0..runs
    BY DEF Desk!StartNew, DeskInv, Numbered
  <1>5. \A c \in calls' : c \in calls \/ c.run = r
    BY <1>1 DEF Desk!StartNew, Desk!Reply
  <1>6. \A c \in calls' : c.run \in 0..runs'
    BY <1>1, <1>2, <1>5 DEF DeskInv, Numbered
  <1>7. /\ Desk!Register(r, tokens') /\ tokens' = tokens + 1
        /\ job' = Desk!Put(job, tokens', Desk!NewJob(r, tokens', kind))
    BY <1>1 DEF Desk!StartNew
  <1> QED
    BY <1>1, <1>2, <1>3, <1>4, <1>6, <1>7, NewJobKeeps

(* Resuming a registered run gets a new token for it, and no job.          *)
LEMMA ResumeKeeps ==
    ASSUME DeskInv, Desk!ResumeLatest
    PROVE  DeskInv'
  <1>1. PICK r : r = ui.last
    OBVIOUS
  <1>2. r \in 1..runs /\ runs \in Nat /\ runs' = runs
    BY <1>1 DEF Desk!ResumeLatest, DeskInv, Numbered
  <1>3. /\ "last" \in DOMAIN ui' /\ ui'.last \in 0..runs
        /\ "run" \in DOMAIN ui' /\ ui'.run \in 0..runs
    BY <1>1 DEF Desk!ResumeLatest, DeskInv, Numbered
  <1>4. \A c \in calls' : c \in calls \/ c.run = r
    BY <1>1 DEF Desk!ResumeLatest, Desk!Reply
  <1>5. \A c \in calls' : c.run \in 0..runs
    BY <1>2, <1>4 DEF DeskInv, Numbered
  <1>6. Desk!Register(r, tokens') /\ tokens' = tokens + 1
    BY <1>1 DEF Desk!ResumeLatest
  <1>7. CASE r \notin DOMAIN active
    <2>1. job' = Desk!Put(job, tokens', Desk!NewJob(r, tokens', "resume"))
      BY <1>1, <1>7 DEF Desk!ResumeLatest
    <2> QED
      BY <1>2, <1>3, <1>5, <1>6, <1>7, <2>1, NewJobKeeps
  <1>8. CASE r \in DOMAIN active
    <2>1. job' = job /\ retained' = retained /\ DOMAIN active' = DOMAIN active
      <3>1. DOMAIN active' = DOMAIN active \cup {r}
        BY <1>6, PutFacts DEF Desk!Register
      <3> QED
        BY <1>1, <1>6, <1>8, <3>1 DEF Desk!ResumeLatest, Desk!Register
    <2>2. Numbered'
      BY <1>2, <1>3, <1>5, <1>6, <2>1 DEF DeskInv, Numbered, JobType
    <2>3. OneJobEach' /\ Outcomes'
      BY <2>1 DEF DeskInv, OneJobEach, Outcomes, Registers
    <2> QED
      BY <2>2, <2>3 DEF DeskInv
  <1> QED
    BY <1>7, <1>8

(* A job goes from one stage to the next.                                  *)
LEMMA JobMoves ==
    ASSUME DeskInv, NEW t \in DOMAIN job, NEW j \in JobType, j.run = job[t].run,
           job' = [job EXCEPT ![t] = j], UNCHANGED <<runs, tokens, ui, calls>>
    PROVE  /\ Numbered'
           /\ DOMAIN job' = DOMAIN job /\ job'[t] = j
           /\ \A u \in DOMAIN job : job'[u].run = job[u].run /\ (u # t => job'[u] = job[u])
  <1>1. /\ DOMAIN job' = DOMAIN job /\ job'[t] = j
        /\ \A u \in DOMAIN job : job'[u].run = job[u].run /\ (u # t => job'[u] = job[u])
    OBVIOUS
  <1>2. \A u \in DOMAIN job : job'[u] \in JobType'
    BY <1>1 DEF DeskInv, Numbered, JobType
  <1> QED
    BY <1>1, <1>2 DEF DeskInv, Numbered

LEMMA JobStartsKeeps ==
    ASSUME DeskInv, NEW t \in DOMAIN job, Desk!JobStarts(t)
    PROVE  DeskInv'
  <1>1. /\ job[t].at = "spawned" /\ job[t] \in JobType
        /\ retained' = Desk!Retain(retained, job[t].run, "Running")
        /\ UNCHANGED <<runs, tokens, active, ui, calls>>
    BY DEF Desk!JobStarts, DeskInv, Numbered
  <1>2. PICK j : j = [job[t] EXCEPT !.at = "running"]
    OBVIOUS
  <1>3. /\ j \in JobType /\ j.run = job[t].run /\ j.at = "running" /\ j.end = job[t].end
    BY <1>1, <1>2 DEF JobType
  <1>4. job' = [job EXCEPT ![t] = j]
    BY <1>2 DEF Desk!JobStarts
  <1>5. /\ Numbered' /\ DOMAIN job' = DOMAIN job /\ job'[t] = j
        /\ \A u \in DOMAIN job : job'[u].run = job[u].run /\ (u # t => job'[u] = job[u])
    BY <1>1, <1>3, <1>4, JobMoves
  <1>6. \A u \in DOMAIN job : Registers(u)' <=> Registers(u)
    BY <1>1, <1>3, <1>5 DEF Registers
  <1>7. OneJobEach'
    BY <1>1, <1>5, <1>6 DEF DeskInv, OneJobEach
  <1>8. \A x \in DOMAIN retained' :
          \/ x = job[t].run /\ retained'[x] = "Running"
          \/ x # job[t].run /\ x \in DOMAIN retained /\ retained'[x] = retained[x]
    BY <1>1, RetainFacts
  <1>9. Outcomes'
    BY <1>1, <1>3, <1>5, <1>8 DEF DeskInv, Outcomes
  <1> QED
    BY <1>5, <1>7, <1>9 DEF DeskInv

LEMMA JobEndsKeeps ==
    ASSUME DeskInv, NEW t \in DOMAIN job, NEW end \in Desk!Terminal, Desk!JobEnds(t, end)
    PROVE  DeskInv'
  <1>1. /\ job[t].at = "running" /\ job[t] \in JobType
        /\ UNCHANGED <<runs, tokens, active, retained, ui, calls>>
    BY DEF Desk!JobEnds, DeskInv, Numbered
  <1>2. PICK j : j = [job[t] EXCEPT !.at = "ended", !.end = end]
    OBVIOUS
  <1>3. j \in JobType /\ j.run = job[t].run /\ j.at = "ended" /\ j.end = end
    BY <1>1, <1>2 DEF JobType
  <1>4. job' = [job EXCEPT ![t] = j]
    BY <1>2 DEF Desk!JobEnds
  <1>5. /\ Numbered' /\ DOMAIN job' = DOMAIN job /\ job'[t] = j
        /\ \A u \in DOMAIN job : job'[u].run = job[u].run /\ (u # t => job'[u] = job[u])
    BY <1>1, <1>3, <1>4, JobMoves
  <1>6. \A u \in DOMAIN job : Registers(u)' <=> Registers(u)
    BY <1>1, <1>3, <1>5 DEF Registers
  <1>7. OneJobEach'
    BY <1>1, <1>5, <1>6 DEF DeskInv, OneJobEach
  <1>8. Outcomes'
    BY <1>1, <1>3, <1>5 DEF DeskInv, Outcomes
  <1> QED
    BY <1>5, <1>7, <1>8 DEF DeskInv

(* A job takes its run out of the registry, and it was the only one there. *)
LEMMA JobUnregistersKeeps ==
    ASSUME DeskInv, NEW t \in DOMAIN job, Desk!JobUnregisters(t)
    PROVE  DeskInv'
  <1>1. /\ job[t].at = "ended" /\ job[t] \in JobType
        /\ active' = Desk!Restrict(active, DOMAIN active \ {job[t].run})
        /\ UNCHANGED <<runs, tokens, retained, ui, calls>>
    BY DEF Desk!JobUnregisters, DeskInv, Numbered
  <1>2. PICK j : j = [job[t] EXCEPT !.at = "retaining"]
    OBVIOUS
  <1>3. j \in JobType /\ j.run = job[t].run /\ j.at = "retaining" /\ j.end = job[t].end
    BY <1>1, <1>2 DEF JobType
  <1>4. job' = [job EXCEPT ![t] = j]
    BY <1>2 DEF Desk!JobUnregisters
  <1>5. /\ Numbered' /\ DOMAIN job' = DOMAIN job /\ job'[t] = j
        /\ \A u \in DOMAIN job : job'[u].run = job[u].run /\ (u # t => job'[u] = job[u])
    BY <1>1, <1>3, <1>4, JobMoves
  <1>6. DOMAIN active' = DOMAIN active \ {job[t].run}
    BY <1>1 DEF Desk!Restrict
  <1>7. /\ Registers(t) /\ ~Registers(t)'
        /\ \A u \in DOMAIN job : u # t => (Registers(u)' <=> Registers(u))
    BY <1>1, <1>3, <1>5 DEF Registers
  <1>8. OneJobEach'
    BY <1>5, <1>6, <1>7 DEF DeskInv, OneJobEach
  <1>9. Outcomes'
    BY <1>1, <1>3, <1>5 DEF DeskInv, Outcomes
  <1> QED
    BY <1>5, <1>8, <1>9 DEF DeskInv

LEMMA JobRetainsKeeps ==
    ASSUME DeskInv, NEW t \in DOMAIN job, Desk!JobRetains(t)
    PROVE  DeskInv'
  <1>1. /\ job[t].at = "retaining" /\ job[t] \in JobType /\ job[t].end \in Desk!Terminal
        /\ retained' = Desk!Retain(retained, job[t].run, job[t].end)
        /\ UNCHANGED <<runs, tokens, active, ui, calls>>
    BY DEF Desk!JobRetains, DeskInv, Numbered, Outcomes
  <1>2. PICK j : j = [job[t] EXCEPT !.at = "gone"]
    OBVIOUS
  <1>3. j \in JobType /\ j.run = job[t].run /\ j.at = "gone"
    BY <1>1, <1>2 DEF JobType
  <1>4. job' = [job EXCEPT ![t] = j]
    BY <1>2 DEF Desk!JobRetains
  <1>5. /\ Numbered' /\ DOMAIN job' = DOMAIN job /\ job'[t] = j
        /\ \A u \in DOMAIN job : job'[u].run = job[u].run /\ (u # t => job'[u] = job[u])
    BY <1>1, <1>3, <1>4, JobMoves
  <1>6. \A u \in DOMAIN job : Registers(u)' <=> Registers(u)
    BY <1>1, <1>3, <1>5 DEF Registers
  <1>7. OneJobEach'
    BY <1>1, <1>5, <1>6 DEF DeskInv, OneJobEach
  <1>8. \A x \in DOMAIN retained' :
          \/ x = job[t].run /\ retained'[x] = job[t].end
          \/ x # job[t].run /\ x \in DOMAIN retained /\ retained'[x] = retained[x]
    BY <1>1, RetainFacts
  <1>9. Outcomes'
    BY <1>1, <1>3, <1>5, <1>8 DEF DeskInv, Outcomes
  <1> QED
    BY <1>5, <1>7, <1>9 DEF DeskInv

LEMMA InterfaceKeeps ==
    ASSUME DeskInv,
           \/ Desk!CancelCurrent \/ Desk!Receive
           \/ \E c \in calls : Desk!Continue(c)
           \/ \E p \in polls : Desk!Poll(p)
    PROVE  DeskInv'
  <1>1. /\ "last" \in DOMAIN ui /\ ui.last \in 0..runs
        /\ "run" \in DOMAIN ui /\ ui.run \in 0..runs
        /\ \A c \in calls : c.run \in 0..runs
    BY DEF DeskInv, Numbered
  <1>2. CASE Desk!CancelCurrent
    <2>2. \A c \in calls' : c.run \in 0..runs
      BY <1>1, <1>2 DEF Desk!CancelCurrent, Desk!Reply
    <2> QED
      BY <1>1, <1>2, <2>2, QuietDesk DEF Desk!CancelCurrent
  <1>3. CASE Desk!Receive
    BY <1>1, <1>3, QuietDesk DEF Desk!Receive, Desk!backVars
  <1>4. CASE \E c \in calls : Desk!Continue(c)
    BY <1>1, <1>4, QuietDesk DEF Desk!Continue, Desk!backVars
  <1>5. CASE \E p \in polls : Desk!Poll(p)
    BY <1>1, <1>5, QuietDesk DEF Desk!Poll, Desk!PollAsks, Desk!PollReads, Desk!PollEnds, Desk!backVars
  <1> QED
    BY <1>2, <1>3, <1>4, <1>5

LEMMA DeskStepInv ==
    ASSUME DeskInv, Desk!DeskNext \/ UNCHANGED Desk!deskVars
    PROVE  DeskInv'
  <1>1. CASE UNCHANGED Desk!deskVars \/ (\E kind \in Desk!Kinds : Desk!Pick(kind))
             \/ (\E id \in DOMAIN picks, kind \in {"PackageOutput", "ReportOutput"} : Desk!WriteTo(id, kind))
    <2>1. UNCHANGED <<Desk!backVars, ui, calls>>
      BY <1>1 DEF Desk!deskVars, Desk!Pick, Desk!WriteTo
    <2> QED
      BY <2>1, QuietDesk DEF Desk!backVars, DeskInv, Numbered
  <1> QED
    BY <1>1, StartNewKeeps, ResumeKeeps, JobStartsKeeps, JobEndsKeeps, JobUnregistersKeeps,
       JobRetainsKeeps, InterfaceKeeps DEF Desk!DeskNext

LEMMA DeskFacts == DeskInv => Desk!ActiveIsAlive /\ Desk!EndedIsTerminal
  BY DEF DeskInv, OneJobEach, Outcomes, Registers, Desk!ActiveIsAlive, Desk!EndedIsTerminal, Desk!Live

(* Selections are only added, and stay what they were.                     *)
LEMMA DialogStepInv ==
    ASSUME DialogInv, Dialogs!DeskNext \/ UNCHANGED Dialogs!deskVars
    PROVE  DialogInv'
  <1>1. CASE \E kind \in Dialogs!Kinds : Dialogs!Pick(kind)
    <2>1. PICK kind \in Dialogs!Kinds : picks' = Append(picks, kind) /\ written' = written
      BY <1>1 DEF Dialogs!Pick
    <2>2. picks' \in Seq(Dialogs!Kinds) /\ \A i \in DOMAIN picks : i \in DOMAIN picks' /\ picks'[i] = picks[i]
      BY <2>1 DEF DialogInv
    <2> QED
      BY <2>1, <2>2 DEF DialogInv
  <1>2. CASE \E id \in DOMAIN picks, kind \in {"PackageOutput", "ReportOutput"} : Dialogs!WriteTo(id, kind)
    <2>1. PICK id \in DOMAIN picks, kind \in {"PackageOutput", "ReportOutput"} : Dialogs!WriteTo(id, kind)
      BY <1>2
    <2>2. /\ picks' = picks /\ picks[id] = kind
          /\ written' = written \cup {[id |-> id, kind |-> kind]}
      BY <2>1 DEF Dialogs!WriteTo, Dialogs!Resolve
    <2> QED
      BY <2>2 DEF DialogInv
  <1>3. CASE UNCHANGED <<picks, written>>
    BY <1>3 DEF DialogInv
  <1> QED
    BY <1>1, <1>2, <1>3 DEF Dialogs!DeskNext, Dialogs!StartNew, Dialogs!ResumeLatest,
       Dialogs!CancelCurrent, Dialogs!Receive, Dialogs!JobStarts, Dialogs!JobUnregisters,
       Dialogs!JobRetains, Dialogs!JobEnds, Dialogs!Continue, Dialogs!Poll, Dialogs!PollAsks,
       Dialogs!PollReads, Dialogs!PollEnds, Dialogs!pickVars, Dialogs!deskVars

(* For any number of runs, attempts, clicks and dialogs and any limits of  *)
(* the two stores: the registry holds exactly runs with a live job, a run  *)
(* without one is retained as it ended, and files are written only where   *)
(* the user pointed for that use.                                          *)
THEOREM JobsAreAlwaysTracked == MCSpec => []JobsAreTracked
  <1> DEFINE PartInv == (part = "desktop" => DeskInv) /\ (part = "dialogs" => DialogInv)
  <1>1. MCInit => PartInv
    <2>1. Dialogs!DeskInit => DialogInv
      BY DEF Dialogs!DeskInit, DialogInv
    <2> QED
      BY <2>1, DeskInitInv DEF MCInit
  <1>2. PartInv /\ [MCNext]_mcVars => PartInv'
    <2> SUFFICES ASSUME PartInv, [MCNext]_mcVars
                 PROVE  PartInv'
      OBVIOUS
    <2>1. part' = part
      BY DEF MCNext, ProcessStep, ElevationStep, ServiceStep, CreateStep, RestoreStep,
             DesktopStep, DialogStep, mcVars
    <2>2. part = "desktop" => Desk!DeskNext \/ UNCHANGED Desk!deskVars
      BY DEF MCNext, ProcessStep, ElevationStep, ServiceStep, CreateStep, RestoreStep,
             DesktopStep, DialogStep, mcVars, Desk!deskVars, Desk!backVars, Desk!pickVars
    <2>3. part = "dialogs" => Dialogs!DeskNext \/ UNCHANGED Dialogs!deskVars
      BY DEF MCNext, ProcessStep, ElevationStep, ServiceStep, CreateStep, RestoreStep,
             DesktopStep, DialogStep, mcVars, Dialogs!deskVars, Dialogs!backVars, Dialogs!pickVars
    <2> QED
      BY <2>1, <2>2, <2>3, DeskStepInv, DialogStepInv
  <1>3. PartInv => JobsAreTracked
    BY DeskFacts DEF JobsAreTracked, DialogInv, Dialogs!DestinationsArePicked
  <1> QED
    BY <1>1, <1>2, <1>3, PTL DEF MCSpec

-----------------------------------------------------------------------------
(* The terminal session: the inductive invariants.                         *)

IsScreen == {"at", "file", "run", "cat", "next", "cancel"} \subseteq DOMAIN scr

(* Where a screen that names its successor may lead.                       *)
Leads ==
    /\ scr.at \in {"scan", "refresh"} => scr.next \in {"preset", "custom", "browse"}
    /\ scr.at = "planning" => scr.next \in {"report", "plan"}

(* The screens that offer components have an inventory that was shown.     *)
Shown ==
    /\ machine \in Nat \ {0}
    /\ memory # 0 => memory \in held
    /\ scr.at \in {"preset", "custom", "category", "customReview", "refresh"} => memory # 0

(* At most the package just written is not announced, and while it is     *)
(* known as written it exists.                                             *)
Written ==
    /\ DOMAIN files = Term!Paths
    /\ \A p \in made : p \in told \cup unsaid \/ (scr.at = "written" /\ p = scr.file)
    /\ scr.at = "creating" => review # {} /\ scr.file \in Term!Paths
    /\ scr.at = "written" => /\ scr.file \in Term!Paths
                             /\ scr.file \in made => Term!Exists(scr.file)

SafelyChosen == \A c \in selected : \E i \in held : c \in Term!Safe(i)

MakeInv == IsScreen /\ Leads /\ Shown /\ SafelyChosen /\ Written

RunFields == {"file", "approved", "status", "pending", "stored"}

(* A run that was approved was accepted; the screens that execute one are  *)
(* about such a run; a run that is being planned is not known yet.         *)
Consent ==
    /\ DOMAIN run = UseRuns
    /\ \A r \in UseRuns : RunFields \subseteq DOMAIN run[r] /\ (run[r].approved => r \in accepted)
    /\ executed \subseteq accepted
    /\ scr.at \in {"planning", "plan", "restoring", "resuming", "pause"} => scr.run \in UseRuns
    /\ scr.at \in {"restoring", "resuming", "pause"} => scr.run \in accepted
    /\ scr.at = "planning" => run[scr.run] = TermR!NoRun
    /\ scr.at = "pause" => run[scr.run].stored /\ run[scr.run].approved
    /\ \A r \in promised : r \in UseRuns /\ run[r].stored /\ run[r].approved

Preferences ==
    /\ {"welcomed", "dir"} \subseteq DOMAIN prefs /\ {"welcomed", "dir"} \subseteq DOMAIN saved
    /\ prefs.dir = saved.dir

UseInv == IsScreen /\ Leads /\ Consent /\ Preferences

-----------------------------------------------------------------------------
(* A session that restores, action by action.                              *)

LEMMA UseScreens ==
    /\ \A at : TermR!GoTo(at) => IsScreen' /\ scr'.at = at
    /\ IsScreen => \A at : TermR!To(at) =>
          IsScreen' /\ scr'.at = at /\ scr'.run = scr.run /\ scr'.next = scr.next
  BY DEF TermR!GoTo, TermR!To, TermR!Screen, IsScreen

(* Screens that say nothing about a run.                                   *)
Elsewhere ==
    {"start", "home", "exit", "scan", "refresh", "preset", "custom", "category", "quickReview",
     "customReview", "creating", "written", "notWritten", "created", "browse", "report", "history",
     "actions", "confirm", "settings", "package", "mode", "runs"}

LEMMA UseElsewhere ==
    ASSUME UseInv, IsScreen', Leads', scr'.at \in Elsewhere, UNCHANGED <<run, accepted, executed>>,
           promised' = promised
    PROVE  Consent'
  BY DEF UseInv, Consent, Elsewhere, RunFields

LEMMA UseStays ==
    ASSUME UseInv, scr' = scr, UNCHANGED <<run, accepted, executed, promised>>
    PROVE  IsScreen' /\ Leads' /\ Consent'
  BY DEF UseInv, Consent, IsScreen, Leads, RunFields

LEMMA UseInitInv == TermR!TermInit => UseInv
  BY DEF TermR!TermInit, TermR!Screen, TermR!NoRun, UseInv, IsScreen, Leads, Consent, Preferences,
         RunFields

(* The steps that concern no run: the session stays or goes elsewhere.     *)
UseIdles ==
    /\ UNCHANGED <<run, accepted, executed, promised>>
    /\ scr' = scr \/ (IsScreen' /\ Leads' /\ scr'.at \in Elsewhere)

LEMMA UseMenus ==
    ASSUME UseInv,
           \/ TermR!Launch \/ (\E k \in {"Enter", "Esc", "Restart"} : TermR!Welcome(k))
           \/ (\E n \in {"preset", "custom", "browse", "scan", "history", "settings", "package",
                         "runs"} : TermR!Home(n))
           \/ (\E k \in {"Rescan", "Use", "Esc"} : TermR!RefreshInventory(k)) \/ TermR!ScanCurrent
           \/ TermR!Done \/ TermR!Back \/ TermR!CtrlC
    PROVE  UseIdles
  <1> USE DEF TermR!At, TermR!GoTo, TermR!To, TermR!Screen, TermR!Fail, TermR!Exit, TermR!runVars,
              UseIdles, IsScreen, Leads, Elsewhere
  <1>1. IsScreen /\ Leads
    BY DEF UseInv
  <1>2. CASE TermR!Launch
    BY <1>2 DEF TermR!Launch
  <1>3. CASE \E k \in {"Enter", "Esc", "Restart"} : TermR!Welcome(k)
    BY <1>1, <1>3 DEF TermR!Welcome
  <1>4. CASE \E n \in {"preset", "custom", "browse", "scan", "history", "settings", "package",
                       "runs"} : TermR!Home(n)
    BY <1>4 DEF TermR!Home, TermR!EnsureInventory
  <1>5. CASE \E k \in {"Rescan", "Use", "Esc"} : TermR!RefreshInventory(k)
    BY <1>1, <1>5 DEF TermR!RefreshInventory
  <1>6. CASE TermR!ScanCurrent
    BY <1>1, <1>6 DEF TermR!ScanCurrent
  <1>7. CASE TermR!Done \/ TermR!Back \/ TermR!CtrlC
    BY <1>1, <1>7 DEF TermR!Done, TermR!Back, TermR!CtrlC
  <1> QED
    BY <1>2, <1>3, <1>4, <1>5, <1>6, <1>7

LEMMA UseBackups ==
    ASSUME UseInv,
           \/ (\E p \in UsePresets : TermR!QuickBackup(p))
           \/ (\E k \in {"Enter", "C", "Esc"} : TermR!QuickReview(k))
           \/ TermR!CreateWorker \/ TermR!RequestCancel \/ TermR!CreateEnds \/ TermR!EnterCustom
           \/ (\E cat \in TermR!Categories : TermR!ToggleCategory(cat) \/ TermR!OpenCategory(cat))
           \/ (\E c \in UNION {DOMAIN UseMachine[i] : i \in DOMAIN UseMachine} : TermR!ToggleComponent(c))
           \/ TermR!SelectAllSafe \/ TermR!SelectNone \/ TermR!ReviewCustom
           \/ (\E k \in {"Enter", "Esc"} : TermR!CustomReview(k))
    PROVE  UseIdles
  <1> USE DEF TermR!At, TermR!GoTo, TermR!To, TermR!Screen, TermR!Fail, TermR!Exit, TermR!runVars,
              TermR!Select, UseIdles, IsScreen, Leads, Elsewhere
  <1>1. IsScreen /\ Leads
    BY DEF UseInv
  <1>2. CASE \E p \in UsePresets : TermR!QuickBackup(p)
    BY <1>2 DEF TermR!QuickBackup, TermR!EnsureInventory
  <1>3. CASE \E k \in {"Enter", "C", "Esc"} : TermR!QuickReview(k)
    BY <1>3 DEF TermR!QuickReview, TermR!EnsureInventory, TermR!StartCreation
  <1>4. CASE TermR!CreateWorker \/ TermR!RequestCancel \/ TermR!CreateEnds
    BY <1>1, <1>4 DEF TermR!CreateWorker, TermR!RequestCancel, TermR!CreateEnds
  <1>5. CASE TermR!EnterCustom \/ TermR!SelectAllSafe \/ TermR!SelectNone \/ TermR!ReviewCustom
    BY <1>1, <1>5 DEF TermR!EnterCustom, TermR!SelectAllSafe, TermR!SelectNone, TermR!ReviewCustom
  <1>6. CASE \E cat \in TermR!Categories : TermR!ToggleCategory(cat) \/ TermR!OpenCategory(cat)
    BY <1>1, <1>6 DEF TermR!ToggleCategory, TermR!OpenCategory
  <1>7. CASE \E c \in UNION {DOMAIN UseMachine[i] : i \in DOMAIN UseMachine} : TermR!ToggleComponent(c)
    BY <1>7 DEF TermR!ToggleComponent
  <1>8. CASE \E k \in {"Enter", "Esc"} : TermR!CustomReview(k)
    BY <1>1, <1>8 DEF TermR!CustomReview, TermR!StartCreation
  <1> QED
    BY <1>2, <1>3, <1>4, <1>5, <1>6, <1>7, <1>8

LEMMA UseFilesIdle ==
    ASSUME UseInv,
           \/ (\E p \in TermR!Paths : TermR!OpenBackup(p) \/ TermR!ChoosePackage(p)
                                      \/ TermR!FileElsewhere(p))
           \/ (\E k \in {"Verify", "Restore", "Delete"} : TermR!BackupAction(k))
           \/ (\E k \in {"Delete", "Keep"} : TermR!ConfirmDelete(k))
           \/ (\E d \in UseDirs : TermR!Settings(d))
           \/ TermR!MachineChanges \/ TermR!ScanElsewhere \/ TermR!DayPasses
    PROVE  UseIdles
  <1> USE DEF TermR!At, TermR!GoTo, TermR!To, TermR!Screen, TermR!Fail, TermR!Exit, TermR!runVars,
              UseIdles, IsScreen, Leads, Elsewhere
  <1>1. IsScreen
    BY DEF UseInv
  <1>2. CASE \E p \in TermR!Paths : TermR!OpenBackup(p) \/ TermR!ChoosePackage(p)
                                    \/ TermR!FileElsewhere(p)
    BY <1>2 DEF TermR!OpenBackup, TermR!ChoosePackage, TermR!FileElsewhere
  <1>3. CASE \E k \in {"Verify", "Restore", "Delete"} : TermR!BackupAction(k)
    BY <1>1, <1>3 DEF TermR!BackupAction
  <1>4. CASE \E k \in {"Delete", "Keep"} : TermR!ConfirmDelete(k)
    BY <1>1, <1>4 DEF TermR!ConfirmDelete
  <1>5. CASE \E d \in UseDirs : TermR!Settings(d)
    BY <1>5 DEF TermR!Settings
  <1>6. CASE TermR!MachineChanges \/ TermR!ScanElsewhere \/ TermR!DayPasses
    BY <1>6 DEF TermR!MachineChanges, TermR!ScanElsewhere, TermR!DayPasses
  <1> QED
    BY <1>2, <1>3, <1>4, <1>5, <1>6

(* A preview is planned for a run that nobody knows yet.                   *)
LEMMA UsePlans ==
    ASSUME UseInv,
           \/ (\E r \in UseRuns : \E preview \in BOOLEAN : TermR!ChooseMode(r, preview))
           \/ TermR!BuildPlan \/ (\E k \in {"Enter", "Esc"} : TermR!PlanKey(k))
    PROVE  IsScreen' /\ Leads' /\ Consent'
  <1> USE DEF TermR!At, TermR!GoTo, TermR!To, TermR!Screen, TermR!Fail, TermR!Exit, IsScreen, Leads
  <1>1. IsScreen /\ Leads /\ Consent
    BY DEF UseInv
  <1>2. CASE \E r \in UseRuns : \E preview \in BOOLEAN : TermR!ChooseMode(r, preview)
    <2>1. PICK r \in UseRuns, preview \in BOOLEAN : TermR!ChooseMode(r, preview)
      BY <1>2
    <2>2. PICK n : n \in {"report", "plan"} /\ scr' = [scr EXCEPT !.at = "planning", !.run = r, !.next = n]
      BY <2>1 DEF TermR!ChooseMode
    <2>3. IsScreen' /\ Leads' /\ scr'.at = "planning" /\ scr'.run = r
      BY <1>1, <2>2
    <2>4. run[r] = TermR!NoRun /\ UNCHANGED <<run, accepted, executed, promised>>
      BY <2>1 DEF TermR!ChooseMode, TermR!runVars
    <2> QED
      BY <1>1, <2>3, <2>4 DEF Consent, RunFields
  <1>3. CASE TermR!BuildPlan
    <2>1. /\ scr.at = "planning" /\ scr.run \in UseRuns /\ run[scr.run] = TermR!NoRun
          /\ scr.run \notin promised
      BY <1>1, <1>3 DEF TermR!BuildPlan, Consent, TermR!NoRun
    <2>2. /\ UNCHANGED <<accepted, executed, promised>>
          /\ IsScreen' /\ Leads' /\ scr'.at \in {"report", "plan", "home", "exit"}
          /\ scr'.at = "plan" => scr'.run = scr.run
          /\ run' = run \/ run' = [run EXCEPT ![scr.run] = TermR!Planned]
      BY <1>1, <1>3, <2>1 DEF TermR!BuildPlan
    <2>3. TermR!Planned.approved = FALSE /\ RunFields \subseteq DOMAIN TermR!Planned
      BY DEF TermR!Planned, TermR!NoRun, RunFields
    <2>4. /\ DOMAIN run' = UseRuns
          /\ \A r \in UseRuns : r # scr.run => run'[r] = run[r]
          /\ run'[scr.run] \in {run[scr.run], TermR!Planned}
      BY <1>1, <2>1, <2>2 DEF Consent
    <2>5. \A r \in UseRuns : RunFields \subseteq DOMAIN run'[r] /\ (run'[r].approved => r \in accepted)
      BY <1>1, <2>3, <2>4 DEF Consent
    <2>6. \A r \in promised : r \in UseRuns /\ run'[r].stored /\ run'[r].approved
      BY <1>1, <2>1, <2>4 DEF Consent
    <2> QED
      BY <1>1, <2>1, <2>2, <2>4, <2>5, <2>6 DEF Consent
  <1>4. CASE \E k \in {"Enter", "Esc"} : TermR!PlanKey(k)
    BY <1>1, <1>4 DEF TermR!PlanKey, Consent, RunFields
  <1> QED
    BY <1>2, <1>3, <1>4

(* Execution changes a run that was accepted, and keeps it stored.         *)
LEMMA RunMoves ==
    ASSUME UseInv, scr.run \in UseRuns, scr.run \in accepted, run[scr.run].stored,
           executed' = executed \cup {scr.run}, UNCHANGED <<accepted, promised>>,
           IsScreen', scr'.at \in {"pause", "report", "exit"}, scr'.at = "pause" => scr'.run = scr.run,
           NEW status, NEW pending,
           run' = [run EXCEPT ![scr.run].approved = TRUE, ![scr.run].status = status,
                              ![scr.run].pending = pending]
    PROVE  Consent'
  <1>1. PICK x : x = scr.run
    OBVIOUS
  <1>2. PICK w : w = [run[x] EXCEPT !.approved = TRUE, !.status = status, !.pending = pending]
    OBVIOUS
  <1>3. Consent /\ x \in UseRuns /\ x \in accepted /\ run[x].stored
    BY <1>1 DEF UseInv
  <1>4. w.approved = TRUE /\ w.stored /\ RunFields \subseteq DOMAIN w
    BY <1>2, <1>3 DEF Consent, RunFields
  <1>5. DOMAIN run' = UseRuns /\ run'[x] = w /\ \A r \in UseRuns : r # x => run'[r] = run[r]
    BY <1>1, <1>2, <1>3 DEF Consent
  <1>6. \A r \in UseRuns : RunFields \subseteq DOMAIN run'[r] /\ (run'[r].approved => r \in accepted)
    BY <1>3, <1>4, <1>5 DEF Consent
  <1>7. \A r \in promised : r \in UseRuns /\ run'[r].stored /\ run'[r].approved
    BY <1>3, <1>4, <1>5 DEF Consent
  <1> QED
    BY <1>1, <1>3, <1>4, <1>5, <1>6, <1>7 DEF Consent

LEMMA UseExecutes ==
    ASSUME UseInv,
           \/ TermR!Restoring \/ TermR!Kill \/ (\E k \in {"Go on", "Stop"} : TermR!PauseKey(k))
           \/ (\E r \in UseRuns : TermR!ResumePending(r))
    PROVE  IsScreen' /\ Leads' /\ Consent'
  <1> USE DEF TermR!At, TermR!GoTo, TermR!To, TermR!Screen, TermR!Fail, TermR!Exit, IsScreen, Leads
  <1>1. IsScreen /\ Leads /\ Consent
    BY DEF UseInv
  <1>2. CASE TermR!Restoring
    <2>1. scr.run \in UseRuns /\ scr.run \in accepted
      BY <1>1, <1>2 DEF TermR!Restoring, Consent
    <2>2. CASE TermR!Fail /\ UNCHANGED <<run, executed>>
      BY <1>1, <1>2, <2>2 DEF TermR!Restoring, Consent, RunFields
    <2>3. CASE ~(TermR!Fail /\ UNCHANGED <<run, executed>>)
      <3>1. PICK o \in TermR!Outcomes :
              /\ run' = [run EXCEPT ![scr.run].approved = TRUE, ![scr.run].status = o.status,
                                    ![scr.run].pending = o.pending]
              /\ TermR!To(IF o.pending THEN "pause" ELSE "report") \/ TermR!Exit
        BY <1>2, <2>3 DEF TermR!Restoring
      <3>2. /\ run[scr.run].stored /\ executed' = executed \cup {scr.run}
            /\ UNCHANGED <<accepted, promised>>
        BY <1>2, <2>3 DEF TermR!Restoring
      <3>3. /\ IsScreen' /\ Leads' /\ scr'.at \in {"pause", "report", "exit"}
            /\ scr'.at = "pause" => scr'.run = scr.run
        <4>1. CASE TermR!Exit
          BY <4>1
        <4>2. CASE ~TermR!Exit
          <5>1. PICK d \in {"pause", "report"} : TermR!To(d)
            BY <3>1, <4>2
          <5> QED
            BY <1>1, <5>1
        <4> QED
          BY <4>1, <4>2
      <3>4. Consent'
        BY <2>1, <3>1, <3>2, <3>3, RunMoves
      <3> QED
        BY <3>3, <3>4
    <2> QED
      BY <2>2, <2>3
  <1>3. CASE TermR!Kill
    <2>1. /\ IsScreen' /\ Leads' /\ scr'.at = "exit"
          /\ UNCHANGED <<accepted, promised>>
      BY <1>3 DEF TermR!Kill
    <2>2. CASE UNCHANGED <<run, executed>>
      BY <1>1, <2>1, <2>2 DEF Consent, RunFields
    <2>3. CASE ~UNCHANGED <<run, executed>>
      <3>1. /\ scr.at = "restoring" /\ run[scr.run].stored /\ executed' = executed \cup {scr.run}
            /\ run' = [run EXCEPT ![scr.run].approved = TRUE, ![scr.run].status = "Running"]
        BY <1>3, <2>3 DEF TermR!Kill
      <3>2. scr.run \in UseRuns /\ scr.run \in accepted
        BY <1>1, <3>1 DEF Consent
      <3>3. PICK pending : pending = run[scr.run].pending
        OBVIOUS
      <3>4. run' = [run EXCEPT ![scr.run].approved = TRUE, ![scr.run].status = "Running",
                               ![scr.run].pending = pending]
        BY <1>1, <3>1, <3>2, <3>3 DEF Consent, RunFields
      <3>5. Consent'
        BY <2>1, <3>1, <3>2, <3>4, RunMoves
      <3> QED
        BY <2>1, <3>5
    <2> QED
      BY <2>2, <2>3
  <1>4. CASE \E k \in {"Go on", "Stop"} : TermR!PauseKey(k)
    <2>1. /\ scr.at = "pause" /\ IsScreen' /\ Leads' /\ UNCHANGED <<run, accepted, executed>>
          /\ scr'.at = "home" \/ (scr'.at = "resuming" /\ scr'.run = scr.run)
          /\ promised' \subseteq promised \cup {scr.run}
      <3>1. PICK k : TermR!PauseKey(k)
        BY <1>4
      <3>2. CASE k = "Stop"
        BY <1>1, <3>1, <3>2 DEF TermR!PauseKey
      <3>3. CASE k # "Stop"
        BY <1>1, <3>1, <3>3 DEF TermR!PauseKey
      <3> QED
        BY <3>2, <3>3
    <2> QED
      BY <1>1, <2>1 DEF Consent
  <1>5. CASE \E r \in UseRuns : TermR!ResumePending(r)
    BY <1>1, <1>5, ZenonT(40) DEF TermR!ResumePending, TermR!Resumable, TermR!runVars, Consent, RunFields
  <1> QED
    BY <1>2, <1>3, <1>4, <1>5

(* The directory changes only together with the stored one.                *)
LEMMA UsePreferences ==
    ASSUME UseInv, TermR!TermNext
    PROVE  Preferences'
  <1>1. Preferences
    BY DEF UseInv
  <1>2. CASE TermR!Launch
    BY <1>1, <1>2 DEF TermR!Launch, Preferences
  <1>3. CASE \E k \in {"Enter", "Esc", "Restart"} : TermR!Welcome(k)
    BY <1>1, <1>3 DEF TermR!Welcome, TermR!SaveTo, TermR!Unsaved, Preferences
  <1>4. CASE \E d \in UseDirs : TermR!Settings(d)
    BY <1>1, <1>4 DEF TermR!Settings, TermR!SaveTo, TermR!Unsaved, Preferences
  <1>5. CASE UNCHANGED <<prefs, saved>>
    BY <1>1, <1>5 DEF Preferences
  <1> QED
    BY <1>2, <1>3, <1>4, <1>5 DEF TermR!TermNext, TermR!uiVars, TermR!Select,
       TermR!Home, TermR!RefreshInventory, TermR!ScanCurrent, TermR!QuickBackup, TermR!QuickReview,
       TermR!CreateWorker, TermR!RequestCancel, TermR!CreateEnds, TermR!Done, TermR!EnterCustom,
       TermR!ToggleCategory, TermR!OpenCategory, TermR!ToggleComponent, TermR!SelectAllSafe,
       TermR!SelectNone, TermR!ReviewCustom, TermR!CustomReview, TermR!PlanKey, TermR!OpenBackup,
       TermR!ChoosePackage, TermR!FileElsewhere, TermR!BackupAction, TermR!ConfirmDelete,
       TermR!ResumePending, TermR!ChooseMode, TermR!BuildPlan, TermR!Restoring, TermR!PauseKey,
       TermR!Back, TermR!CtrlC, TermR!Kill, TermR!MachineChanges, TermR!ScanElsewhere, TermR!DayPasses

LEMMA UseStepInv ==
    ASSUME UseInv, TermR!TermNext \/ UNCHANGED TermR!termVars
    PROVE  UseInv'
  <1>1. CASE UNCHANGED TermR!termVars
    BY <1>1, UseStays DEF UseInv, Preferences, TermR!termVars, TermR!uiVars, TermR!runVars
  <1>2. CASE TermR!TermNext
    <2>1. UseIdles \/ (IsScreen' /\ Leads' /\ Consent')
      BY <1>2, UseMenus, UseBackups, UseFilesIdle, UsePlans, UseExecutes DEF TermR!TermNext
    <2>2. UseIdles => IsScreen' /\ Leads' /\ Consent'
      BY UseElsewhere, UseStays DEF UseIdles
    <2> QED
      BY <1>2, <2>1, <2>2, UsePreferences DEF UseInv
  <1> QED
    BY <1>1, <1>2

LEMMA UseInvImplies ==
    UseInv => TermR!GoesOnWithConsent /\ TermR!StoppedRunsResume /\ TermR!DirectoryIsStored
  BY DEF UseInv, Consent, Preferences, TermR!GoesOnWithConsent, TermR!StoppedRunsResume,
         TermR!DirectoryIsStored, TermR!Resumable

-----------------------------------------------------------------------------
(* A session that makes backups, action by action.                         *)

LEMMA MakeInitInv == Term!TermInit => MakeInv
  BY DEF Term!TermInit, Term!Screen, MakeInv, IsScreen, Leads, Shown, SafelyChosen, Written

(* Steps that concern no package that is being made.                       *)
MakeIdles ==
    /\ UNCHANGED <<files, made, told, unsaid>>
    /\ \/ scr.at # "written" /\ scr'.at \notin {"creating", "written"}
       \/ scr'.at = scr.at /\ scr'.file = scr.file /\ review' = review

LEMMA MakeIdlesKeeps ==
    ASSUME MakeInv, MakeIdles
    PROVE  Written'
  BY DEF MakeInv, MakeIdles, Written, Term!Exists

LEMMA EarnedStays ==
    ASSUME MakeInv, held \subseteq held', selected' \subseteq selected
    PROVE  SafelyChosen'
  BY DEF MakeInv, SafelyChosen

LEMMA EarnedGrows ==
    ASSUME MakeInv, held \subseteq held', memory \in held', selected' \subseteq selected \cup Term!Safe(memory)
    PROVE  SafelyChosen'
  BY DEF MakeInv, SafelyChosen

LEMMA PresetsAreSafe == ASSUME NEW i, NEW preset
                        PROVE  Term!PresetSelection(i, preset) \subseteq Term!Safe(i)
  BY DEF Term!PresetSelection

(* Steps that leave the selection and the packages alone.                  *)
MakeTurns == IsScreen' /\ Leads' /\ Shown' /\ MakeIdles /\ selected' = selected /\ held \subseteq held'

LEMMA MakeStays ==
    ASSUME MakeInv, UNCHANGED <<memory, held, selected, review, files, made, told, unsaid>>,
           machine' = machine \/ machine' = machine + 1,
           scr' = scr \/ scr' = [scr EXCEPT !.cancel = TRUE]
    PROVE  MakeTurns
  <1>1. machine' \in Nat \ {0}
    BY DEF MakeInv, Shown
  <1>2. /\ scr'.at = scr.at /\ scr'.file = scr.file /\ scr'.next = scr.next /\ IsScreen'
    BY DEF MakeInv, IsScreen
  <1> QED
    BY <1>1, <1>2 DEF MakeInv, MakeTurns, MakeIdles, Leads, Shown

LEMMA MakeGoes ==
    ASSUME MakeInv, UNCHANGED <<memory, machine, held, selected, files, made, told, unsaid>>,
           scr.at # "written", NEW at \in {"home", "exit", "mode", "confirm", "pause", "report"},
           Term!GoTo(at) \/ Term!To(at)
    PROVE  MakeTurns
  <1>1. IsScreen' /\ scr'.at = at
    BY DEF Term!GoTo, Term!To, Term!Screen, MakeInv, IsScreen
  <1> QED
    BY <1>1 DEF MakeInv, MakeTurns, MakeIdles, Leads, Shown

LEMMA MakeMenus ==
    ASSUME MakeInv,
           \/ (\E k \in {"Enter", "Esc", "Restart"} : Term!Welcome(k))
           \/ (\E n \in {"preset", "custom", "browse", "scan", "history", "settings", "package",
                         "runs"} : Term!Home(n))
           \/ (\E k \in {"Rescan", "Use", "Esc"} : Term!RefreshInventory(k)) \/ Term!ScanCurrent
           \/ Term!Done \/ Term!Back \/ Term!CtrlC
    PROVE  MakeTurns
  <1> USE DEF Term!At, Term!GoTo, Term!To, Term!Screen, Term!Fail, Term!Exit, Term!uiVars,
              Term!fileVars, MakeIdles, MakeTurns, IsScreen, Leads, Shown
  <1>1. IsScreen /\ Leads /\ Shown
    BY DEF MakeInv
  <1>3. CASE \E k \in {"Enter", "Esc", "Restart"} : Term!Welcome(k)
    BY <1>1, <1>3 DEF Term!Welcome
  <1>4. CASE \E n \in {"preset", "custom", "browse", "scan", "history", "settings", "package",
                       "runs"} : Term!Home(n)
    BY <1>1, <1>4 DEF Term!Home, Term!EnsureInventory
  <1>5. CASE \E k \in {"Rescan", "Use", "Esc"} : Term!RefreshInventory(k)
    BY <1>1, <1>5 DEF Term!RefreshInventory
  <1>6. CASE Term!ScanCurrent
    BY <1>1, <1>6 DEF Term!ScanCurrent
  <1>7. CASE Term!Done \/ Term!Back \/ Term!CtrlC
    BY <1>1, <1>7 DEF Term!Done, Term!Back, Term!CtrlC
  <1> QED
    BY <1>3, <1>4, <1>5, <1>6, <1>7

LEMMA MakeSelects ==
    ASSUME MakeInv,
           \/ (\E p \in MakePresets : Term!QuickBackup(p)) \/ Term!EnterCustom
           \/ (\E cat \in Term!Categories : Term!ToggleCategory(cat) \/ Term!OpenCategory(cat))
           \/ (\E c \in UNION {DOMAIN MakeMachine[i] : i \in DOMAIN MakeMachine} : Term!ToggleComponent(c))
           \/ Term!SelectAllSafe \/ Term!SelectNone \/ Term!ReviewCustom
    PROVE  /\ IsScreen' /\ Leads' /\ Shown' /\ MakeIdles
           /\ held \subseteq held' /\ memory \in held'
           /\ selected' \subseteq selected \cup Term!Safe(memory)
  <1> USE DEF Term!At, Term!GoTo, Term!To, Term!Screen, Term!Fail, Term!Exit, Term!uiVars,
              Term!fileVars, Term!Select, MakeIdles, IsScreen, Leads, Shown
  <1>1. IsScreen /\ Leads /\ Shown
    BY DEF MakeInv
  <1>2. CASE \E p \in MakePresets : Term!QuickBackup(p)
    <2>1. PICK p : Term!QuickBackup(p)
      BY <1>2
    <2>2. selected' = selected \/ selected' = Term!PresetSelection(memory, p)
      BY <2>1 DEF Term!QuickBackup
    <2>3. selected' \subseteq selected \cup Term!Safe(memory)
      <3>1. PICK m : m = memory
        OBVIOUS
      <3>2. Term!PresetSelection(m, p) \subseteq Term!Safe(m)
        BY PresetsAreSafe
      <3> QED
        BY <2>2, <3>1, <3>2
    <2> QED
      BY <1>1, <2>1, <2>3 DEF Term!QuickBackup, Term!EnsureInventory
  <1>3. CASE Term!EnterCustom
    <2>1. PICK m : m = memory
      OBVIOUS
    <2>2. Term!PresetSelection(m, "Recommended") \subseteq Term!Safe(m)
      BY PresetsAreSafe
    <2> QED
      BY <1>1, <1>3, <2>1, <2>2 DEF Term!EnterCustom
  <1>4. CASE Term!SelectAllSafe \/ Term!SelectNone \/ Term!ReviewCustom
    BY <1>1, <1>4 DEF Term!SelectAllSafe, Term!SelectNone, Term!ReviewCustom
  <1>5. CASE \E cat \in Term!Categories : Term!ToggleCategory(cat) \/ Term!OpenCategory(cat)
    BY <1>1, <1>5 DEF Term!ToggleCategory, Term!OpenCategory
  <1>6. CASE \E c \in UNION {DOMAIN MakeMachine[i] : i \in DOMAIN MakeMachine} : Term!ToggleComponent(c)
    BY <1>1, <1>6 DEF Term!ToggleComponent
  <1> QED
    BY <1>2, <1>3, <1>4, <1>5, <1>6

LEMMA MakeElsewhere ==
    ASSUME MakeInv,
           \/ (\E p \in Term!Paths : Term!OpenBackup(p) \/ Term!ChoosePackage(p))
           \/ (\E k \in {"Verify", "Restore", "Delete"} : Term!BackupAction(k))
           \/ (\E d \in MakeDirs : Term!Settings(d))
           \/ Term!MachineChanges \/ Term!ScanElsewhere \/ Term!DayPasses \/ Term!RequestCancel
           \/ (\E r \in MakeRuns : Term!ResumePending(r)
                                   \/ \E preview \in BOOLEAN : Term!ChooseMode(r, preview))
           \/ Term!BuildPlan \/ Term!Restoring
           \/ (\E k \in {"Enter", "Esc"} : Term!PlanKey(k))
           \/ (\E k \in {"Go on", "Stop"} : Term!PauseKey(k))
    PROVE  MakeTurns
  <1> USE DEF Term!At, Term!GoTo, Term!To, Term!Screen, Term!Fail, Term!Exit, Term!uiVars,
              Term!fileVars, MakeIdles, MakeTurns, IsScreen, Leads, Shown
  <1>1. IsScreen /\ Leads /\ Shown
    BY DEF MakeInv
  <1>2. CASE \E p \in Term!Paths : Term!OpenBackup(p) \/ Term!ChoosePackage(p)
    BY <1>1, <1>2 DEF Term!OpenBackup, Term!ChoosePackage
  <1>3. CASE \E k \in {"Verify", "Restore", "Delete"} : Term!BackupAction(k)
    BY <1>3, MakeGoes, MakeStays DEF Term!BackupAction
  <1>4. CASE \E d \in MakeDirs : Term!Settings(d)
    BY <1>4, MakeGoes, MakeStays DEF Term!Settings
  <1>5. CASE Term!MachineChanges \/ Term!ScanElsewhere \/ Term!DayPasses \/ Term!RequestCancel
    BY <1>5, MakeStays DEF Term!MachineChanges, Term!ScanElsewhere, Term!DayPasses, Term!RequestCancel
  <1>6. CASE \E r \in MakeRuns : Term!ResumePending(r)
    BY <1>1, <1>6 DEF Term!ResumePending
  <1>7. CASE \E r \in MakeRuns, preview \in BOOLEAN : Term!ChooseMode(r, preview)
    <2>1. PICK r \in MakeRuns, preview \in BOOLEAN : Term!ChooseMode(r, preview)
      BY <1>7
    <2>2. PICK n : n \in {"report", "plan"} /\ scr' = [scr EXCEPT !.at = "planning", !.run = r, !.next = n]
      BY <2>1 DEF Term!ChooseMode
    <2> QED
      BY <1>1, <2>1, <2>2 DEF Term!ChooseMode
  <1>8. CASE Term!BuildPlan \/ (\E k \in {"Enter", "Esc"} : Term!PlanKey(k))
             \/ (\E k \in {"Go on", "Stop"} : Term!PauseKey(k))
    BY <1>1, <1>8 DEF Term!BuildPlan, Term!PlanKey, Term!PauseKey
  <1>9. CASE Term!Restoring
    <2>1. Term!Exit \/ Term!Fail \/ Term!To("pause") \/ Term!To("report")
      <3>1. CASE Term!Fail
        BY <3>1
      <3>2. CASE ~Term!Fail
        <4>1. PICK o \in Term!Outcomes : Term!To(IF o.pending THEN "pause" ELSE "report") \/ Term!Exit
          BY <1>9, <3>2 DEF Term!Restoring
        <4> QED
          BY <4>1
      <3> QED
        BY <3>1, <3>2
    <2> QED
      BY <1>9, <2>1, MakeGoes DEF Term!Restoring
  <1> QED
    BY <1>2, <1>3, <1>4, <1>5, <1>6, <1>7, <1>8, <1>9

(* A package is made at a path that is free and announced afterwards.      *)
LEMMA MakePackages ==
    ASSUME MakeInv,
           \/ (\E k \in {"Enter", "C", "Esc"} : Term!QuickReview(k))
           \/ (\E k \in {"Enter", "Esc"} : Term!CustomReview(k))
           \/ Term!CreateWorker \/ Term!CreateEnds
    PROVE  IsScreen' /\ Leads' /\ Shown' /\ Written' /\ selected' = selected /\ held \subseteq held'
  <1> USE DEF Term!At, Term!GoTo, Term!To, Term!Screen, Term!Fail, Term!Exit, Term!uiVars,
              Term!fileVars, IsScreen, Leads, Shown
  <1>1. IsScreen /\ Leads /\ Shown /\ Written
    BY DEF MakeInv
  <1>2. ASSUME Term!StartCreation, UNCHANGED <<memory, held, machine, review, files, made, told, unsaid>>,
               scr.at # "written"
        PROVE  IsScreen' /\ Leads' /\ Shown' /\ Written'
    BY <1>1, <1>2 DEF Term!StartCreation, Written
  <1>3. CASE \E k \in {"Enter", "C", "Esc"} : Term!QuickReview(k)
    <2>1. PICK k : Term!QuickReview(k)
      BY <1>3
    <2>2. CASE k = "Enter"
      BY <1>2, <2>1, <2>2 DEF Term!QuickReview
    <2>3. CASE k # "Enter"
      BY <1>1, <2>1, <2>3 DEF Term!QuickReview, Term!EnsureInventory, Written
    <2> QED
      BY <2>2, <2>3
  <1>4. CASE \E k \in {"Enter", "Esc"} : Term!CustomReview(k)
    <2>1. PICK k : Term!CustomReview(k)
      BY <1>4
    <2>2. CASE k = "Enter"
      BY <1>2, <2>1, <2>2 DEF Term!CustomReview
    <2>3. CASE k # "Enter"
      BY <1>1, <2>1, <2>3 DEF Term!CustomReview, Written
    <2> QED
      BY <2>2, <2>3
  <1>5. CASE Term!CreateWorker
    <2>1. scr.file \in Term!Paths /\ review # {} /\ scr.at = "creating"
      BY <1>1, <1>5 DEF Term!CreateWorker, Written
    <2> QED
      BY <1>1, <1>5, <2>1 DEF Term!CreateWorker, Term!Exists, Written
  <1>6. CASE Term!CreateEnds
    BY <1>1, <1>6 DEF Term!CreateEnds, Written
  <1> QED
    BY <1>3, <1>4, <1>5, <1>6

(* Packages that disappear, and the end of a session.                      *)
LEMMA MakeLoses ==
    ASSUME MakeInv,
           \/ (\E p \in Term!Paths : Term!FileElsewhere(p))
           \/ (\E k \in {"Delete", "Keep"} : Term!ConfirmDelete(k))
           \/ Term!Kill
    PROVE  IsScreen' /\ Leads' /\ Shown' /\ Written' /\ selected' = selected /\ held \subseteq held'
  <1> USE DEF Term!At, Term!GoTo, Term!To, Term!Screen, Term!Fail, Term!Exit, Term!uiVars,
              Term!fileVars, IsScreen, Leads, Shown
  <1>1. IsScreen /\ Leads /\ Shown /\ Written
    BY DEF MakeInv
  <1>2. CASE \E p \in Term!Paths : Term!FileElsewhere(p)
    <2>1. PICK p \in Term!Paths : Term!FileElsewhere(p)
      BY <1>2
    <2>2. /\ DOMAIN files' = Term!Paths /\ made' = made \ {p} /\ told' = told \ {p} /\ unsaid' = unsaid \ {p}
          /\ \A q \in Term!Paths : q # p => files'[q] = files[q]
      BY <1>1, <2>1 DEF Term!FileElsewhere, Written
    <2> QED
      BY <1>1, <2>1, <2>2 DEF Term!FileElsewhere, Term!Exists, Written
  <1>3. CASE \E k \in {"Delete", "Keep"} : Term!ConfirmDelete(k)
    BY <1>1, <1>3 DEF Term!ConfirmDelete, Written
  <1>4. CASE Term!Kill
    BY <1>1, <1>4 DEF Term!Kill, Written
  <1> QED
    BY <1>2, <1>3, <1>4

LEMMA MakeStepInv ==
    ASSUME MakeInv, Term!TermNext \/ UNCHANGED Term!termVars
    PROVE  MakeInv'
  <1>1. CASE UNCHANGED Term!termVars
    BY <1>1 DEF MakeInv, IsScreen, Leads, Shown, SafelyChosen, Written, Term!Exists, Term!termVars,
                Term!uiVars, Term!fileVars
  <1>2. CASE Term!Launch
    BY <1>2 DEF Term!Launch, Term!GoTo, Term!At, Term!Screen, Term!fileVars, MakeInv, IsScreen, Leads,
                Shown, SafelyChosen, Written
  <1>3. CASE /\ IsScreen' /\ Leads' /\ Shown' /\ (MakeIdles \/ Written')
             /\ selected' = selected /\ held \subseteq held'
    BY <1>3, MakeIdlesKeeps, EarnedStays DEF MakeInv
  <1>4. CASE /\ IsScreen' /\ Leads' /\ Shown' /\ MakeIdles
             /\ held \subseteq held' /\ memory \in held'
             /\ selected' \subseteq selected \cup Term!Safe(memory)
    BY <1>4, MakeIdlesKeeps, EarnedGrows DEF MakeInv
  <1> QED
    BY <1>1, <1>2, <1>3, <1>4, MakeMenus, MakeSelects, MakeElsewhere, MakePackages, MakeLoses
       DEF Term!TermNext, MakeTurns

LEMMA MakeInvImplies == MakeInv => Term!SelectionIsEarned /\ Term!BackupIsTold
  BY DEF MakeInv, SafelyChosen, Written, Term!SelectionIsEarned, Term!BackupIsTold

(* Whatever machines, presets, files and runs there are, whatever keys are *)
(* pressed and whatever happens beside the session: the selection holds    *)
(* only components that were safe in an inventory it showed, it announces  *)
(* every package it made unless an error or a kill came first, restores    *)
(* and offers only what the user accepted, offers again every run it       *)
(* stopped, and uses the stored directory.                                 *)
THEOREM SessionsAreAlwaysSafe == MCSpec => []SessionsAreSafe
  <1> DEFINE PartInv == (part = "create" => MakeInv) /\ (part = "restore" => UseInv)
  <1>1. MCInit => PartInv
    BY MakeInitInv, UseInitInv DEF MCInit
  <1>2. PartInv /\ [MCNext]_mcVars => PartInv'
    <2> SUFFICES ASSUME PartInv, [MCNext]_mcVars
                 PROVE  PartInv'
      OBVIOUS
    <2>1. part' = part
      BY DEF MCNext, ProcessStep, ElevationStep, ServiceStep, CreateStep, RestoreStep,
             DesktopStep, DialogStep, mcVars
    <2>2. part = "create" => Term!TermNext \/ UNCHANGED Term!termVars
      BY DEF MCNext, ProcessStep, ElevationStep, ServiceStep, CreateStep, RestoreStep,
             DesktopStep, DialogStep, mcVars, Term!termVars, Term!uiVars, Term!fileVars, Term!runVars
    <2>3. part = "restore" => TermR!TermNext \/ UNCHANGED TermR!termVars
      BY DEF MCNext, ProcessStep, ElevationStep, ServiceStep, CreateStep, RestoreStep,
             DesktopStep, DialogStep, mcVars, TermR!termVars, TermR!uiVars, TermR!fileVars,
             TermR!runVars
    <2> QED
      BY <2>1, <2>2, <2>3, MakeStepInv, UseStepInv
  <1>3. PartInv => SessionsAreSafe
    BY MakeInvImplies, UseInvImplies DEF SessionsAreSafe
  <1> QED
    BY <1>1, <1>2, <1>3, PTL DEF MCSpec
=============================================================================
