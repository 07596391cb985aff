----------------------------- MODULE Elevation ------------------------------
(***************************************************************************)
(* Authorisation of privileged operations: PrivilegeBroker in the normal   *)
(* process (reforge-platform-windows, privilege.rs) starts a helper        *)
(* through UAC for each request; the helper (reforge-elevation-helper,     *)
(* main.rs, protocol.rs) serves one exchange over a named pipe and decides *)
(* from its own read of the restore journal, which the executor goes on    *)
(* changing.  Several requests may be under way.                           *)
(*                                                                         *)
(* A request is its own nonce.  Timeouts are events that may occur while   *)
(* the party waits; another program may hold the pipe's name, or connect   *)
(* to the helper before the broker does.                                   *)
(***************************************************************************)
EXTENDS Naturals, FiniteSets

CONSTANTS
    Requests,        \* request -> [run, op], the calls of request_elevation
    Ops,             \* operations of the journal's run
    Elevated,        \* those that require elevation
    Stray,           \* frames another client may send
    JournalFile,     \* the name of the application's journal
    HelperFile,      \* the name the helper opens
    MaxRetries       \* bound on the attempts of one operation

Run == "r1"
R == DOMAIN Requests

VARIABLES
    broker,     \* request -> where request_elevation is
    outcome,    \* request -> what it returned
    helper,     \* request -> where the helper process is
    client,     \* request -> who is connected: "none", "broker" or "stray"
    frame,      \* request -> the request frame in the pipe
    reply,      \* request -> the response frame in the pipe
    approved,   \* the run's approval in the journal
    state,      \* operation -> its state in the journal
    retries,    \* operation -> attempts so far
    unreadable, \* request -> the journal could not be read for it
    openAtCall  \* request -> its operation was not terminal when it was called

elevVars == <<broker, outcome, helper, client, frame, reply, approved, state, retries,
              unreadable, openAtCall>>

NoFrame == [kind |-> "none", run |-> "none", op |-> "none", nonce |-> "none"]
NoReply == [kind |-> "none", run |-> "none", op |-> "none", reason |-> "none"]
Rejected(why) == [NoReply EXCEPT !.kind = "rejected", !.reason = why]
Authorized(run, op) == [NoReply EXCEPT !.kind = "authorized", !.run = run, !.op = op]
Failed(why) == [NoReply EXCEPT !.kind = "error", !.reason = why]
Terminal == {"COMPLETED", "SKIPPED", "CANCELLED", "SKIPPED_BLOCKED"}

ElevInit ==
    /\ broker = [r \in R |-> "idle"] /\ outcome = [r \in R |-> NoReply]
    /\ helper = [r \in R |-> "none"] /\ client = [r \in R |-> "none"]
    /\ frame = [r \in R |-> NoFrame] /\ reply = [r \in R |-> NoReply]
    /\ approved \in BOOLEAN
    /\ state = [o \in Ops |-> "PENDING"] /\ retries = [o \in Ops |-> 0]
    /\ unreadable = [r \in R |-> FALSE]
    /\ openAtCall = [r \in R |-> FALSE]

(***************************************************************************)
(* The journal, changed by the user and the executor                       *)
(***************************************************************************)
Approve ==
    /\ ~approved /\ approved' = TRUE
    /\ UNCHANGED <<broker, outcome, helper, client, frame, reply, state, retries, unreadable, openAtCall>>

Advance(o) ==
    /\ approved
    /\ \/ /\ state[o] \in {"PENDING", "FAILED"} /\ retries[o] < MaxRetries
          /\ state' = [state EXCEPT ![o] = "RUNNING"]
          /\ retries' = [retries EXCEPT ![o] = @ + 1]
       \/ /\ state[o] = "RUNNING" /\ UNCHANGED retries
          /\ \E s \in {"COMPLETED", "FAILED", "CANCELLED"} : state' = [state EXCEPT ![o] = s]
       \/ /\ state[o] = "PENDING" /\ UNCHANGED retries
          /\ \E s \in {"SKIPPED", "SKIPPED_BLOCKED"} : state' = [state EXCEPT ![o] = s]
    /\ UNCHANGED <<broker, outcome, helper, client, frame, reply, approved, unreadable, openAtCall>>

(***************************************************************************)
(* PrivilegeBroker                                                         *)
(***************************************************************************)
Return(r, a) ==
    /\ broker' = [broker EXCEPT ![r] = "done"]
    /\ outcome' = [outcome EXCEPT ![r] = a]

OpenIn(o) == o \in Ops => state[o] \notin Terminal

(* validate_helper_path and launch_runas: the helper may be missing, not a *)
(* regular file, or refused by the user.                                   *)
RequestElevation(r) ==
    /\ broker[r] = "idle"
    /\ openAtCall' = [openAtCall EXCEPT ![r] = OpenIn(Requests[r].op)]
    /\ \/ /\ \E a \in {[NoReply EXCEPT !.kind = "manual"], Failed("SecurityPolicy"),
                       Failed("ElevationDenied")} : Return(r, a)
          /\ UNCHANGED helper
       \/ /\ broker' = [broker EXCEPT ![r] = "connect"]
          /\ helper' = [helper EXCEPT ![r] = "starting"]
          /\ UNCHANGED outcome
    /\ UNCHANGED <<client, frame, reply, approved, state, retries, unreadable>>

(* Faulty variant: whoever serves the pipe is talked to.                   *)
ConnectAnyone(r) ==
    /\ broker[r] = "connect"
    /\ \/ /\ helper[r] = "listening" /\ client[r] = "none"
          /\ client' = [client EXCEPT ![r] = "broker"]
          /\ broker' = [broker EXCEPT ![r] = "write"]
          /\ UNCHANGED <<outcome, reply>>
       \/ /\ helper[r] = "starting"
          /\ broker' = [broker EXCEPT ![r] = "read"]
          /\ reply' = [reply EXCEPT ![r] = Authorized(Requests[r].run, Requests[r].op)]
          /\ client' = [client EXCEPT ![r] = "broker"]
          /\ UNCHANGED outcome
       \/ /\ helper[r] = "exited" /\ Return(r, Failed("Exited")) /\ UNCHANGED <<client, reply>>
    /\ UNCHANGED <<helper, frame, approved, state, retries, unreadable, openAtCall>>

(* Faulty variant: the helper's exit is not looked at.                     *)
ConnectUnwatched(r) ==
    /\ broker[r] = "connect"
    /\ \/ /\ helper[r] = "listening" /\ client[r] = "none"
          /\ client' = [client EXCEPT ![r] = "broker"]
          /\ broker' = [broker EXCEPT ![r] = "write"]
          /\ UNCHANGED outcome
       \/ /\ helper[r] = "starting" /\ Return(r, Failed("WrongServer")) /\ UNCHANGED client
       \/ /\ helper[r] = "exited" /\ UNCHANGED <<broker, outcome, client>>
    /\ UNCHANGED <<helper, frame, reply, approved, state, retries, unreadable, openAtCall>>

(* One turn of the connection loop.  A pipe that is absent or busy is      *)
(* tried again while the helper runs; a server that is not the helper, the *)
(* helper's exit and the deadline end the call.                            *)
ConnectToHelper(r) ==
    /\ broker[r] = "connect"
    /\ \/ /\ helper[r] = "listening" /\ client[r] = "none"
          /\ client' = [client EXCEPT ![r] = "broker"]
          /\ broker' = [broker EXCEPT ![r] = "write"]
          /\ UNCHANGED outcome
       \/ /\ helper[r] = "starting" /\ Return(r, Failed("WrongServer")) /\ UNCHANGED client
       \/ /\ helper[r] = "exited" /\ Return(r, Failed("Exited")) /\ UNCHANGED client
    /\ UNCHANGED <<helper, frame, reply, approved, state, retries, unreadable, openAtCall>>

ConnectDeadline(r) ==
    /\ broker[r] = "connect" /\ helper[r] # "exited"
    /\ Return(r, Failed("Timeout"))
    /\ UNCHANGED <<helper, client, frame, reply, approved, state, retries, unreadable, openAtCall>>

WriteRequest(r) ==
    /\ broker[r] = "write" /\ helper[r] # "exited"
    /\ frame' = [frame EXCEPT ![r] = [kind |-> "request", run |-> Requests[r].run,
                                      op |-> Requests[r].op, nonce |-> r]]
    /\ broker' = [broker EXCEPT ![r] = "read"]
    /\ UNCHANGED <<outcome, helper, client, reply, approved, state, retries, unreadable, openAtCall>>

(* A write or a read that fails, or that takes longer than IO_TIMEOUT,     *)
(* ends the call; the pipe is closed.                                      *)
BrokerFails(r) ==
    /\ broker[r] \in {"write", "read"}
    /\ Return(r, Failed("Io"))
    /\ client' = [client EXCEPT ![r] = "gone"]
    /\ UNCHANGED <<helper, frame, reply, approved, state, retries, unreadable, openAtCall>>

ReadResponse(r) ==
    /\ broker[r] = "read" /\ reply[r].kind # "none"
    /\ IF reply[r].kind = "authorized" /\ reply[r] # Authorized(Requests[r].run, Requests[r].op)
       THEN Return(r, Failed("SecurityPolicy"))
       ELSE Return(r, reply[r])
    /\ UNCHANGED <<helper, client, frame, reply, approved, state, retries, unreadable, openAtCall>>

(***************************************************************************)
(* The helper                                                              *)
(***************************************************************************)
Exit(r) == helper' = [helper EXCEPT ![r] = "exited"]

(* The pipe's name may be taken: first_pipe_instance then fails.           *)
CreatePipe(r) ==
    /\ helper[r] = "starting"
    /\ \E h \in {"listening", "exited"} : helper' = [helper EXCEPT ![r] = h]
    /\ UNCHANGED <<broker, outcome, client, frame, reply, approved, state, retries, unreadable, openAtCall>>

(* Another program of the same user is served instead of the broker.       *)
StrayConnects(r, f) ==
    /\ helper[r] = "listening" /\ client[r] = "none"
    /\ client' = [client EXCEPT ![r] = "stray"]
    /\ frame' = [frame EXCEPT ![r] = f]
    /\ UNCHANGED <<broker, outcome, helper, reply, approved, state, retries, unreadable, openAtCall>>

HelperConnectTimeout(r) ==
    /\ helper[r] = "listening" /\ client[r] = "none"
    /\ Exit(r)
    /\ UNCHANGED <<broker, outcome, client, frame, reply, approved, state, retries, unreadable, openAtCall>>

(* Faulty variant: the response stays in the pipe for whoever reads next.  *)
WriteResponseKept(r, a) ==
    /\ reply' = [reply EXCEPT ![r] = a]
    /\ Exit(r)

(* Only the client that is connected sees the response.                    *)
WriteResponse(r, a) ==
    /\ reply' = IF client[r] = "broker" THEN [reply EXCEPT ![r] = a] ELSE reply
    /\ Exit(r)

(* The request does not come in time, or is not a request.                 *)
InvalidRequest(r) ==
    /\ helper[r] = "listening" /\ client[r] # "none"
    /\ frame[r].kind # "request"
    /\ WriteResponse(r, Rejected("InvalidRequest"))
    /\ UNCHANGED <<broker, outcome, client, frame, approved, state, retries, unreadable, openAtCall>>

(* read_approval: the journal's row for the run and the operation.         *)
ReadApproval(run, op) == {o \in Ops : o = op /\ run = Run}

(* Faulty variant: an operation that ended is authorised again.            *)
DecisionForEver(r, f) ==
    IF f.run # Requests[r].run THEN Rejected("WrongRun")
    ELSE IF f.nonce # r THEN Rejected("WrongNonce")
    ELSE IF HelperFile # JournalFile THEN Rejected("JournalUnavailable")
    ELSE IF ReadApproval(f.run, f.op) = {} THEN Rejected("OperationMissing")
    ELSE IF ~approved THEN Rejected("ApprovalMissing")
    ELSE IF f.op \notin Elevated THEN Rejected("OperationNotElevated")
    ELSE Authorized(f.run, f.op)

(* Faulty variant: a failed operation counts as ended.                     *)
DecisionFailedToo(r, f) ==
    IF f.run # Requests[r].run THEN Rejected("WrongRun")
    ELSE IF f.nonce # r THEN Rejected("WrongNonce")
    ELSE IF HelperFile # JournalFile THEN Rejected("JournalUnavailable")
    ELSE IF ReadApproval(f.run, f.op) = {} THEN Rejected("OperationMissing")
    ELSE IF ~approved THEN Rejected("ApprovalMissing")
    ELSE IF f.op \notin Elevated THEN Rejected("OperationNotElevated")
    ELSE IF state[f.op] \in Terminal \cup {"FAILED"} THEN Rejected("OperationAlreadyCompleted")
    ELSE Authorized(f.run, f.op)

Decision(r, f) ==
    IF f.run # Requests[r].run THEN Rejected("WrongRun")
    ELSE IF f.nonce # r THEN Rejected("WrongNonce")
    ELSE IF HelperFile # JournalFile THEN Rejected("JournalUnavailable")
    ELSE IF ReadApproval(f.run, f.op) = {} THEN Rejected("OperationMissing")
    ELSE IF ~approved THEN Rejected("ApprovalMissing")
    ELSE IF f.op \notin Elevated THEN Rejected("OperationNotElevated")
    ELSE IF state[f.op] \in Terminal THEN Rejected("OperationAlreadyCompleted")
    ELSE Authorized(f.run, f.op)

(* authorize_request; the journal may be missing, locked or unreadable.    *)
AuthorizeRequest(r) ==
    /\ helper[r] = "listening" /\ frame[r].kind = "request"
    /\ \/ WriteResponse(r, Decision(r, frame[r])) /\ UNCHANGED unreadable
       \/ /\ frame[r].run = Requests[r].run /\ frame[r].nonce = r
          /\ unreadable' = [unreadable EXCEPT ![r] = TRUE]
          /\ WriteResponse(r, Rejected("JournalUnavailable"))
    /\ UNCHANGED <<broker, outcome, client, frame, approved, state, retries, openAtCall>>

Finished == (\A r \in R : broker[r] = "done" /\ helper[r] \in {"none", "exited"}) /\ UNCHANGED elevVars

ElevNext ==
    \/ Approve
    \/ \E o \in Ops : Advance(o)
    \/ \E r \in R :
        \/ RequestElevation(r) \/ ConnectToHelper(r) \/ ConnectDeadline(r)
        \/ WriteRequest(r) \/ BrokerFails(r) \/ ReadResponse(r)
        \/ CreatePipe(r) \/ HelperConnectTimeout(r) \/ InvalidRequest(r) \/ AuthorizeRequest(r)
        \/ \E f \in Stray : StrayConnects(r, f)
    \/ Finished

ElevSpec == ElevInit /\ [][ElevNext]_elevVars

(* The steps of the broker and of the helper, each with its timeout.       *)
Connects(r) == ConnectToHelper(r) \/ ConnectDeadline(r)
Exchanges(r) == WriteRequest(r) \/ BrokerFails(r) \/ ReadResponse(r)
Serves(r) == CreatePipe(r) \/ HelperConnectTimeout(r) \/ InvalidRequest(r) \/ AuthorizeRequest(r)

(***************************************************************************)
(* Properties                                                              *)
(***************************************************************************)
(* Types, and a response is only ever in the pipe of a connected broker.   *)
ElevTypeOK ==
    /\ \A r \in R :
        /\ broker[r] \in {"idle", "connect", "write", "read", "done"}
        /\ helper[r] \in {"none", "starting", "listening", "exited"}
        /\ client[r] \in {"none", "broker", "stray", "gone"}
        /\ reply[r].kind # "none" => client[r] \in {"broker", "gone"}
    /\ state \in [Ops -> Terminal \cup {"PENDING", "RUNNING", "FAILED"}]

(* An authorisation that request_elevation returns is for the operation it *)
(* was asked about, that operation needs elevation, its run is approved,   *)
(* and its own helper decided it: no other server and no other request can *)
(* bring it about.                                                         *)
AuthorizationIsEarned ==
    \A r \in R : outcome[r].kind = "authorized" =>
        /\ outcome[r].run = Run /\ outcome[r].op = Requests[r].op
        /\ Requests[r].run = Run /\ outcome[r].op \in Elevated
        /\ approved /\ helper[r] = "exited"

(* The journal may move on between the helper's read and the return, but   *)
(* what had ended before the request was made is never authorised again.   *)
AuthorizationIsNotStale ==
    \A r \in R : outcome[r].kind = "authorized" => openAtCall[r]

(* A refusal tells the truth: an operation refused as ended has ended, one *)
(* refused as missing is not in the journal, and the identity mismatches   *)
(* are never the answer to the broker itself.                              *)
RejectionIsTrue ==
    \A r \in R : outcome[r].kind = "rejected" =>
        LET why == outcome[r].reason IN
        /\ why = "OperationAlreadyCompleted" => state[Requests[r].op] \in Terminal
        /\ why = "OperationMissing" => Requests[r].op \notin Ops \/ Requests[r].run # Run
        /\ why = "OperationNotElevated" => Requests[r].op \notin Elevated
        /\ why \notin {"WrongRun", "WrongNonce"}

(***************************************************************************)
(* Said by the code or its documents, and not kept (see the README)        *)
(***************************************************************************)
(* docs/recovery.md: `journal.sqlite` holds the durable runs, operations   *)
(* and events, and a request is for "one journaled privileged operation":  *)
(* the helper finds the journal unavailable only when reading it failed.   *)
HelperFindsTheJournal ==
    \A r \in R : outcome[r].reason = "JournalUnavailable" => unreadable[r]
=============================================================================
