--------------------------- MODULE ProcessRunner ----------------------------
(***************************************************************************)
(* ProcessRunner (reforge-platform-windows, process.rs): one call of `run` *)
(* with its child process, the two tasks that read the child's output and  *)
(* a process that the child may start and that inherits its pipes.  Time   *)
(* is the event that the deadline passed; output is counted in units.      *)
(***************************************************************************)
EXTENDS Naturals, FiniteSets

CONSTANTS
    Specs,         \* command specifications: [exe, timeout, limit, args, bytes]
    Registered,    \* executables that a caller offers to register_observed
    MaxTimeout, MaxLimit, MaxArgs, MaxArgBytes,
    Buffer,        \* units one read returns at most
    MaxWritten     \* bound on what one stream carries

Streams == {"stdout", "stderr"}

VARIABLES
    spec,          \* the command
    observed,      \* executables registered by component
    pc,            \* where `run` is
    child,         \* "none", "running", "exited" or "killed"
    heir,          \* a descendant holds the pipes
    pipe,          \* stream -> units written and not yet read
    written,       \* stream -> units written so far
    kept,          \* stream -> units a reader task holds
    reader,        \* stream -> "off", "reading", "eof" or "failed"
    total,         \* the counter the two readers share
    failure,       \* output_failure
    cancel, late,  \* the caller cancelled; the deadline passed
    answer         \* what `run` returned

procVars == <<spec, observed, pc, child, heir, pipe, written, kept, reader, total,
              failure, cancel, late, answer>>

None == [kind |-> "none", exit |-> FALSE, timedOut |-> FALSE, cancelled |-> FALSE]
Error(code) == [None EXCEPT !.kind = code]
Zero == [s \in Streams |-> 0]

RunInit ==
    /\ spec \in Specs /\ observed = {}
    /\ pc = "idle" /\ child = "none" /\ heir = FALSE
    /\ pipe = Zero /\ written = Zero /\ kept = Zero
    /\ reader = [s \in Streams |-> "off"]
    /\ total = 0 /\ failure = FALSE /\ cancel = FALSE /\ late = FALSE
    /\ answer = None

Return(a) == pc' = "done" /\ answer' = a

(* A path is kept only when it is absolute, a regular file and an .exe.    *)
RegisterObserved(x) ==
    /\ pc = "idle"
    /\ x.absolute /\ x.regular /\ x.exe
    /\ observed' = observed \cup {x.component}
    /\ UNCHANGED <<spec, pc, child, heir, pipe, written, kept, reader, total, failure,
                   cancel, late, answer>>

Valid(s) ==
    /\ s.timeout > 0 /\ s.timeout <= MaxTimeout
    /\ s.limit > 0 /\ s.limit <= MaxLimit
    /\ s.args <= MaxArgs /\ s.bytes <= MaxArgBytes

Resolves(s) == s.exe = "builtin" \/ s.exe \in observed

Start ==
    /\ pc = "idle"
    /\ \/ /\ ~Valid(spec) /\ Return(Error("SecurityPolicy"))
          /\ UNCHANGED <<child, reader>>
       \/ /\ Valid(spec) /\ ~Resolves(spec) /\ Return(Error("ProviderUnavailable"))
          /\ UNCHANGED <<child, reader>>
       \/ \* the program cannot be started
          /\ Valid(spec) /\ Resolves(spec) /\ Return(Error("Io"))
          /\ UNCHANGED <<child, reader>>
       \/ /\ Valid(spec) /\ Resolves(spec)
          /\ child' = "running" /\ pc' = "select"
          /\ reader' = [s \in Streams |-> "reading"]
          /\ UNCHANGED answer
    /\ UNCHANGED <<spec, observed, heir, pipe, written, kept, total, failure, cancel, late>>

(***************************************************************************)
(* The environment: the child, its descendant, the caller and the clock    *)
(***************************************************************************)
Writes(s, n) ==
    /\ child = "running" \/ heir
    /\ written[s] + n <= MaxWritten
    /\ pipe' = [pipe EXCEPT ![s] = @ + n]
    /\ written' = [written EXCEPT ![s] = @ + n]
    /\ UNCHANGED <<spec, observed, pc, child, heir, kept, reader, total, failure,
                   cancel, late, answer>>

ChildExits ==
    /\ child = "running" /\ child' = "exited"
    /\ UNCHANGED <<spec, observed, pc, heir, pipe, written, kept, reader, total, failure,
                   cancel, late, answer>>

ChildSpawns ==
    /\ child = "running" /\ ~heir /\ heir' = TRUE
    /\ UNCHANGED <<spec, observed, pc, child, pipe, written, kept, reader, total, failure,
                   cancel, late, answer>>

HeirExits ==
    /\ heir /\ heir' = FALSE
    /\ UNCHANGED <<spec, observed, pc, child, pipe, written, kept, reader, total, failure,
                   cancel, late, answer>>

Cancel ==
    /\ pc # "done" /\ ~cancel /\ cancel' = TRUE
    /\ UNCHANGED <<spec, observed, pc, child, heir, pipe, written, kept, reader, total,
                   failure, late, answer>>

DeadlinePasses ==
    /\ pc = "select" /\ ~late /\ late' = TRUE
    /\ UNCHANGED <<spec, observed, pc, child, heir, pipe, written, kept, reader, total,
                   failure, cancel, answer>>

(***************************************************************************)
(* read_bounded                                                            *)
(***************************************************************************)
Least(a, b) == IF a < b THEN a ELSE b

(* Faulty variant: each stream is held against the limit on its own.       *)
ReadAlone(s) ==
    /\ reader[s] = "reading" /\ pipe[s] > 0
    /\ LET n == Least(pipe[s], Buffer)
       IN /\ pipe' = [pipe EXCEPT ![s] = @ - n]
          /\ total' = total + n
          /\ IF kept[s] + n > spec.limit
             THEN /\ failure' = TRUE /\ reader' = [reader EXCEPT ![s] = "failed"] /\ UNCHANGED kept
             ELSE /\ kept' = [kept EXCEPT ![s] = @ + n] /\ UNCHANGED <<failure, reader>>
    /\ UNCHANGED <<spec, observed, pc, child, heir, written, cancel, late, answer>>

(* Faulty variant: the units of the read that overflows are not counted.   *)
ReadUncounted(s) ==
    /\ reader[s] = "reading" /\ pipe[s] > 0
    /\ LET n == Least(pipe[s], Buffer)
       IN /\ pipe' = [pipe EXCEPT ![s] = @ - n]
          /\ IF total + n > spec.limit
             THEN /\ failure' = TRUE /\ reader' = [reader EXCEPT ![s] = "failed"]
                  /\ UNCHANGED <<kept, total>>
             ELSE /\ kept' = [kept EXCEPT ![s] = @ + n] /\ total' = total + n
                  /\ UNCHANGED <<failure, reader>>
    /\ UNCHANGED <<spec, observed, pc, child, heir, written, cancel, late, answer>>

Read(s) ==
    /\ reader[s] = "reading" /\ pipe[s] > 0
    /\ LET n == Least(pipe[s], Buffer)
       IN /\ pipe' = [pipe EXCEPT ![s] = @ - n]
          /\ total' = total + n
          /\ IF total + n > spec.limit
             THEN /\ failure' = TRUE /\ reader' = [reader EXCEPT ![s] = "failed"] /\ UNCHANGED kept
             ELSE /\ kept' = [kept EXCEPT ![s] = @ + n] /\ UNCHANGED <<failure, reader>>
    /\ UNCHANGED <<spec, observed, pc, child, heir, written, cancel, late, answer>>

ReadFails(s) ==
    /\ reader[s] = "reading"
    /\ reader' = [reader EXCEPT ![s] = "failed"] /\ failure' = TRUE
    /\ UNCHANGED <<spec, observed, pc, child, heir, pipe, written, kept, total, cancel,
                   late, answer>>

(* The end of a stream is seen once every holder of the pipe is gone.      *)
ReadEnd(s) ==
    /\ reader[s] = "reading" /\ pipe[s] = 0
    /\ child # "running" /\ ~heir
    /\ reader' = [reader EXCEPT ![s] = "eof"]
    /\ UNCHANGED <<spec, observed, pc, child, heir, pipe, written, kept, total, failure,
                   cancel, late, answer>>

(***************************************************************************)
(* The select of `run`: biased, in this order                              *)
(***************************************************************************)
(* Faulty variant: the child is asked to stop and not killed.              *)
TerminateNobody == UNCHANGED child
TerminateAndWait == child' = IF child = "running" THEN "killed" ELSE child

Chosen(a) ==
    /\ pc = "select" /\ pc' = "join_stdout" /\ answer' = a
    /\ UNCHANGED <<spec, observed, heir, pipe, written, kept, reader, total, failure,
                   cancel, late>>

SelectCancelled ==
    /\ cancel
    /\ TerminateAndWait
    /\ Chosen([None EXCEPT !.cancelled = TRUE])

(* Faulty variant: the status of the killed child is reported as its exit. *)
SelectTimeoutStatus ==
    /\ ~cancel /\ late
    /\ TerminateAndWait
    /\ Chosen([None EXCEPT !.timedOut = TRUE, !.exit = TRUE])

SelectTimeout ==
    /\ ~cancel /\ late
    /\ TerminateAndWait
    /\ Chosen([None EXCEPT !.timedOut = TRUE])

SelectOutputFailure ==
    /\ ~cancel /\ ~late /\ failure
    /\ TerminateAndWait
    /\ Chosen(Error("output_failed"))

SelectExit ==
    /\ ~cancel /\ ~late /\ ~failure /\ child = "exited"
    /\ UNCHANGED child
    /\ Chosen([None EXCEPT !.exit = TRUE])

(* The child cannot be killed, or its status cannot be read: the error is  *)
(* returned, the readers are left alone, and dropping the child may still  *)
(* kill it (kill_on_drop).                                                 *)
SelectFails ==
    /\ pc = "select" /\ (cancel \/ late \/ failure \/ child = "exited")
    /\ Return(Error("Io"))
    /\ TerminateAndWait \/ UNCHANGED child
    /\ UNCHANGED <<spec, observed, heir, pipe, written, kept, reader, total, failure, cancel, late>>

(***************************************************************************)
(* join_output for stdout, then for stderr; the first error is returned    *)
(***************************************************************************)
JoinStdout ==
    /\ pc = "join_stdout" /\ reader["stdout"] \in {"eof", "failed"}
    /\ IF reader["stdout"] = "failed" THEN Return(Error("OutputError"))
       ELSE pc' = "join_stderr" /\ UNCHANGED answer
    /\ UNCHANGED <<spec, observed, child, heir, pipe, written, kept, reader, total, failure,
                   cancel, late>>

(* Faulty variant: what stderr says is not waited for.                     *)
JoinStderrEarly ==
    /\ pc = "join_stderr"
    /\ IF answer.kind = "output_failed" THEN Return(Error("OutputError"))
       ELSE Return([answer EXCEPT !.kind = "ok"])
    /\ UNCHANGED <<spec, observed, child, heir, pipe, written, kept, reader, total, failure,
                   cancel, late>>

JoinStderr ==
    /\ pc = "join_stderr" /\ reader["stderr"] \in {"eof", "failed"}
    /\ IF \/ reader["stderr"] = "failed"
          \/ answer.kind = "output_failed"
          \/ kept["stdout"] + kept["stderr"] > spec.limit
       THEN Return(Error("OutputError"))
       ELSE Return([answer EXCEPT !.kind = "ok"])
    /\ UNCHANGED <<spec, observed, child, heir, pipe, written, kept, reader, total, failure,
                   cancel, late>>

Readers == \E s \in Streams : Read(s) \/ ReadEnd(s)
Selects == SelectCancelled \/ SelectTimeout \/ SelectOutputFailure \/ SelectExit
Joins == JoinStdout \/ JoinStderr

Finished == pc = "done" /\ UNCHANGED procVars

RunNext ==
    \/ \E x \in Registered : RegisterObserved(x)
    \/ Start
    \/ \E s \in Streams, n \in 1..2 : Writes(s, n)
    \/ ChildExits \/ ChildSpawns \/ HeirExits \/ Cancel \/ DeadlinePasses
    \/ \E s \in Streams : ReadFails(s)
    \/ Readers \/ Selects \/ SelectFails \/ Joins \/ Finished

RunSpec == RunInit /\ [][RunNext]_procVars

(***************************************************************************)
(* Properties                                                              *)
(***************************************************************************)
(* Types, and the shared counter: every unit taken from a pipe is counted. *)
ProcTypeOK ==
    /\ spec \in Specs
    /\ observed \subseteq {x.component : x \in Registered}
    /\ pc \in {"idle", "select", "join_stdout", "join_stderr", "done"}
    /\ child \in {"none", "running", "exited", "killed"}
    /\ pipe \in [Streams -> 0..MaxWritten] /\ kept \in [Streams -> 0..MaxWritten]
    /\ total = written["stdout"] - pipe["stdout"] + written["stderr"] - pipe["stderr"]

(* What the two reader tasks hold together never exceeds the limit of the  *)
(* command, in whatever order they read.                                   *)
OutputIsBounded == pc # "idle" => kept["stdout"] + kept["stderr"] <= spec.limit

(* A result is complete: when `run` returns one, every unit that either    *)
(* stream carried is in it, also when the process was cut short.           *)
ResultIsComplete == answer.kind = "ok" => kept = written

(* `run` returns while the child it started still runs only with the error *)
(* that says it could not be stopped.                                      *)
NothingLeftRunning == pc = "done" /\ answer.kind # "Io" => child # "running"

(* A result says what happened to the child: an exit code means that it    *)
(* ended by itself and that nobody had asked it to stop before, a flag     *)
(* that the event it names took place.                                     *)
ResultIsTrue ==
    answer.kind = "ok" =>
        /\ answer.exit => child = "exited" /\ ~answer.timedOut /\ ~answer.cancelled
        /\ answer.timedOut => late /\ ~answer.exit /\ ~answer.cancelled
        /\ answer.cancelled => cancel /\ ~answer.exit
        /\ answer.exit \/ answer.timedOut \/ answer.cancelled
=============================================================================
