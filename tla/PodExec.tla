------------------------------- MODULE PodExec -------------------------------
(***************************************************************************)
(* Pod exec sessions: the registry (commands/pod_exec/registry.rs), the    *)
(* start command and the task of a session (commands/pod_exec/runner.rs),  *)
(* and the commands that write to it, resize it and stop it                *)
(* (commands/pod_exec.rs, commands/live_sessions.rs).                      *)
(*                                                                         *)
(* A session's task attaches to a process in a Pod, forwards queued        *)
(* commands to it and lets one reader task per output stream forward what  *)
(* it prints.  A write waits until its bytes have been written or its      *)
(* answer is dropped with the command that carries it.  Bytes, sizes and   *)
(* messages are abstracted: a write is a model value with a length, output *)
(* is a number of chunks.                                                  *)
(*                                                                         *)
(* Bounds: a session is started and a write is called at most once (ids    *)
(* are never reused), a resize is queued once at a time, and a stream      *)
(* prints at most MaxOutput chunks.                                        *)
(***************************************************************************)
EXTENDS Naturals, Sequences, FiniteSetsExt, SequencesExt

CONSTANTS
    Sessions,       \* session ids
    Interactive,    \* the sessions started with stdin
    Writes,         \* calls of write_pod_exec_stdin
    Resizes,        \* calls of resize_pod_exec_terminal
    Target,         \* write or resize -> the session it names
    Size,           \* write -> its number of bytes
    Streams,        \* output streams of a process
    ChunkBytes,     \* INPUT_CHUNK_BYTES
    PendingBytes,   \* PENDING_INPUT_BYTES
    Capacity,       \* COMMAND_CAPACITY
    MaxOutput,
    None

ASSUME CallsAssumption ==
    /\ Interactive \subseteq Sessions
    /\ Writes \cap Resizes = {} /\ None \notin Writes /\ IsFiniteSet(Writes)
    /\ Target \in [Writes \cup Resizes -> Sessions]
    /\ Size \in [Writes -> Nat]

ASSUME LimitsAssumption ==
    {ChunkBytes, PendingBytes, Capacity, MaxOutput} \subseteq Nat

VARIABLES
    entry,      \* session -> its status in the registry, or "absent"
    handles,    \* the sessions whose entry has the handle of the task
    start,      \* session -> where its start command is
    task,       \* session -> where its task is
    aborted,    \* the sessions whose task's handle has been aborted
    queue,      \* session -> the commands its receiver has not taken
    writing,    \* session -> the write its task is carrying out, or None
    answer,     \* write -> where it is, and at last what its caller is told
    accepted,   \* session -> the writes its queue accepted, in order
    stdin,      \* session -> the writes put whole on its stdin, in order
    exited,     \* the sessions whose process is over
    output,     \* session -> stream -> chunks printed, and those not yet read
    reader,     \* session -> stream -> its reader task
    told        \* session -> the last message about its state

registry == <<entry, handles>>
calls == <<start, answer>>
input == <<queue, writing, accepted, stdin>>
process == <<exited, output, reader>>
vars == <<entry, handles, start, task, aborted, queue, writing, answer, accepted,
          stdin, exited, output, reader, told>>

Init ==
    /\ entry = [s \in Sessions |-> "absent"]
    /\ handles = {}
    /\ start = [s \in Sessions |-> "idle"]
    /\ task = [s \in Sessions |-> "none"]
    /\ aborted = {}
    /\ queue = [s \in Sessions |-> <<>>]
    /\ writing = [s \in Sessions |-> None]
    /\ answer = [w \in Writes |-> "none"]
    /\ accepted = [s \in Sessions |-> <<>>]
    /\ stdin = [s \in Sessions |-> <<>>]
    /\ exited = {}
    /\ output = [s \in Sessions |-> [r \in Streams |-> [printed |-> 0, unread |-> 0]]]
    /\ reader = [s \in Sessions |-> [r \in Streams |-> "none"]]
    /\ told = [s \in Sessions |-> "nothing"]

-----------------------------------------------------------------------------
(* start_pod_exec_session: the entry, then the task, then its handle.      *)

Insert(s) ==
    /\ start[s] = "idle"
    /\ start' = [start EXCEPT ![s] = "inserted"]
    /\ entry' = [entry EXCEPT ![s] = "starting"]
    /\ told' = [told EXCEPT ![s] = "started"]
    /\ UNCHANGED <<handles, task, aborted, answer, input, process>>

Spawn(s) ==
    /\ start[s] = "inserted"
    /\ start' = [start EXCEPT ![s] = "spawned"]
    /\ task' = [task EXCEPT ![s] = "connecting"]
    /\ UNCHANGED <<registry, aborted, answer, input, process, told>>

\* A session that was stopped in between has no entry to keep the handle.
SetHandle(s) ==
    /\ start[s] = "spawned"
    /\ start' = [start EXCEPT ![s] = "done"]
    /\ IF entry[s] = "absent"
         THEN aborted' = aborted \cup {s} /\ UNCHANGED handles
         ELSE handles' = handles \cup {s} /\ UNCHANGED aborted
    /\ UNCHANGED <<entry, task, answer, input, process, told>>

\* Mutant: a stopped session is only taken off the list.
StopSessions_forgets(gone) ==
    /\ gone # {}
    /\ \A s \in gone : entry[s] # "absent"
    /\ entry' = [s \in Sessions |-> IF s \in gone THEN "absent" ELSE entry[s]]
    /\ handles' = handles \ gone
    /\ UNCHANGED <<calls, task, aborted, input, process, told>>

(* stop_pod_exec_session for one session, and                              *)
(* stop_live_sessions_outside_scope for those outside the new scope.  An   *)
(* abort takes effect later, so it may as well follow at once.             *)
StopSessions(gone) ==
    /\ gone # {}
    /\ \A s \in gone : entry[s] # "absent"
    /\ entry' = [s \in Sessions |-> IF s \in gone THEN "absent" ELSE entry[s]]
    /\ handles' = handles \ gone
    /\ aborted' = aborted \cup (handles \cap gone)
    /\ UNCHANGED <<calls, task, input, process, told>>

\* mark_status and mark_exited touch the entry only if it is still there.
Mark(s, status) ==
    entry' = [entry EXCEPT ![s] = IF @ = "absent" THEN @ ELSE status]

-----------------------------------------------------------------------------
(* The task: run_exec_session and drive_exec_io.                           *)

Driving(s) == task[s] \in {"sizing", "running"}

\* The writes whose bytes are held for the session: their permits are.
Held(s) == {w \in Writes : Target[w] = s /\ answer[w] \in {"permitted", "sending", "queued"}}

Bytes(ws) == Cardinality(UNION {{w} \X (1..Size[w]) : w \in ws})

\* The receiver goes with its commands, and they go with their answers.
DropCommands(s) ==
    /\ queue' = [queue EXCEPT ![s] = <<>>]
    /\ writing' = [writing EXCEPT ![s] = None]
    /\ UNCHANGED <<accepted, stdin>>

Lost(s) ==
    [w \in Writes |-> IF Target[w] = s /\ answer[w] = "queued" THEN "lost" ELSE answer[w]]

\* The JoinSet is dropped: readers still at work are aborted.
CutReaders(s) ==
    reader' = [reader EXCEPT ![s] = [r \in Streams |->
                  IF reader[s][r] = "reading" THEN "cut" ELSE reader[s][r]]]

\* The task returns after it has marked the entry and told the frontend.
End(s, outcome, answers) ==
    /\ task' = [task EXCEPT ![s] = "over"]
    /\ Mark(s, outcome)
    /\ told' = [told EXCEPT ![s] = outcome]
    /\ answer' = answers
    /\ DropCommands(s)
    /\ CutReaders(s)
    /\ UNCHANGED <<handles, start, aborted, exited, output>>

\* No client for the context, or the API server refuses the exec request.
ConnectFails(s) ==
    /\ task[s] = "connecting"
    /\ End(s, "error", Lost(s))

Attach(s) ==
    /\ task[s] = "connecting"
    /\ task' = [task EXCEPT ![s] = "sizing"]
    /\ Mark(s, "running")
    /\ told' = [told EXCEPT ![s] = "running"]
    /\ reader' = [reader EXCEPT ![s] = [r \in Streams |-> "reading"]]
    /\ UNCHANGED <<handles, calls, aborted, input, exited, output>>

\* The first terminal size goes out before any command is taken.
SendSize(s) ==
    /\ task[s] = "sizing"
    /\ task' = [task EXCEPT ![s] = "running"]
    /\ UNCHANGED <<registry, calls, aborted, input, process, told>>

ReadyToTake(s) == task[s] = "running" /\ writing[s] = None /\ queue[s] # <<>>

TakeWrite(s) ==
    /\ ReadyToTake(s) /\ Head(queue[s]) \in Writes
    /\ writing' = [writing EXCEPT ![s] = Head(queue[s])]
    /\ queue' = [queue EXCEPT ![s] = Tail(@)]
    /\ UNCHANGED <<registry, calls, task, aborted, accepted, stdin, process, told>>

TakeResize(s) ==
    /\ ReadyToTake(s) /\ Head(queue[s]) \in Resizes
    /\ queue' = [queue EXCEPT ![s] = Tail(@)]
    /\ UNCHANGED <<registry, calls, task, aborted, writing, accepted, stdin, process, told>>

\* A terminal size cannot be sent once the connection has closed its end.
ResizeFails(s) ==
    /\ s \in Interactive
    /\ task[s] = "sizing" \/ (ReadyToTake(s) /\ Head(queue[s]) \in Resizes)
    /\ End(s, "error", Lost(s))

\* The bytes are written, the caller is answered and the permit is dropped.
FinishWrite(s) ==
    /\ task[s] = "running" /\ writing[s] # None
    /\ stdin' = [stdin EXCEPT ![s] = Append(@, writing[s])]
    /\ answer' = [answer EXCEPT ![writing[s]] = "ok"]
    /\ writing' = [writing EXCEPT ![s] = None]
    /\ UNCHANGED <<registry, start, task, aborted, queue, accepted, process, told>>

\* Mutant: the caller is told of the failure and the loop goes on.
FailWrite_continues(s) ==
    /\ task[s] = "running" /\ writing[s] # None
    /\ answer' = [answer EXCEPT ![writing[s]] = "failed"]
    /\ writing' = [writing EXCEPT ![s] = None]
    /\ UNCHANGED <<registry, start, task, aborted, queue, accepted, stdin, process, told>>

FailWrite(s) ==
    /\ task[s] = "running" /\ writing[s] # None
    /\ End(s, "error", [Lost(s) EXCEPT ![writing[s]] = "failed"])

\* recv returns None when every sender is dropped: the registry's with the
\* entry, and a clone in each call that is about to send.
InputClosed(s) ==
    /\ task[s] = "running" /\ writing[s] = None /\ queue[s] = <<>>
    /\ entry[s] = "absent"
    /\ \A w \in Writes : Target[w] = s => answer[w] # "sending"
    /\ End(s, "error", Lost(s))

\* Select waits for the status while the input loop is in a write.
StatusReady(s) == Driving(s) /\ s \in exited

\* The exit status wins the select: the input future is dropped with the
\* write it is in, the queue stays until the readers are done.
StatusArrives(s) ==
    /\ StatusReady(s)
    /\ task' = [task EXCEPT ![s] = "draining"]
    /\ writing' = [writing EXCEPT ![s] = None]
    /\ answer' = IF writing[s] = None THEN answer
                 ELSE [answer EXCEPT ![writing[s]] = "lost"]
    /\ UNCHANGED <<registry, start, aborted, queue, accepted, stdin, process, told>>

NoStatus(s) ==
    /\ StatusReady(s)
    /\ End(s, "error", Lost(s))

ReaderError(s) ==
    /\ Driving(s) \/ task[s] = "draining"
    /\ \E r \in Streams : reader[s][r] = "failed"
    /\ End(s, "error", Lost(s))

Drained(s) ==
    /\ task[s] = "draining"
    /\ \A r \in Streams : reader[s][r] = "done"
    /\ End(s, "exited", Lost(s))

\* An aborted task stops at an await, without a word.
AbortTakesEffect(s) ==
    /\ s \in aborted
    /\ task[s] = "connecting" \/ Driving(s) \/ task[s] = "draining"
    /\ task' = [task EXCEPT ![s] = "over"]
    /\ answer' = Lost(s)
    /\ DropCommands(s)
    /\ CutReaders(s)
    /\ UNCHANGED <<registry, start, aborted, exited, output, told>>

-----------------------------------------------------------------------------
(* The process, and the readers of its output (read_exec_output).          *)

Emit(s, r) ==
    /\ reader[s][r] = "reading" /\ s \notin exited
    /\ output[s][r].printed < MaxOutput
    /\ output' = [output EXCEPT ![s][r] =
                     [printed |-> @.printed + 1, unread |-> @.unread + 1]]
    /\ UNCHANGED <<registry, calls, task, aborted, input, exited, reader, told>>

Exit(s) ==
    /\ Driving(s) /\ s \notin exited
    /\ exited' = exited \cup {s}
    /\ UNCHANGED <<registry, calls, task, aborted, input, output, reader, told>>

Read(s, r) ==
    /\ reader[s][r] = "reading" /\ output[s][r].unread > 0
    /\ output' = [output EXCEPT ![s][r].unread = @ - 1]
    /\ UNCHANGED <<registry, calls, task, aborted, input, exited, reader, told>>

\* The stream ends: with the process, or because the process closed it.
ReaderDone(s, r) ==
    /\ reader[s][r] = "reading" /\ output[s][r].unread = 0
    /\ reader' = [reader EXCEPT ![s][r] = "done"]
    /\ UNCHANGED <<registry, calls, task, aborted, input, exited, output, told>>

\* The stream breaks, or the frontend's channel refuses a message.
ReaderFails(s, r) ==
    /\ reader[s][r] = "reading"
    /\ reader' = [reader EXCEPT ![s][r] = "failed"]
    /\ UNCHANGED <<registry, calls, task, aborted, input, exited, output, told>>

-----------------------------------------------------------------------------
(* write_pod_exec_stdin and resize_pod_exec_terminal.                      *)

Answer(w, what) == answer' = [answer EXCEPT ![w] = what]

\* Mutant: only the bytes still in the queue are counted.
BeginWrite_queued(w) ==
    LET s == Target[w] IN
    /\ answer[w] = "none"
    /\ IF \/ Size[w] > ChunkBytes
          \/ entry[s] = "absent"
          \/ s \notin Interactive
          \/ Size[w] + Bytes(Held(s) \ {writing[s]}) > PendingBytes
         THEN Answer(w, "refused")
         ELSE Answer(w, IF Size[w] = 0 THEN "ok" ELSE "permitted")
    /\ UNCHANGED <<registry, start, task, aborted, input, process, told>>

\* The length and the entry are checked and the bytes are reserved.
BeginWrite(w) ==
    LET s == Target[w] IN
    /\ answer[w] = "none"
    /\ IF \/ Size[w] > ChunkBytes
          \/ entry[s] = "absent"
          \/ s \notin Interactive
          \/ Size[w] + Bytes(Held(s)) > PendingBytes
         THEN Answer(w, "refused")
         ELSE Answer(w, IF Size[w] = 0 THEN "ok" ELSE "permitted")
    /\ UNCHANGED <<registry, start, task, aborted, input, process, told>>

\* send_command looks the session up again and clones its sender.
CloneSender(w) ==
    /\ answer[w] = "permitted"
    /\ Answer(w, IF entry[Target[w]] = "absent" THEN "refused" ELSE "sending")
    /\ UNCHANGED <<registry, start, task, aborted, input, process, told>>

Accepts(s) == task[s] # "over" /\ Len(queue[s]) < Capacity

Enqueue(s, c) ==
    /\ queue' = [queue EXCEPT ![s] = Append(@, c)]
    /\ UNCHANGED <<writing, stdin>>

TrySend(w) ==
    LET s == Target[w] IN
    /\ answer[w] = "sending"
    /\ IF Accepts(s)
         THEN /\ Answer(w, "queued")
              /\ Enqueue(s, w)
              /\ accepted' = [accepted EXCEPT ![s] = Append(@, w)]
         ELSE Answer(w, "refused") /\ UNCHANGED input
    /\ UNCHANGED <<registry, start, task, aborted, process, told>>

\* A resize waits for nothing.  An accepted one may be repeated, so it is in
\* the queue at most once here.
Resize(z) ==
    LET s == Target[z] IN
    /\ entry[s] # "absent" /\ Accepts(s)
    /\ \A i \in DOMAIN queue[s] : queue[s][i] # z
    /\ Enqueue(s, z)
    /\ UNCHANGED <<registry, calls, task, aborted, accepted, process, told>>

-----------------------------------------------------------------------------
TaskStep(s) ==
    \/ ConnectFails(s) \/ Attach(s) \/ SendSize(s) \/ TakeWrite(s) \/ TakeResize(s)
    \/ ResizeFails(s) \/ FinishWrite(s) \/ FailWrite(s) \/ InputClosed(s)
    \/ StatusArrives(s) \/ NoStatus(s) \/ ReaderError(s) \/ Drained(s)
    \/ AbortTakesEffect(s)

ProcessStep(s) ==
    \/ Exit(s)
    \/ \E r \in Streams :
          Emit(s, r) \/ Read(s, r) \/ ReaderDone(s, r) \/ ReaderFails(s, r)

WriteStep(w) == BeginWrite(w) \/ CloneSender(w) \/ TrySend(w)

Next ==
    \/ \E s \in Sessions :
          Insert(s) \/ Spawn(s) \/ SetHandle(s) \/ TaskStep(s) \/ ProcessStep(s)
    \/ \E gone \in SUBSET Sessions : StopSessions(gone)
    \/ \E w \in Writes : WriteStep(w)
    \/ \E z \in Resizes : Resize(z)

Spec == Init /\ [][Next]_vars

(* Commands and tasks are run by the runtime: a call that has begun goes   *)
(* on, an abort takes effect, a status that has arrived is noticed, a      *)
(* reader reads what is there, and the streams of a process that is over   *)
(* end.  Nothing is assumed of the connection, of a process that is alive  *)
(* (it need not read, print or exit) or of the user.                       *)
Fairness ==
    /\ \A s \in Sessions :
          /\ WF_vars(Spawn(s)) /\ WF_vars(SetHandle(s))
          /\ WF_vars(AbortTakesEffect(s))
          /\ WF_vars(StatusArrives(s) \/ NoStatus(s))
          /\ WF_vars(ReaderError(s)) /\ WF_vars(Drained(s))
          /\ \A r \in Streams :
                WF_vars(Read(s, r)) /\ WF_vars(s \in exited /\ ReaderDone(s, r))
    /\ \A w \in Writes : WF_vars(CloneSender(w)) /\ WF_vars(TrySend(w))

FairSpec == Spec /\ Fairness

-----------------------------------------------------------------------------
(* Properties.                                                             *)

Statuses == {"absent", "starting", "running", "exited", "error"}
Answers == {"none", "permitted", "sending", "queued", "ok", "refused", "failed", "lost"}

\* Every variable keeps its type: entries, tasks and calls of PodExecRegistry
\* and run_exec_session are in the states these know.
TypeOK ==
    /\ entry \in [Sessions -> Statuses]
    /\ handles \subseteq Sessions
    /\ start \in [Sessions -> {"idle", "inserted", "spawned", "done"}]
    /\ task \in [Sessions -> {"none", "connecting", "sizing", "running", "draining", "over"}]
    /\ aborted \subseteq Sessions
    /\ queue \in [Sessions -> Seq(Writes \cup Resizes)]
    /\ writing \in [Sessions -> Writes \cup {None}]
    /\ answer \in [Writes -> Answers]
    /\ accepted \in [Sessions -> Seq(Writes)]
    /\ stdin \in [Sessions -> Seq(Writes)]
    /\ exited \subseteq Sessions
    /\ output \in [Sessions -> [Streams -> [printed : 0..MaxOutput, unread : 0..MaxOutput]]]
    /\ reader \in [Sessions -> [Streams -> {"none", "reading", "done", "failed", "cut"}]]
    /\ told \in [Sessions -> {"nothing", "started", "running", "exited", "error"}]

\* A session's task can always be stopped: its handle is in the entry, with
\* the start command that is about to store it, or already aborted, although
\* the entry is there before the task is (insert, set_handle, stop).
TasksAreOwned ==
    \A s \in Sessions : task[s] \notin {"none", "over"} =>
        s \in handles \/ start[s] = "spawned" \/ s \in aborted

\* What the list of sessions shows agrees with the task: a session that is
\* listed as starting or running has not ended, one listed as exited or
\* failed has (mark_running, mark_error, mark_exited).
EntriesTellTheTruth ==
    \A s \in Sessions : entry[s] # "absent" =>
        (task[s] = "over" <=> entry[s] \in {"exited", "error"})

\* However many callers write at once, the accepted bytes a session has not
\* written yet stay within PENDING_INPUT_BYTES (write_stdin's permits).
PendingWithinBudget ==
    \A s \in Sessions :
        Bytes({w \in Writes : Target[w] = s /\ answer[w] = "queued"}) <= PendingBytes

\* The process never reads input with a piece missing: what went to its stdin
\* is an initial part of what the queue accepted, in that order, also when a
\* write failed or was given up (the input loop of drive_exec_io).
InputHasNoGaps == \A s \in Sessions : IsPrefix(stdin[s], accepted[s])

\* A caller is told that its input was written exactly when it was
\* (write_stdin's acknowledgement; an empty write has nothing to write).
AnswersAreTrue ==
    \A w \in Writes : Size[w] > 0 =>
        (answer[w] = "ok" <=> w \in ToSet(stdin[Target[w]]))

\* All that the process printed has been forwarded before the frontend is
\* told of the exit, on which it closes the channel (drive_exec_io).
ExitIsLast ==
    \A s \in Sessions : told[s] = "exited" =>
        \A r \in Streams : reader[s][r] = "done" /\ output[s][r].unread = 0

Stopped(s) == start[s] # "idle" /\ entry[s] = "absent"

\* A stopped session ends, whatever its connection or process does and
\* however early it was stopped (stop, stop_outside_scope, set_handle).
StoppedSessionsEnd == \A s \in Sessions : Stopped(s) ~> (task[s] = "over")

\* A caller of write_stdin does not wait for ever for a session that was
\* stopped or whose process is over, in the queue or on its way there.
WritersReturn ==
    \A w \in Writes :
        (/\ answer[w] \in {"permitted", "sending", "queued"}
         /\ Stopped(Target[w]) \/ Target[w] \in exited)
        ~> (answer[w] \in {"ok", "refused", "failed", "lost"})

\* What a shell shows and answers is true: types hold, its task is owned, its
\* entry and its exit agree with it, and its input arrives whole.
ShellsAreSound ==
    /\ TypeOK /\ TasksAreOwned
    /\ EntriesTellTheTruth /\ ExitIsLast
    /\ InputHasNoGaps /\ AnswersAreTrue

\* A stopped shell ends, and so does everybody's wait for it.
ShellsEnd == StoppedSessionsEnd /\ WritersReturn
=============================================================================
