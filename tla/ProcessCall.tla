---------------------------- MODULE ProcessCall ----------------------------
(* One call of a process plugin (plugin_host/src/process.rs and              *)
(* process/child.rs): the checks of the request, the attempts to start a     *)
(* child, the fresh child with its three pipes, the thread that writes the   *)
(* request, the two that read the child's output to its end, and the polling *)
(* loop that ends the call on a frame, an exit, the deadline or a failure of *)
(* its own. Bytes travel in pieces. What the child does is its script: a     *)
(* sequence of reads and writes, each of which blocks on a pipe as the       *)
(* system's does.                                                            *)
EXTENDS Naturals, Sequences, FiniteSets

CONSTANTS
  Scripts,    \* what a plugin may do: its steps, its exit code, and how many
              \* pieces the frame it announces has (Over: more than the limit)
  Over,       \* a declared length above max_output_bytes
  Capacity,   \* pieces a pipe holds
  Request,    \* pieces of the request
  Attempts    \* SPAWN_ATTEMPTS

Steps == {"in", "out", "err", "fork", "linger"}
ASSUME CallAssumption ==
  /\ Capacity \in Nat \ {0} /\ Request \in Nat \ {0} /\ Attempts \in Nat \ {0} /\ Over \notin Nat
  /\ Scripts \subseteq [steps: Seq(Steps), code: {0, 1}, frame: (Nat \ {0}) \cup {Over}]

VARIABLES
  asked,                 \* what the host asks for: whether it can be framed
  attempt,               \* attempts to start the child so far
  fault,                 \* history: which system call of the host failed
  script, patient,       \* the child's, and whether the deadline is out of reach
  child, at,             \* the child process, and the step it is at
  orphan,                \* whether a process it started holds the pipes open
  stdin, stdout, stderr, \* pieces in the pipes
  writer, sent,          \* the thread that writes the request
  reader, got,           \* the thread that reads a frame and then to the end
  listener, heard,       \* the thread that reads stderr to the end
  message,               \* what the reader has sent and the host not received
  host, refusal, result, \* the polling loop and what the call returns
  expired                \* whether the deadline has passed
plugin == <<script, patient, child, at, orphan>>
pipes == <<stdin, stdout, stderr>>
threads == <<writer, sent, reader, got, listener, heard>>
loop == <<host, refusal, result>>
request == <<asked, attempt, fault>>
callVars == <<request, plugin, pipes, threads, message, loop, expired>>

Count(op) == Cardinality({i \in 1..Len(script.steps) : script.steps[i] = op})
Answers(n) == script.frame # Over /\ n >= script.frame

Init ==
  /\ asked \in {"fits", "misnamed", "long"} /\ attempt = 1 /\ fault = "none"
  /\ script \in Scripts /\ patient \in BOOLEAN
  /\ child = "none" /\ at = 1 /\ orphan = FALSE
  /\ stdin = 0 /\ stdout = 0 /\ stderr = 0
  /\ writer = "unborn" /\ sent = 0
  /\ reader = "unborn" /\ got = 0
  /\ listener = "unborn" /\ heard = 0
  /\ message = "none"
  /\ host = "checking" /\ refusal = FALSE /\ result = "none"
  /\ expired = FALSE

-----------------------------------------------------------------------------
(* The child, and a process it leaves behind. A lingering child stays at its *)
(* step until it is killed.                                                  *)
Doing(step) == child = "running" /\ at <= Len(script.steps) /\ script.steps[at] = step
Advance == at' = at + 1 /\ UNCHANGED <<script, patient, child>>

ReadStdin ==
  /\ Doing("in") /\ (stdin > 0 \/ writer = "done")
  /\ stdin' = IF stdin > 0 THEN stdin - 1 ELSE 0
  /\ Advance
  /\ UNCHANGED <<orphan, stdout, stderr, threads, message, loop, expired, request>>

WriteStdout ==
  /\ Doing("out") /\ stdout < Capacity
  /\ stdout' = stdout + 1
  /\ Advance
  /\ UNCHANGED <<orphan, stdin, stderr, threads, message, loop, expired, request>>

WriteStderr ==
  /\ Doing("err") /\ stderr < Capacity
  /\ stderr' = stderr + 1
  /\ Advance
  /\ UNCHANGED <<orphan, stdin, stdout, threads, message, loop, expired, request>>

Fork ==
  /\ Doing("fork")
  /\ orphan' = TRUE
  /\ Advance
  /\ UNCHANGED <<pipes, threads, message, loop, expired, request>>

ChildExits ==
  /\ child = "running" /\ at > Len(script.steps)
  /\ child' = "exited"
  /\ UNCHANGED <<script, patient, at, orphan, pipes, threads, message, loop, expired, request>>

OrphanExits ==
  /\ orphan
  /\ orphan' = FALSE
  /\ UNCHANGED <<script, patient, child, at, pipes, threads, message, loop, expired, request>>

Held == child = "running" \/ orphan   \* somebody holds the child's pipe ends

-----------------------------------------------------------------------------
(* The three threads.                                                        *)
\* write_all blocks on a full pipe and fails when no reader is left; either way
\* stdin is closed at the end.
WriteRequest ==
  /\ writer = "writing"
  /\ \/ sent < Request /\ Held /\ stdin < Capacity
        /\ stdin' = stdin + 1 /\ sent' = sent + 1 /\ UNCHANGED writer
     \/ (sent = Request \/ ~Held)
        /\ writer' = "done" /\ UNCHANGED <<stdin, sent>>
  /\ UNCHANGED <<plugin, stdout, stderr, reader, got, listener, heard, message, loop, expired,
                 request>>

Say(text) == message' = text /\ reader' = "draining"

\* Mutant: the frame is complete one piece early.
FrameOneShort(n) ==
  IF script.frame = Over THEN Say("limit")
  ELSE IF n >= script.frame - 1 THEN Say("frame") ELSE UNCHANGED <<message, reader>>

\* What read_frame makes of its n-th piece.
FrameAfter(n) ==
  IF script.frame = Over THEN Say("limit")
  ELSE IF n = script.frame THEN Say("frame") ELSE UNCHANGED <<message, reader>>

ReadFrame ==
  /\ reader = "framing"
  /\ \/ /\ stdout > 0
        /\ stdout' = stdout - 1 /\ got' = got + 1
        /\ FrameAfter(got + 1)
     \/ /\ stdout = 0 /\ ~Held
        /\ Say("cut") /\ UNCHANGED <<stdout, got>>
  /\ UNCHANGED <<plugin, stdin, stderr, writer, sent, listener, heard, loop, expired, request>>

DrainToEof ==
  /\ reader = "draining"
  /\ \/ stdout > 0 /\ stdout' = stdout - 1 /\ UNCHANGED reader
     \/ stdout = 0 /\ ~Held /\ reader' = "done" /\ UNCHANGED stdout
  /\ UNCHANGED <<plugin, stdin, stderr, writer, sent, got, listener, heard, message, loop, expired,
                 request>>

\* Mutant: stderr is read until the kept prefix is full, and no further.
ReadPrefix ==
  /\ listener = "reading"
  /\ \/ stderr > 0 /\ stderr' = stderr - 1 /\ heard' = 1 /\ listener' = "done"
     \/ stderr = 0 /\ ~Held /\ listener' = "done" /\ UNCHANGED <<stderr, heard>>
  /\ UNCHANGED <<plugin, stdin, stdout, writer, sent, reader, got, message, loop, expired, request>>

\* heard is whether the kept prefix holds anything.
ReadStderr ==
  /\ listener = "reading"
  /\ \/ stderr > 0 /\ stderr' = stderr - 1 /\ heard' = 1 /\ UNCHANGED listener
     \/ stderr = 0 /\ ~Held /\ listener' = "done" /\ UNCHANGED <<stderr, heard>>
  /\ UNCHANGED <<plugin, stdin, stdout, writer, sent, reader, got, message, loop, expired, request>>

-----------------------------------------------------------------------------
(* The polling loop.                                                         *)
Goto(place) == host' = place
KillAndReap == child' = "reaped" /\ UNCHANGED <<script, patient, at, orphan>>
Return(answer) == result' = answer /\ Goto("returned") /\ UNCHANGED refusal
Verdict == CASE message = "frame" -> "ok" [] message = "limit" -> "limit" [] OTHER -> "cut"

\* validate_operation, then check_input_length: refused before there is a child.
CheckRequest ==
  /\ host = "checking"
  /\ \/ asked = "fits" /\ Goto("spawning") /\ UNCHANGED <<refusal, result>>
     \/ asked = "misnamed" /\ Return("operation")
     \/ asked = "long" /\ Return("limit")
  /\ UNCHANGED <<plugin, pipes, threads, message, expired, request>>

\* Only a busy executable is tried again, and not for ever. The threads are
\* started with the child.
SpawnStaged ==
  /\ host = "spawning"
  /\ \/ /\ child' = "running" /\ writer' = "writing" /\ reader' = "framing"
        /\ listener' = "reading" /\ Goto("receiving")
        /\ UNCHANGED <<attempt, fault, refusal, result>>
     \/ /\ attempt < Attempts /\ attempt' = attempt + 1
        /\ UNCHANGED <<child, writer, reader, listener, loop, fault>>
     \/ /\ attempt = Attempts /\ fault' = "busy" /\ Return("io")
        /\ UNCHANGED <<child, writer, reader, listener, attempt>>
     \/ /\ fault' = "spawn" /\ Return("io")
        /\ UNCHANGED <<child, writer, reader, listener, attempt>>
  /\ UNCHANGED <<asked, script, patient, at, orphan, pipes, sent, got, heard, message, expired>>

TryRecv ==
  /\ host = "receiving"
  /\ \/ /\ message \in {"frame", "limit"}
        /\ KillAndReap /\ Return(Verdict) /\ message' = "none"
     \/ /\ message = "cut"
        /\ refusal' = TRUE /\ message' = "none" /\ Goto("waiting")
        /\ UNCHANGED <<plugin, result>>
     \/ /\ message = "none"
        /\ Goto("waiting") /\ UNCHANGED <<plugin, message, refusal, result>>
  /\ UNCHANGED <<pipes, threads, expired, request>>

TryWait ==
  /\ host = "waiting"
  /\ \/ child = "exited" /\ KillAndReap
        /\ Goto(IF script.code = 0 THEN "last" ELSE "stderr")
        /\ UNCHANGED <<refusal, result, fault>>
     \/ child = "running" /\ Goto("clock") /\ UNCHANGED <<plugin, refusal, result, fault>>
     \/ fault' = "wait" /\ Return("io") /\ UNCHANGED plugin
  /\ UNCHANGED <<pipes, threads, message, expired, asked, attempt>>

\* Mutants: the deadline returns without the kill; there is no deadline.
ReturnUnreaped ==
  /\ host = "clock"
  /\ \/ expired /\ Return("timeout")
     \/ ~expired /\ Goto("receiving") /\ UNCHANGED <<refusal, result>>
  /\ UNCHANGED <<plugin, pipes, threads, message, expired, request>>

CheckDeadline ==
  /\ host = "clock"
  /\ \/ expired /\ KillAndReap /\ Return("timeout")
     \/ ~expired /\ Goto("receiving") /\ UNCHANGED <<plugin, refusal, result>>
  /\ UNCHANGED <<pipes, threads, message, expired, request>>

\* A non-zero exit is reported with what stderr said, awaited no longer than
\* the deadline.
ReportExit ==
  /\ host = "stderr" /\ (listener = "done" \/ expired)
  /\ Return("process")
  /\ UNCHANGED <<plugin, pipes, threads, message, expired, request>>

\* After exit 0: the remembered refusal, or the reader's word until the deadline.
LastWord ==
  /\ host = "last"
  /\ \/ refusal /\ Return("cut") /\ UNCHANGED message
     \/ ~refusal /\ message # "none" /\ Return(Verdict) /\ message' = "none"
     \/ ~refusal /\ message = "none" /\ expired /\ Return("timeout") /\ UNCHANGED message
  /\ UNCHANGED <<plugin, pipes, threads, expired, request>>

\* The deadline is set once the child and the threads are there.
Expire ==
  /\ ~patient /\ ~expired /\ host \notin {"checking", "spawning", "returned"}
  /\ expired' = TRUE
  /\ UNCHANGED <<plugin, pipes, threads, message, loop, request>>

Child == ReadStdin \/ WriteStdout \/ WriteStderr \/ Fork \/ ChildExits
Host == CheckRequest \/ SpawnStaged \/ TryRecv \/ TryWait \/ CheckDeadline \/ ReportExit \/ LastWord
Next == \/ Child \/ OrphanExits \/ WriteRequest \/ ReadFrame \/ DrainToEof
        \/ ReadStderr \/ Host \/ Expire

(* The system runs the child and every thread of the host, and time passes;  *)
(* nothing makes a process the child left behind exit.                       *)
Spec == /\ Init /\ [][Next]_callVars
        /\ WF_callVars(Child) /\ WF_callVars(Host) /\ WF_callVars(Expire)
        /\ WF_callVars(WriteRequest) /\ WF_callVars(ReadStderr)
        /\ WF_callVars(ReadFrame \/ DrainToEof)

-----------------------------------------------------------------------------
Awaited == IF script.frame = Over THEN 1 ELSE script.frame  \* what the reader needs to speak
\* The pipes, the threads and the loop stay in their ranges.
CallTypeOK ==
  /\ asked \in {"fits", "misnamed", "long"} /\ attempt \in 1..Attempts
  /\ fault \in {"none", "busy", "spawn", "wait"}
  /\ script \in Scripts /\ patient \in BOOLEAN /\ orphan \in BOOLEAN
  /\ refusal \in BOOLEAN /\ expired \in BOOLEAN
  /\ child \in {"none", "running", "exited", "reaped"} /\ at \in 1..(Len(script.steps) + 1)
  /\ stdin \in 0..Capacity /\ stdout \in 0..Capacity /\ stderr \in 0..Capacity
  /\ writer \in {"unborn", "writing", "done"} /\ sent \in 0..Request
  /\ reader \in {"unborn", "framing", "draining", "done"}
  /\ got \in 0..Awaited
  /\ listener \in {"unborn", "reading", "done"} /\ heard \in {0, 1}
  /\ message \in {"none", "frame", "limit", "cut"}
  /\ host \in {"checking", "spawning", "receiving", "waiting", "clock", "stderr", "last",
               "returned"}
  /\ result \in {"none", "ok", "limit", "timeout", "process", "cut", "operation", "io"}

\* "No call leaves a process behind" (process.rs:293-294): whatever a call
\* returns, its child was never started or has been reaped, unless try_wait
\* itself failed: its `?` leaves without killing (process.rs:454).
NoProcessLeft == result # "none" => child \in {"none", "reaped"} \/ fault = "wait"

\* The same without the exception.
NoProcessEverLeft == result # "none" => child \in {"none", "reaped"}

\* Every answer is about what the child did: Ok carries a whole frame it wrote,
\* Limit a length it announced (or the request has), Timeout a deadline that
\* passed, Process a failing exit, and a cut frame an exit without one. An I/O
\* error is one: a busy executable is one only after the last attempt.
Wrote == Cardinality({i \in 1..(at - 1) : script.steps[i] = "out"})
AnswersAreHonest ==
  /\ result = "ok" => Answers(Wrote)
  /\ result = "limit" => asked = "long" \/ (script.frame = Over /\ Wrote > 0)
  /\ result = "timeout" => expired
  /\ result = "process" => at > Len(script.steps) /\ script.code # 0
  /\ result = "cut" => at > Len(script.steps) /\ script.code = 0 /\ ~Answers(Wrote)
  /\ result = "operation" => asked = "misnamed"
  /\ result = "io" => fault # "none" /\ (fault = "busy" => attempt = Attempts)

\* What a call returns when the deadline is far and the child ends by itself.
Due ==
  (IF script.code # 0 THEN {"process"} ELSE {}) \cup
  (CASE script.frame = Over /\ Count("out") > 0 -> {"limit"}
     [] Answers(Count("out")) -> {"ok"}
     [] script.code = 0 -> {"cut"}
     [] OTHER -> {})

\* "The pipes are not synchronization points" (process.rs:276-279): in whatever
\* order a child reads and writes, and however little a pipe holds, a child that
\* ends by itself gets its answer through without the deadline, unless a system
\* call of the host fails.
AnsweredWithoutDeadline ==
  patient /\ asked = "fits" /\ Count("linger") = 0 /\ Count("fork") = 0
    => <>(result \in Due \/ fault # "none")

\* A call with a deadline returns, whatever its child does or does not do.
CallEnds == ~patient => <>(result # "none")
\* Every call is answered, by the child's end or by the deadline's.
CallsAreAnswered == AnsweredWithoutDeadline /\ CallEnds

\* "The exit status is consulted only when no frame arrives" (process.rs:290):
\* a child that wrote its whole frame is not answered with its exit code.
FrameOutranksExit == result = "process" => ~Answers(Wrote)
=============================================================================
