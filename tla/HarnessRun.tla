----------------------------- MODULE HarnessRun -----------------------------
(***************************************************************************)
(* One run of a command-line harness: the run and send_command of an        *)
(* adapter (harness/claude.py, codex.py), and run_process and AsyncioProc   *)
(* of harness/process.py beneath, between the child process with its two    *)
(* pipes and the consumer of the event stream.                              *)
(*                                                                         *)
(* The generator spawns the child, reads stdout to its end under a time     *)
(* limit, waits for the exit status, and ends with one RunDone or one       *)
(* raised error.  Its finally kills, drains and reaps.  A task of its own   *)
(* drains stderr.  The child settles on its next act before it can perform  *)
(* it, and so may stand blocked on a full pipe; it may hang; and it may     *)
(* leave a helper process that keeps its pipes open.                        *)
(***************************************************************************)
EXTENDS Integers, Parsers

CONSTANTS
    OutCap,    \* lines the stdout pipe holds
    ErrCap,    \* writes the stderr pipe holds
    MaxOut,    \* bound: lines a child writes
    MaxErr     \* bound: writes of a child to stderr

ASSUME CapsAssumption == /\ OutCap \in Nat \ {0} /\ ErrCap \in Nat \ {0}
                         /\ MaxOut \in Nat /\ MaxErr \in Nat

VARIABLES
    \* the call
    provider,   \* whose adapter: "claude" or "codex"
    resume,     \* the session it is to resume (spec.resume_session_id), or "none"
    \* the child
    child,      \* is it running, exited, or killed?
    act,        \* what it does next
    exitCode,   \* its exit status
    held,       \* does a helper keep its pipes open?
    stdout,     \* the lines in the stdout pipe
    stderr,     \* how many writes are in the stderr pipe
    \* the parent
    gen,        \* where run_process stands
    armed,      \* is asyncio.timeout in force?
    drain,      \* the stderr drain task
    buffered,   \* writes in _stderr_buf
    session,    \* session_id: the one to be reported
    pending,    \* how many events of the line just read are still to be yielded
    outcome,    \* how the run ended, or is about to
    cancels,    \* how often the consumer's task was cancelled (at most twice)
    waitsEof,   \* does wait() also await the end of the pipes?  (by Python version)
    \* history
    wrote,      \* lines and stderr writes of the child; did it name a session?
    shown       \* events in the lines written, and events yielded

callVars == <<provider, resume>>
childVars == <<child, act, exitCode, held, stdout, stderr>>
vars == <<callVars, childVars, gen, armed, drain, buffered, session, pending,
          outcome, cancels, waitsEof, wrote, shown>>

Acts == {"think", "write", "stderr", "zero", "nonzero", "hang"}

\* The calls of an adapter: run, and send_command with a command that is among its
\* supported_commands, or is not.
Calls == {"run", "compact", "other"}

TypeOK ==
    /\ provider \in {"claude", "codex"} /\ resume \in {"none", "resumed"}
    /\ child \in {"none", "running", "exited", "killed"}
    /\ act \in Acts
    /\ exitCode \in {"none", "zero", "nonzero"}
    /\ held \in {"no", "yes", "released"}
    /\ stdout \in Seq(Lines(provider)) /\ Len(stdout) <= OutCap
    /\ stderr \in 0..ErrCap
    /\ gen \in Calls \cup {"reading", "yielded", "waiting", "collecting", "done",
                           "draining", "reaping", "stopping", "ended"}
    /\ armed \in BOOLEAN
    /\ drain \in {"none", "reading", "eof", "cancelled"}
    /\ buffered \in 0..MaxErr
    /\ session \in {"none", "resumed", "named"} /\ pending \in Nat
    /\ outcome \in {"none", "refused", "not started", "done", "timeout", "exit",
                    "overlong", "closed"}
    /\ cancels \in 0..2 /\ waitsEof \in BOOLEAN
    /\ wrote \in [out : 0..MaxOut, err : 0..MaxErr, named : BOOLEAN]
    /\ shown \in [written : Nat, yielded : Nat] /\ shown.yielded <= shown.written

\* A command is sent to a session there is.
Init ==
    /\ provider \in {"claude", "codex"}
    /\ resume \in {"none", "resumed"}
    /\ gen \in Calls /\ (gen # "run" => resume = "resumed")
    /\ child = "none" /\ act = "think" /\ exitCode = "none" /\ held = "no"
    /\ stdout = <<>> /\ stderr = 0
    /\ armed = FALSE
    /\ drain = "none" /\ buffered = 0
    /\ session = resume /\ pending = 0
    /\ outcome = "none" /\ cancels = 0
    /\ waitsEof \in BOOLEAN
    /\ wrote = [out |-> 0, err |-> 0, named |-> FALSE]
    /\ shown = [written |-> 0, yielded |-> 0]

-----------------------------------------------------------------------------
\* The child.

parentVars == <<callVars, gen, armed, drain, buffered, session, pending, outcome,
                cancels, waitsEof>>

Alive == child = "running"

Decide(a) ==
    /\ Alive /\ act = "think"
    /\ a = "write" => wrote.out < MaxOut
    /\ a = "stderr" => wrote.err < MaxErr
    /\ act' = a
    /\ UNCHANGED <<child, exitCode, held, stdout, stderr, parentVars, wrote, shown>>

WriteLine ==
    /\ Alive /\ act = "write" /\ Len(stdout) < OutCap
    /\ \E line \in Lines(provider) :
          /\ stdout' = Append(stdout, line)
          /\ wrote' = [wrote EXCEPT !.out = @ + 1, !.named = @ \/ Names(provider, line)]
          /\ shown' = [shown EXCEPT !.written = @ + Events(provider, line)]
    /\ act' = "think"
    /\ UNCHANGED <<child, exitCode, held, stderr, parentVars>>

WriteStderr ==
    /\ Alive /\ act = "stderr" /\ stderr < ErrCap
    /\ stderr' = stderr + 1
    /\ wrote' = [wrote EXCEPT !.err = @ + 1]
    /\ act' = "think"
    /\ UNCHANGED <<child, exitCode, held, stdout, parentVars, shown>>

Exit ==
    /\ Alive /\ act \in {"zero", "nonzero"}
    /\ child' = "exited"
    /\ exitCode' = act
    /\ UNCHANGED <<act, held, stdout, stderr, parentVars, wrote, shown>>

\* The child starts a helper that inherits its pipes, and the helper ends.
StartHelper ==
    /\ Alive /\ held = "no"
    /\ held' = "yes"
    /\ UNCHANGED <<child, act, exitCode, stdout, stderr, parentVars, wrote, shown>>

EndHelper ==
    /\ held = "yes"
    /\ held' = "released"
    /\ UNCHANGED <<child, act, exitCode, stdout, stderr, parentVars, wrote, shown>>

\* The far ends of the pipes are closed.
Closed == ~Alive /\ held # "yes"

-----------------------------------------------------------------------------
\* The stderr drain.

\* What a read leaves in the pipe.
LeftUnread == stderr
LeftAfterRead == 0

\* May the drain run?  It is a task of its own, started with the process.
DrainRunsLate == gen = "collecting"
DrainRuns == drain = "reading"

DrainStderr ==
    /\ DrainRuns /\ stderr > 0
    /\ buffered' = buffered + stderr
    /\ stderr' = LeftAfterRead
    /\ UNCHANGED <<callVars, child, act, exitCode, held, stdout, gen, armed, drain,
                   session, pending, outcome, cancels, waitsEof, wrote, shown>>

DrainEof ==
    /\ drain = "reading" /\ stderr = 0 /\ Closed
    /\ drain' = "eof"
    /\ UNCHANGED <<callVars, childVars, gen, armed, buffered, session, pending,
                   outcome, cancels, waitsEof, wrote, shown>>

-----------------------------------------------------------------------------
\* The adapter, and run_process.

\* supported_commands of the two adapters.
SupportedCommands == [claude |-> {"compact"}, codex |-> {}]
Supported == gen = "run" \/ gen \in SupportedCommands[provider]

Spawn ==
    /\ gen \in Calls /\ Supported
    /\ child' = "running"
    /\ drain' = "reading"
    /\ gen' = "reading" /\ armed' = TRUE
    /\ UNCHANGED <<callVars, act, exitCode, held, stdout, stderr, buffered, session,
                   pending, outcome, cancels, waitsEof, wrote, shown>>

\* A command that is not supported is refused; an executable that is not there
\* makes spawn raise.  Neither reaches the finally: there is no child.
NotStarted ==
    /\ gen \in Calls
    /\ outcome' = IF Supported THEN "not started" ELSE "refused"
    /\ gen' = "ended"
    /\ UNCHANGED <<callVars, childVars, armed, drain, buffered, session, pending,
                   cancels, waitsEof, wrote, shown>>

\* The finally is reached with the outcome o.  kill() up to its first await: a
\* child already seen to have exited has nothing left to kill, drain or reap.
KillForgotten(o, seen) ==
    /\ outcome' = o /\ armed' = FALSE
    /\ gen' = IF seen THEN "stopping" ELSE "draining"
    /\ UNCHANGED child

Finally(o, seen) ==
    /\ outcome' = o /\ armed' = FALSE
    /\ gen' = IF seen THEN "stopping" ELSE "draining"
    /\ child' = IF Alive THEN "killed" ELSE child

\* returncode is set when the event loop hears of the exit, and not before.
MaySee == {FALSE} \cup {s \in {TRUE} : child = "exited"}

\* Yield the next of n events, if there is one, and otherwise read on.
YieldNext(n) ==
    IF n > 0 THEN /\ gen' = "yielded" /\ pending' = n - 1
                  /\ shown' = [shown EXCEPT !.yielded = @ + 1]
             ELSE gen' = "reading" /\ pending' = 0 /\ UNCHANGED shown

ReadLine ==
    /\ gen = "reading" /\ stdout # <<>> /\ Head(stdout) # Overlong
    /\ stdout' = Tail(stdout)
    /\ session' = IF Names(provider, Head(stdout)) THEN "named" ELSE session
    /\ YieldNext(Events(provider, Head(stdout)))
    /\ UNCHANGED <<callVars, child, act, exitCode, held, stderr, armed, drain, buffered,
                   outcome, cancels, waitsEof, wrote>>

\* readline raises on a line beyond the limit.
ReadOverlong ==
    /\ gen = "reading" /\ stdout # <<>> /\ Head(stdout) = Overlong
    /\ stdout' = Tail(stdout)
    /\ \E seen \in MaySee : Finally("overlong", seen)
    /\ UNCHANGED <<callVars, act, exitCode, held, stderr, drain, buffered, session,
                   pending, cancels, waitsEof, wrote, shown>>

AtEndByExit == ~Alive
AtEnd == stdout = <<>> /\ Closed

ReadEof ==
    /\ gen = "reading" /\ AtEnd
    /\ gen' = "waiting"
    /\ UNCHANGED <<callVars, childVars, armed, drain, buffered, session, pending,
                   outcome, cancels, waitsEof, wrote, shown>>

\* wait() returns.
Waited == ~Alive /\ (waitsEof => AtEnd /\ drain # "reading")

WaitExit ==
    /\ gen = "waiting" /\ Waited
    /\ armed' = FALSE
    /\ IF exitCode = "zero" THEN gen' = "done" /\ outcome' = "done"
                            ELSE gen' = "collecting" /\ UNCHANGED outcome
    /\ UNCHANGED <<callVars, childVars, drain, buffered, session, pending, cancels,
                   waitsEof, wrote, shown>>

\* stderr_text(), then the typed error its text calls for.
CollectedEarly == TRUE
Collected == drain # "reading"

RaiseExit ==
    /\ gen = "collecting" /\ Collected
    /\ Finally("exit", TRUE)
    /\ UNCHANGED <<callVars, act, exitCode, held, stdout, stderr, drain, buffered,
                   session, pending, cancels, waitsEof, wrote, shown>>

\* The consumer asks for the next event.
Resume ==
    \/ /\ gen = "yielded"
       /\ YieldNext(pending)
       /\ UNCHANGED <<callVars, childVars, armed, drain, buffered, session, outcome,
                      cancels, waitsEof, wrote>>
    \/ /\ gen = "done"
       /\ Finally("done", TRUE)
       /\ UNCHANGED <<callVars, act, exitCode, held, stdout, stderr, drain, buffered,
                      session, pending, cancels, waitsEof, wrote, shown>>

\* The consumer closes the generator at a yield, of its own accord or because the
\* time limit cancelled the consumer's task there.  The adapter's finally closes
\* run_process with it.
Close ==
    /\ gen \in {"yielded", "done"}
    /\ IF gen = "done" THEN Finally("done", TRUE)
                       ELSE \E seen \in MaySee : Finally("closed", seen)
    /\ UNCHANGED <<callVars, act, exitCode, held, stdout, stderr, drain, buffered,
                   session, pending, cancels, waitsEof, wrote, shown>>

\* The time limit strikes at an await.
Timeout ==
    /\ armed /\ gen \in {"reading", "waiting"}
    /\ \E seen \in MaySee : Finally("timeout", seen)
    /\ UNCHANGED <<callVars, act, exitCode, held, stdout, stderr, drain, buffered,
                   session, pending, cancels, waitsEof, wrote, shown>>

\* The consumer's task is cancelled at an await of the generator.  Where the drain
\* task is awaited the cancellation goes to it and is swallowed; inside kill() it
\* cuts the clean-up short; while the child is being spawned there is none yet.
Cancel ==
    /\ cancels < 2
    /\ cancels' = cancels + 1
    /\ \/ /\ gen \in Calls /\ Supported
          /\ gen' = "ended" /\ outcome' = "closed"
          /\ UNCHANGED <<drain, armed, child>>
       \/ /\ gen \in {"reading", "waiting"}
          /\ \E seen \in MaySee : Finally("closed", seen)
          /\ UNCHANGED drain
       \/ /\ gen = "collecting" /\ drain = "reading"
          /\ drain' = "cancelled"
          /\ UNCHANGED <<gen, outcome, armed, child>>
       \/ /\ gen \in {"draining", "reaping"}
          /\ gen' = "ended" /\ outcome' = "closed"
          /\ UNCHANGED <<drain, armed, child>>
    /\ UNCHANGED <<callVars, act, exitCode, held, stdout, stderr, buffered, session,
                   pending, waitsEof, wrote, shown>>

\* kill(): read stdout to its end, reap, stop the drain.
DrainStdout ==
    /\ gen = "draining"
    /\ \/ /\ stdout # <<>>
          /\ stdout' = Tail(stdout)
          /\ UNCHANGED gen
       \/ /\ AtEnd
          /\ gen' = "reaping"
          /\ UNCHANGED stdout
    /\ UNCHANGED <<callVars, child, act, exitCode, held, stderr, armed, drain,
                   buffered, session, pending, outcome, cancels, waitsEof, wrote,
                   shown>>

Reap ==
    /\ gen = "reaping" /\ Waited
    /\ gen' = "stopping"
    /\ UNCHANGED <<callVars, childVars, armed, drain, buffered, session, pending,
                   outcome, cancels, waitsEof, wrote, shown>>

StopDrain ==
    /\ gen = "stopping"
    /\ drain' = IF drain = "reading" THEN "cancelled" ELSE drain
    /\ gen' = "ended"
    /\ UNCHANGED <<callVars, childVars, armed, buffered, session, pending, outcome,
                   cancels, waitsEof, wrote, shown>>

Ended == gen = "ended" /\ ~Alive /\ UNCHANGED vars

-----------------------------------------------------------------------------
ChildStep  == (\E a \in Acts \ {"think"} : Decide(a)) \/ WriteLine \/ WriteStderr
              \/ Exit
DrainStep  == DrainStderr \/ DrainEof
RunStep    == Spawn \/ NotStarted \/ ReadLine \/ ReadOverlong \/ ReadEof \/ WaitExit
              \/ RaiseExit \/ DrainStdout \/ Reap \/ StopDrain

Next ==
    \/ ChildStep \/ StartHelper \/ EndHelper
    \/ DrainStep \/ RunStep \/ Resume \/ Close \/ Timeout \/ Cancel
    \/ Ended

\* The child computes unless it chose to hang, the event loop runs what is ready,
\* and the consumer comes back.  The time limit is relied on only when the child
\* hangs or a helper holds the pipes.
Spec ==
    /\ Init /\ [][Next]_vars
    /\ WF_vars(ChildStep) /\ WF_vars(DrainStep) /\ WF_vars(RunStep)
    /\ WF_vars(Resume \/ Close)
    /\ WF_vars((act = "hang" \/ held = "yes") /\ Timeout)

-----------------------------------------------------------------------------
\* A run that ends with RunDone exited with status 0, and all that the lines of its
\* child hold was yielded before, whether a line holds none, one or several events:
\* nothing is left in the pipe or of a line.  It reports the session that its child
\* named, and the one it resumed if no line did.
DoneIsComplete ==
    outcome = "done" =>
        /\ exitCode = "zero"
        /\ shown.yielded = shown.written
        /\ session = IF wrote.named THEN "named" ELSE resume

\* No path leaves the generator with its child running, or, unless the clean-up
\* itself was cancelled, with the drain task at work (hardening C2).
NothingLeft ==
    gen = "ended" => ~Alive /\ (drain = "reading" => cancels > 0)

\* Re-login or retry is decided on all that the child wrote to stderr (unless the
\* wait for it was cancelled).
StderrWhole ==
    outcome = "exit" /\ cancels = 0 => buffered = wrote.err

\* Every run ends, provided helpers do: neither a full pipe nor a hanging child
\* keeps it, and the time limit is not needed to get past a full pipe (C1).
Ends == <>[](held # "yes") => <>(gen = "ended")
=============================================================================
