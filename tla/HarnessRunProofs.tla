--------------------------- MODULE HarnessRunProofs ---------------------------
(***************************************************************************)
(* Theorems about one run of a tool, for pipes of any capacity and a child *)
(* that writes any number of lines.                                        *)
(*                                                                         *)
(* What the child wrote to stderr is in the pipe or in the buffer; what    *)
(* has to be shown besides is at which points of run_process the child is  *)
(* gone, and how the drain task may have come to its end there.  What it   *)
(* wrote to stdout is in the pipe, or of a line that is being yielded, or  *)
(* yielded.                                                                *)
(***************************************************************************)
EXTENDS HarnessRun, SequenceTheorems, FiniteSetTheorems, TLAPS

\* Where run_process may stand while its child runs.
WithChild == {"reading", "yielded", "waiting"}
Places == Calls \cup WithChild \cup
          {"collecting", "done", "draining", "reaping", "stopping", "ended"}

\* Nothing written to stderr is lost between the pipe and the buffer.
StderrAccounted ==
    /\ stderr \in Nat /\ buffered \in Nat
    /\ wrote \in [out : Nat, err : Nat, named : BOOLEAN]
    /\ buffered + stderr = wrote.err

\* There is no child and no drain before the spawn, and no child after the reading.
ChildPlaced ==
    /\ gen \in Places
    /\ gen \in Calls => child = "none" /\ drain = "none"
    /\ child = "running" => gen \in WithChild

\* The drain ends at the end of stderr, or is cancelled: by run_process at its very
\* end, or by a cancellation of the consumer.
DrainPlaced ==
    /\ cancels \in Nat
    /\ drain \in {"none", "reading", "eof", "cancelled"}
    /\ drain = "none" => gen \in Calls \cup {"ended"}
    /\ drain = "eof" => stderr = 0 /\ child # "running"
    /\ drain = "cancelled" => cancels > 0 \/ gen = "ended"
    /\ drain = "reading" /\ gen = "ended" => cancels > 0

\* A run that failed by its exit status has read stderr to its end.
ExitPlaced ==
    outcome = "exit" =>
        /\ gen \in {"stopping", "ended"}
        /\ cancels = 0 => drain = "eof"

RunInv == StderrAccounted /\ ChildPlaced /\ DrainPlaced /\ ExitPlaced

-----------------------------------------------------------------------------
\* Before the spawn there is nothing to account for.
LEMMA InitRun == Init => RunInv
BY CapsAssumption DEF Init, RunInv, StderrAccounted, ChildPlaced, DrainPlaced, ExitPlaced,
   Places, Calls, WithChild

\* What the child and its helper do.
LEMMA ChildKeeps ==
    ASSUME RunInv, ChildStep \/ StartHelper \/ EndHelper
    PROVE  RunInv'
<1> USE DEF RunInv
<1>1. ASSUME NEW a \in Acts, Decide(a) PROVE RunInv'
  BY <1>1 DEF Decide, parentVars, callVars, StderrAccounted, ChildPlaced, DrainPlaced,
     ExitPlaced
<1>2. CASE WriteLine
  <2>1. PICK named \in BOOLEAN : wrote' = [wrote EXCEPT !.out = @ + 1, !.named = named]
    <3>1. PICK line \in Lines(provider) :
             wrote' = [wrote EXCEPT !.out = @ + 1, !.named = @ \/ Names(provider, line)]
      BY <1>2 DEF WriteLine
    <3>2. (wrote.named \/ Names(provider, line)) \in BOOLEAN
      OBVIOUS
    <3> QED
      BY <3>1, <3>2
  <2>2. wrote' \in [out : Nat, err : Nat, named : BOOLEAN] /\ wrote'.err = wrote.err
    <3>1. wrote \in [out : Nat, err : Nat, named : BOOLEAN] /\ wrote.out + 1 \in Nat
      BY DEF StderrAccounted
    <3> QED
      BY <2>1, <3>1
  <2> QED
    BY <1>2, <2>2 DEF WriteLine, parentVars, callVars, StderrAccounted, ChildPlaced,
       DrainPlaced, ExitPlaced
<1>3. CASE WriteStderr
  <2>1. stderr' = stderr + 1 /\ wrote' = [wrote EXCEPT !.err = @ + 1] /\ child = "running"
    BY <1>3 DEF WriteStderr, Alive
  <2>2. StderrAccounted'
    BY <1>3, <2>1 DEF WriteStderr, parentVars, StderrAccounted
  <2> QED
    BY <1>3, <2>1, <2>2 DEF WriteStderr, parentVars, callVars, ChildPlaced, DrainPlaced,
       ExitPlaced
<1>4. CASE Exit
  BY <1>4 DEF Exit, parentVars, callVars, StderrAccounted, ChildPlaced, DrainPlaced,
     ExitPlaced, Alive
<1>5. CASE StartHelper \/ EndHelper
  BY <1>5 DEF StartHelper, EndHelper, parentVars, callVars, StderrAccounted, ChildPlaced,
     DrainPlaced, ExitPlaced
<1> QED
  BY <1>1, <1>2, <1>3, <1>4, <1>5 DEF ChildStep

\* What the drain task does.
LEMMA DrainKeeps ==
    ASSUME RunInv, DrainStep
    PROVE  RunInv'
<1> USE DEF RunInv
<1>1. CASE DrainStderr
  <2>1. StderrAccounted'
    BY <1>1 DEF DrainStderr, LeftAfterRead, StderrAccounted
  <2> QED
    BY <1>1, <2>1 DEF DrainStderr, DrainRuns, ChildPlaced, DrainPlaced, ExitPlaced
<1>2. CASE DrainEof
  BY <1>2 DEF DrainEof, Closed, Alive, childVars, StderrAccounted, ChildPlaced,
     DrainPlaced, ExitPlaced
<1> QED
  BY <1>1, <1>2 DEF DrainStep

-----------------------------------------------------------------------------
\* The finally of run_process is reached from a place where there may be a child.
LEMMA FinallyKeeps ==
    ASSUME RunInv, NEW o, NEW seen \in BOOLEAN, Finally(o, seen), gen \notin Calls \cup {"ended"},
           o = "exit" => gen' = "stopping" /\ (cancels' = 0 => drain = "eof"),
           cancels' \in Nat, cancels <= cancels',
           UNCHANGED <<stderr, drain, buffered, wrote>>
    PROVE  RunInv'
<1> USE DEF RunInv
<1>1. gen' \in {"stopping", "draining"} /\ child' # "running" /\ outcome' = o
  BY DEF Finally, Alive
<1>2. StderrAccounted'
  BY DEF StderrAccounted
<1>3. ChildPlaced'
  BY <1>1 DEF ChildPlaced, Places, Calls, WithChild
<1>4. DrainPlaced'
  BY <1>1, <1>3 DEF DrainPlaced, Calls
<1>5. ExitPlaced'
  BY <1>1 DEF ExitPlaced
<1> QED
  BY <1>2, <1>3, <1>4, <1>5

\* Seen or not, it is one of two.
LEMMA MaySeeBoolean == MaySee \subseteq BOOLEAN
BY DEF MaySee

\* What run_process does by itself.
LEMMA RunKeeps ==
    ASSUME RunInv, RunStep
    PROVE  RunInv'
<1> USE DEF RunInv
<1>1. CASE Spawn
  BY <1>1 DEF Spawn, StderrAccounted, ChildPlaced, DrainPlaced, ExitPlaced, Places,
     WithChild, Calls
<1>2. CASE NotStarted
  BY <1>2 DEF NotStarted, childVars, StderrAccounted, ChildPlaced, DrainPlaced, ExitPlaced,
     Places, WithChild, Calls
<1>3. CASE ReadLine
  <2>1. gen' \in {"reading", "yielded"} /\ gen = "reading"
    BY <1>3 DEF ReadLine, YieldNext
  <2> QED
    BY <1>3, <2>1 DEF ReadLine, StderrAccounted, ChildPlaced, DrainPlaced, ExitPlaced,
       Places, WithChild, Calls
<1>4. CASE ReadOverlong
  <2>1. PICK seen \in MaySee : Finally("overlong", seen)
    BY <1>4 DEF ReadOverlong
  <2>2. cancels \in Nat
    BY DEF DrainPlaced
  <2> QED
    BY <1>4, <2>1, <2>2, MaySeeBoolean, FinallyKeeps DEF ReadOverlong, Calls
<1>5. CASE ReadEof
  BY <1>5 DEF ReadEof, childVars, StderrAccounted, ChildPlaced, DrainPlaced, ExitPlaced,
     Places, WithChild, Calls
<1>6. CASE WaitExit
  <2>1. gen' \in {"done", "collecting"} /\ gen = "waiting" /\ child' # "running"
        /\ outcome' \in {outcome, "done"}
    BY <1>6 DEF WaitExit, Waited, Alive, childVars
  <2> QED
    BY <1>6, <2>1 DEF WaitExit, childVars, StderrAccounted, ChildPlaced, DrainPlaced,
       ExitPlaced, Places, WithChild, Calls
<1>7. CASE RaiseExit
  <2>1. cancels \in Nat /\ gen = "collecting" /\ (cancels' = 0 => drain = "eof")
    BY <1>7 DEF RaiseExit, Collected, DrainPlaced, Calls
  <2>2. PICK seen \in BOOLEAN : Finally("exit", seen)
    BY <1>7 DEF RaiseExit
  <2>3. gen' = "stopping"
    BY <1>7 DEF RaiseExit, Finally
  <2> QED
    BY <1>7, <2>1, <2>2, <2>3, FinallyKeeps DEF RaiseExit, Calls
<1>8. CASE DrainStdout \/ Reap
  <2>1. gen \in {"draining", "reaping"} /\ gen' \in {"draining", "reaping", "stopping"}
    BY <1>8 DEF DrainStdout, Reap
  <2> QED
    BY <1>8, <2>1 DEF DrainStdout, Reap, childVars, StderrAccounted, ChildPlaced, DrainPlaced,
       ExitPlaced, Places, WithChild, Calls
<1>9. CASE StopDrain
  BY <1>9 DEF StopDrain, childVars, StderrAccounted, ChildPlaced, DrainPlaced, ExitPlaced,
     Places, WithChild, Calls
<1> QED
  BY <1>1, <1>2, <1>3, <1>4, <1>5, <1>6, <1>7, <1>8, <1>9 DEF RunStep

\* What its consumer and the time limit do.
LEMMA ConsumerKeeps ==
    ASSUME RunInv, Resume \/ Close \/ Timeout \/ Cancel
    PROVE  RunInv'
<1> USE DEF RunInv
<1>1. cancels \in Nat
  BY DEF DrainPlaced
<1>2. CASE Resume
  <2>1. CASE gen = "yielded"
    <3>1. gen' \in {"reading", "yielded"} /\ UNCHANGED <<childVars, drain, buffered, outcome,
                                                        cancels, wrote>>
      BY <1>2, <2>1 DEF Resume, YieldNext
    <3> QED
      BY <2>1, <3>1 DEF childVars, StderrAccounted, ChildPlaced, DrainPlaced, ExitPlaced,
         Places, WithChild, Calls
  <2>2. CASE gen = "done"
    <3>1. PICK seen \in BOOLEAN : Finally("done", seen)
      BY <1>2, <2>2 DEF Resume
    <3> QED
      BY <1>1, <1>2, <2>2, <3>1, FinallyKeeps DEF Resume, Calls
  <2> QED
    BY <1>2, <2>1, <2>2 DEF Resume
<1>3. CASE Close
  <2>1. PICK o \in {"done", "closed"}, seen \in BOOLEAN : Finally(o, seen)
    BY <1>3, MaySeeBoolean DEF Close
  <2> QED
    BY <1>1, <1>3, <2>1, FinallyKeeps DEF Close, Calls
<1>4. CASE Timeout
  <2>1. PICK seen \in MaySee : Finally("timeout", seen)
    BY <1>4 DEF Timeout
  <2> QED
    BY <1>1, <1>4, <2>1, MaySeeBoolean, FinallyKeeps DEF Timeout, Calls
<1>5. CASE Cancel
  <2>1. cancels' = cancels + 1 /\ UNCHANGED <<stderr, buffered, wrote>>
    BY <1>5 DEF Cancel
  <2>2. CASE gen \in {"reading", "waiting"}
    <3>1. PICK seen \in MaySee : Finally("closed", seen) /\ UNCHANGED drain
      BY <1>5, <2>2 DEF Cancel, Calls
    <3> QED
      BY <1>1, <2>1, <2>2, <3>1, MaySeeBoolean, FinallyKeeps DEF Calls
  <2>3. CASE gen \notin {"reading", "waiting"}
    <3>1. \/ /\ gen \in Calls \cup {"draining", "reaping"} /\ gen' = "ended"
             /\ outcome' = "closed" /\ UNCHANGED <<drain, child>>
          \/ /\ gen = "collecting" /\ drain' = "cancelled"
             /\ UNCHANGED <<gen, outcome, child>>
      BY <1>5, <2>3 DEF Cancel
    <3> QED
      BY <1>1, <2>1, <3>1 DEF StderrAccounted, ChildPlaced, DrainPlaced, ExitPlaced, Places,
         WithChild, Calls
  <2> QED
    BY <2>2, <2>3
<1> QED
  BY <1>2, <1>3, <1>4, <1>5

\* Every step keeps the invariant.
LEMMA NextRun == RunInv /\ [Next]_vars => RunInv'
<1>1. ASSUME RunInv, UNCHANGED vars PROVE RunInv'
  BY <1>1 DEF vars, childVars, RunInv, StderrAccounted, ChildPlaced, DrainPlaced, ExitPlaced
<1> QED
  BY <1>1, ChildKeeps, DrainKeeps, RunKeeps, ConsumerKeeps DEF Next, Ended

\* The invariant of a run: see RunInv.
THEOREM RunIsInOrder == Spec => []RunInv
BY InitRun, NextRun, PTL DEF Spec

\* No path leaves the generator of run_process with its child running, or with the
\* drain task at work unless kill() itself was cancelled.
THEOREM NothingIsLeft == Spec => []NothingLeft
<1>1. RunInv => NothingLeft
  BY DEF RunInv, ChildPlaced, DrainPlaced, NothingLeft, Alive, WithChild
<1> QED
  BY <1>1, RunIsInOrder, PTL

\* The error a failed run raises is chosen (stderr_text) from all that the child wrote to
\* stderr, unless the wait for it was cancelled.
THEOREM StderrIsWhole == Spec => []StderrWhole
<1>1. RunInv => StderrWhole
  BY DEF RunInv, StderrAccounted, DrainPlaced, ExitPlaced, StderrWhole
<1> QED
  BY <1>1, RunIsInOrder, PTL

-----------------------------------------------------------------------------
(* What the child wrote to stdout: each event of it is yielded.            *)

\* s adds up the events of the lines in the pipe.
Adds(s, lines) ==
    /\ s \in [0..Len(lines) -> Nat] /\ s[0] = 0
    /\ \A i \in 1..Len(lines) : s[i] = s[i - 1] + Events(provider, lines[i])
    /\ \A i, j \in 0..Len(lines) : i <= j => s[i] <= s[j]

\* No event is lost, nor yielded twice, while run_process reads.
EventsAccounted ==
    gen \in Calls \cup WithChild =>
        /\ \E s : Adds(s, stdout)
                  /\ shown.written = shown.yielded + pending + s[Len(stdout)]
        /\ gen # "yielded" => pending = 0

\* A session that the child named is in a line still to be read, or known.
SessionAccounted ==
    gen \in Calls \cup WithChild =>
        /\ session \in {resume, "named"}
        /\ wrote.named <=> \/ session = "named"
                           \/ \E i \in 1..Len(stdout) : Names(provider, stdout[i])

\* The wait for the exit begins at the end of stdout, when no one can write to it.
WaitPlaced == gen = "waiting" => stdout = <<>> /\ child # "running"

\* RunDone is for a run that read everything.
DonePlaced ==
    /\ outcome = "done" => gen \in {"done", "stopping", "ended"} /\ DoneIsComplete
    /\ gen = "done" => outcome = "done"

\* What the child settled on is within its bounds.
ActPlaced ==
    /\ act = "write" => wrote.out < MaxOut
    /\ act = "stderr" => wrote.err < MaxErr

LinesInv ==
    TypeOK /\ EventsAccounted /\ SessionAccounted /\ WaitPlaced /\ DonePlaced /\ ActPlaced

-----------------------------------------------------------------------------
\* Parts are counted.
LEMMA CountIsNat ==
    ASSUME NEW parts, Len(parts) \in Nat, NEW types
    PROVE  Count(parts, types) \in Nat
<1>1. IsFiniteSet(1..Len(parts))
  BY FS_Interval
<1>2. IsFiniteSet({i \in 1..Len(parts) : parts[i] \in types})
  BY <1>1, FS_Subset
<1> QED
  BY <1>2, FS_CardinalityType DEF Count

\* A line holds some events (parse_line).
LEMMA EventsAreNat ==
    ASSUME NEW line \in Lines(provider)
    PROVE  Events(provider, line) \in Nat
<1>1. Len(line.parts) \in Nat
  BY DEF Lines, ClaudeLines, CodexLines, Noise, Overlong, Line
<1>2. ClaudeEvents(line) \in Nat
  BY <1>1, CountIsNat DEF ClaudeEvents
<1>3. \A item : CodexItemEvents(item) \in Nat
  BY DEF CodexItemEvents
<1>4. CodexEvents(line) \in Nat
  BY <1>3 DEF CodexEvents
<1> QED
  BY <1>2, <1>4 DEF Events

\* An empty pipe holds no event.
LEMMA NothingAdds ==
    /\ \E s : Adds(s, <<>>) /\ s[Len(<<>>)] = 0
    /\ \A s : Adds(s, <<>>) => s[Len(<<>>)] = 0
<1>1. Adds([i \in {0} |-> 0], <<>>)
  BY DEF Adds
<1> QED
  BY <1>1 DEF Adds

\* A line written adds its events.
LEMMA AppendAdds ==
    ASSUME NEW lines \in Seq(Lines(provider)), NEW line \in Lines(provider),
           NEW s, Adds(s, lines)
    PROVE  \E t : /\ Adds(t, Append(lines, line))
                  /\ t[Len(Append(lines, line))] = s[Len(lines)] + Events(provider, line)
<1> DEFINE n == Len(lines)
           e == Events(provider, line)
           more == Append(lines, line)
           t == [i \in 0..(n + 1) |-> IF i = n + 1 THEN s[n] + e ELSE s[i]]
<1>1. n \in Nat /\ e \in Nat
  BY LenProperties, EventsAreNat
<1>2. /\ Len(more) = n + 1 /\ more[n + 1] = line
      /\ \A i \in 1..n : more[i] = lines[i]
  BY AppendProperties
<1> HIDE DEF more
<1>3. s \in [0..n -> Nat] /\ s[0] = 0 /\ s[n] \in Nat
  BY <1>1 DEF Adds
<1>4. t \in [0..Len(more) -> Nat] /\ t[0] = 0
  BY <1>1, <1>2, <1>3
<1>5. ASSUME NEW i \in 1..Len(more) PROVE t[i] = t[i - 1] + Events(provider, more[i])
  <2>1. CASE i = n + 1
    <3>1. t[i] = s[n] + e /\ t[i - 1] = s[n]
      BY <1>1, <2>1
    <3> HIDE DEF t
    <3> QED
      BY <1>2, <2>1, <3>1
  <2>2. CASE i \in 1..n
    <3>1. t[i] = s[i] /\ t[i - 1] = s[i - 1]
      BY <1>1, <2>2
    <3>2. s[i] = s[i - 1] + Events(provider, lines[i])
      BY <2>2 DEF Adds
    <3> HIDE DEF t
    <3> QED
      BY <1>2, <2>2, <3>1, <3>2
  <2> QED
    BY <1>1, <1>2, <2>1, <2>2
<1>6. \A i, j \in 0..Len(more) : i <= j => t[i] <= t[j]
  <2>1. \A i \in 0..n : s[i] <= s[n] /\ s[i] \in Nat
    BY <1>1, <1>3 DEF Adds
  <2>2. \A i, j \in 0..n : i <= j => s[i] <= s[j]
    BY DEF Adds
  <2> HIDE DEF e
  <2> QED
    BY <1>1, <1>2, <1>3, <2>1, <2>2
<1>7. t[Len(more)] = s[n] + e
  BY <1>1, <1>2
<1>8. Adds(t, more)
  BY <1>4, <1>5, <1>6 DEF Adds
<1> HIDE DEF t
<1> QED
  BY <1>7, <1>8 DEF more

\* A line read takes its events.
LEMMA TailAdds ==
    ASSUME NEW lines \in Seq(Lines(provider)), lines # <<>>, NEW s, Adds(s, lines)
    PROVE  \E t : /\ Adds(t, Tail(lines))
                  /\ s[Len(lines)] = Events(provider, Head(lines)) + t[Len(Tail(lines))]
<1> DEFINE n == Len(lines)
           e == Events(provider, Head(lines))
           less == Tail(lines)
           t == [i \in 0..(n - 1) |-> s[i + 1] - e]
<1>1. /\ n \in Nat \ {0} /\ Head(lines) = lines[1] /\ Head(lines) \in Lines(provider)
      /\ Len(less) = n - 1 /\ \A i \in 1..(n - 1) : less[i] = lines[i + 1]
  BY HeadTailProperties, EmptySeq, LenProperties
<1>2. e \in Nat
  BY <1>1, EventsAreNat
<1>3. s[1] = e /\ s \in [0..n -> Nat] /\ \A i \in 1..n : e <= s[i]
  <2>1. /\ s \in [0..n -> Nat] /\ s[0] = 0
        /\ \A i \in 1..n : s[i] = s[i - 1] + Events(provider, lines[i])
        /\ \A i, j \in 0..n : i <= j => s[i] <= s[j]
    BY DEF Adds
  <2>2. 1 \in 1..n /\ 1 - 1 = 0
    BY <1>1
  <2>3. s[1] = s[0] + Events(provider, lines[1])
    BY <2>1, <2>2
  <2>4. s[1] = e
    BY <1>1, <1>2, <2>1, <2>3
  <2> HIDE DEF e
  <2> QED
    BY <1>1, <2>1, <2>4
<1> HIDE DEF e, less
<1>4. t \in [0..Len(less) -> Nat] /\ t[0] = 0
  BY <1>1, <1>2, <1>3
<1>5. \A i \in 1..Len(less) : t[i] = t[i - 1] + Events(provider, less[i])
  <2> SUFFICES ASSUME NEW i \in 1..(n - 1) PROVE t[i] = t[i - 1] + Events(provider, less[i])
    BY <1>1
  <2>1. s[i + 1] = s[i] + Events(provider, lines[i + 1])
    BY <1>1 DEF Adds
  <2>2. lines[i + 1] \in Lines(provider)
    BY <1>1, ElementOfSeq
  <2>3. Events(provider, lines[i + 1]) \in Nat
    BY <2>2, EventsAreNat
  <2>4. s[i] \in Nat /\ s[i + 1] \in Nat
    BY <1>1, <1>3
  <2>5. t[i] = s[i + 1] - e /\ t[i - 1] = s[i] - e /\ less[i] = lines[i + 1]
    BY <1>1
  <2> HIDE DEF t
  <2> QED
    BY <1>2, <2>1, <2>3, <2>4, <2>5
<1>6. \A i, j \in 0..Len(less) : i <= j => t[i] <= t[j]
  <2>1. \A i, j \in 0..n : i <= j => s[i] <= s[j]
    BY DEF Adds
  <2> QED
    BY <1>1, <1>2, <1>3, <2>1
<1>7. s[n] = e + t[Len(less)]
  BY <1>1, <1>2, <1>3
<1>8. Adds(t, less)
  BY <1>4, <1>5, <1>6 DEF Adds
<1> HIDE DEF t
<1> QED
  BY <1>7, <1>8 DEF e, less

\* The total is a number.
LEMMA TotalIsNat ==
    ASSUME NEW lines \in Seq(Lines(provider)), NEW s, Adds(s, lines)
    PROVE  s[Len(lines)] \in Nat
<1>1. Len(lines) \in Nat
  BY LenProperties
<1> QED
  BY <1>1 DEF Adds

-----------------------------------------------------------------------------
\* A call starts with nothing written and the session it resumes.
LEMMA InitLines == Init => LinesInv
<1> SUFFICES ASSUME Init PROVE LinesInv
  OBVIOUS
<1>1. stdout = <<>> /\ Len(stdout) = 0 /\ stdout \in Seq(Lines(provider))
  BY EmptySeq DEF Init
<1>2. TypeOK
  <2>1. shown \in [written : Nat, yielded : Nat] /\ shown.yielded <= shown.written
    BY DEF Init
  <2>2. wrote \in [out : 0..MaxOut, err : 0..MaxErr, named : BOOLEAN]
    BY CapsAssumption DEF Init
  <2>3. OutCap \in Nat /\ 0 \in 0..ErrCap /\ 0 \in 0..MaxErr
    BY CapsAssumption
  <2>4. /\ provider \in {"claude", "codex"} /\ resume \in {"none", "resumed"}
        /\ child \in {"none", "running", "exited", "killed"} /\ act \in Acts
        /\ exitCode \in {"none", "zero", "nonzero"} /\ held \in {"no", "yes", "released"}
        /\ gen \in Calls
        /\ armed \in BOOLEAN /\ drain \in {"none", "reading", "eof", "cancelled"}
        /\ session \in {"none", "resumed", "named"} /\ waitsEof \in BOOLEAN
        /\ outcome = "none" /\ stderr = 0 /\ buffered = 0 /\ pending = 0 /\ cancels = 0
    BY DEF Init, Acts
  <2> QED
    BY <1>1, <2>1, <2>2, <2>3, <2>4 DEF TypeOK
<1>3. EventsAccounted
  <2>1. shown.written = 0 /\ shown.yielded = 0 /\ pending = 0 /\ gen # "yielded"
    BY DEF Init, Calls
  <2> QED
    BY <1>1, <2>1, NothingAdds DEF EventsAccounted
<1>4. SessionAccounted /\ WaitPlaced /\ DonePlaced /\ ActPlaced
  BY <1>1 DEF Init, SessionAccounted, WaitPlaced, DonePlaced, ActPlaced, Calls
<1> QED
  BY <1>2, <1>3, <1>4 DEF LinesInv

\* A step that neither writes, reads nor yields keeps the account.
LEMMA AccountKept ==
    ASSUME EventsAccounted, SessionAccounted,
           UNCHANGED <<callVars, stdout, session, pending, shown>>,
           wrote'.named = wrote.named,
           gen' \in Calls \cup WithChild =>
               gen \in Calls \cup WithChild /\ (gen = "yielded" => gen' = "yielded")
    PROVE  EventsAccounted' /\ SessionAccounted'
<1>1. /\ provider' = provider /\ resume' = resume /\ stdout' = stdout /\ session' = session
      /\ pending' = pending /\ shown' = shown
  BY DEF callVars
<1>2. EventsAccounted'
  BY <1>1 DEF EventsAccounted, Adds
<1>3. SessionAccounted'
  BY <1>1 DEF SessionAccounted
<1> QED
  BY <1>2, <1>3

\* A line is written: its events are owed, and it may name the session.
LEMMA WriteAccounted ==
    ASSUME TypeOK, EventsAccounted, SessionAccounted, RunInv, WriteLine
    PROVE  EventsAccounted' /\ SessionAccounted'
<1>1. PICK line \in Lines(provider) :
         /\ stdout' = Append(stdout, line)
         /\ wrote' = [wrote EXCEPT !.out = @ + 1, !.named = @ \/ Names(provider, line)]
         /\ shown' = [shown EXCEPT !.written = @ + Events(provider, line)]
  BY DEF WriteLine
<1>2. /\ UNCHANGED <<provider, resume, gen, session, pending>> /\ gen \in WithChild
      /\ stdout \in Seq(Lines(provider))
  BY DEF WriteLine, Alive, parentVars, callVars, RunInv, ChildPlaced, TypeOK
<1>3. /\ Len(stdout) \in Nat /\ Len(stdout') = Len(stdout) + 1
      /\ stdout'[Len(stdout) + 1] = line /\ \A i \in 1..Len(stdout) : stdout'[i] = stdout[i]
  BY <1>1, <1>2, LenProperties, AppendProperties
<1>4. EventsAccounted'
  <2>1. PICK s : Adds(s, stdout) /\ shown.written = shown.yielded + pending + s[Len(stdout)]
    BY <1>2 DEF EventsAccounted
  <2>2. PICK t : Adds(t, stdout') /\ t[Len(stdout')] = s[Len(stdout)] + Events(provider, line)
    BY <1>1, <1>2, <2>1, AppendAdds
  <2>3. /\ shown.written \in Nat /\ shown.yielded \in Nat /\ pending \in Nat
        /\ s[Len(stdout)] \in Nat /\ Events(provider, line) \in Nat
    BY <1>2, <2>1, EventsAreNat, TotalIsNat DEF TypeOK
  <2>4. shown'.written = shown.written + Events(provider, line) /\ shown'.yielded = shown.yielded
    BY <1>1 DEF TypeOK
  <2>5. shown'.written = shown'.yielded + pending' + t[Len(stdout')]
    BY <1>2, <2>1, <2>2, <2>3, <2>4
  <2>6. Adds(t, stdout)' <=> Adds(t, stdout')
    BY <1>2 DEF Adds
  <2> QED
    BY <1>2, <2>2, <2>5, <2>6 DEF EventsAccounted
<1>5. SessionAccounted'
  <2>1. wrote'.named <=> wrote.named \/ Names(provider, line)
    BY <1>1 DEF TypeOK
  <2>2. wrote.named <=> session = "named" \/ \E i \in 1..Len(stdout) : Names(provider, stdout[i])
    BY <1>2 DEF SessionAccounted
  <2>3. (\E i \in 1..Len(stdout') : Names(provider, stdout'[i]))
           <=> \/ Names(provider, line)
               \/ \E i \in 1..Len(stdout) : Names(provider, stdout[i])
    BY <1>3
  <2> QED
    BY <1>2, <2>1, <2>2, <2>3 DEF SessionAccounted
<1> QED
  BY <1>4, <1>5

\* The next of n events is yielded, if there is one.
LEMMA YieldAccounted ==
    ASSUME NEW n \in Nat, YieldNext(n), shown \in [written : Nat, yielded : Nat]
    PROVE  /\ pending' \in Nat /\ gen' \in {"reading", "yielded"}
           /\ gen' # "yielded" => pending' = 0
           /\ shown' \in [written : Nat, yielded : Nat]
           /\ shown'.written = shown.written
           /\ shown'.yielded + pending' = shown.yielded + n
<1>1. CASE n > 0
  BY <1>1 DEF YieldNext
<1>2. CASE n = 0
  BY <1>2 DEF YieldNext
<1> QED
  BY <1>1, <1>2

\* A line is read: its events are yielded one by one.
LEMMA ReadAccounted ==
    ASSUME TypeOK, EventsAccounted, SessionAccounted, ReadLine
    PROVE  EventsAccounted' /\ SessionAccounted' /\ pending' \in Nat
           /\ shown' \in [written : Nat, yielded : Nat]
<1>1. /\ UNCHANGED <<provider, resume, wrote>> /\ gen = "reading" /\ stdout # <<>>
      /\ stdout' = Tail(stdout) /\ stdout \in Seq(Lines(provider))
      /\ session' = IF Names(provider, Head(stdout)) THEN "named" ELSE session
      /\ YieldNext(Events(provider, Head(stdout)))
      /\ shown \in [written : Nat, yielded : Nat]
  BY DEF ReadLine, callVars, TypeOK
<1>2. /\ Head(stdout) \in Lines(provider) /\ Head(stdout) = stdout[1] /\ Len(stdout) \in Nat \ {0}
      /\ Len(stdout') = Len(stdout) - 1
      /\ \A i \in 1..Len(stdout') : stdout'[i] = stdout[i + 1]
      /\ stdout' \in Seq(Lines(provider))
  BY <1>1, HeadTailProperties, EmptySeq
<1> DEFINE e == Events(provider, Head(stdout))
<1>3. e \in Nat
  BY <1>2, EventsAreNat
<1> HIDE DEF e
<1>4. /\ pending' \in Nat /\ gen' \in {"reading", "yielded"}
      /\ gen' # "yielded" => pending' = 0
      /\ shown' \in [written : Nat, yielded : Nat] /\ shown'.written = shown.written
      /\ shown'.yielded + pending' = shown.yielded + e
  <2>1. YieldNext(e)
    BY <1>1 DEF e
  <2> QED
    BY <1>1, <1>3, <2>1, YieldAccounted
<1>5. EventsAccounted'
  <2>1. pending = 0 /\ \E s : Adds(s, stdout)
                              /\ shown.written = shown.yielded + pending + s[Len(stdout)]
    BY <1>1 DEF EventsAccounted, WithChild
  <2>2. PICK s : Adds(s, stdout) /\ shown.written = shown.yielded + pending + s[Len(stdout)]
    BY <2>1
  <2>3. PICK t : Adds(t, stdout') /\ s[Len(stdout)] = e + t[Len(stdout')]
    BY <1>1, <2>2, TailAdds DEF e
  <2>4. t[Len(stdout')] \in Nat
    BY <1>2, <2>3, TotalIsNat
  <2>5. shown.written \in Nat /\ shown.yielded \in Nat /\ shown'.yielded \in Nat
    BY <1>1, <1>4
  <2>6. shown'.written = shown'.yielded + pending' + t[Len(stdout')]
    BY <1>3, <1>4, <2>1, <2>2, <2>3, <2>4, <2>5
  <2>7. Adds(t, stdout)' <=> Adds(t, stdout')
    BY <1>1 DEF Adds
  <2> QED
    BY <1>4, <2>3, <2>6, <2>7 DEF EventsAccounted
<1>6. SessionAccounted'
  <2>1. /\ session \in {resume, "named"}
        /\ wrote.named <=> session = "named" \/ \E i \in 1..Len(stdout) : Names(provider, stdout[i])
    BY <1>1 DEF SessionAccounted, WithChild
  <2>2. (\E i \in 1..Len(stdout) : Names(provider, stdout[i]))
           <=> \/ Names(provider, Head(stdout))
               \/ \E i \in 1..Len(stdout') : Names(provider, stdout'[i])
    <3>1. \A i \in 1..Len(stdout) : i = 1 \/ (i - 1 \in 1..Len(stdout') /\ (i - 1) + 1 = i)
      BY <1>2
    <3>2. \A i \in 1..Len(stdout') : i + 1 \in 1..Len(stdout)
      BY <1>2
    <3>3. 1 \in 1..Len(stdout)
      BY <1>2
    <3> QED
      BY <1>2, <3>1, <3>2, <3>3
  <2>3. session' \in {resume, "named"} /\ (session' = "named" <=> session = "named"
                                             \/ Names(provider, Head(stdout)))
    BY <1>1, <2>1
  <2> QED
    BY <1>1, <2>1, <2>2, <2>3 DEF SessionAccounted
<1> QED
  BY <1>4, <1>5, <1>6

\* The consumer asks for the next event.
LEMMA ResumeAccounted ==
    ASSUME TypeOK, EventsAccounted, SessionAccounted, Resume
    PROVE  EventsAccounted' /\ SessionAccounted' /\ pending' \in Nat
           /\ shown' \in [written : Nat, yielded : Nat]
<1>0. shown \in [written : Nat, yielded : Nat] /\ pending \in Nat
  BY DEF TypeOK
<1>1. CASE gen = "done"
  <2>1. gen' \in {"stopping", "draining"} /\ UNCHANGED <<pending, shown>>
    BY <1>1 DEF Resume, Finally
  <2> QED
    BY <1>0, <2>1 DEF EventsAccounted, SessionAccounted, WithChild, Calls
<1>2. CASE gen = "yielded"
  <2>1. /\ YieldNext(pending)
        /\ UNCHANGED <<provider, resume, stdout, session, wrote>>
    BY <1>2 DEF Resume, callVars, childVars
  <2>2. /\ pending' \in Nat /\ gen' \in {"reading", "yielded"}
        /\ gen' # "yielded" => pending' = 0
        /\ shown' \in [written : Nat, yielded : Nat] /\ shown'.written = shown.written
        /\ shown'.yielded + pending' = shown.yielded + pending
    BY <1>0, <2>1, YieldAccounted
  <2>3. EventsAccounted'
    <3>1. PICK s : Adds(s, stdout) /\ shown.written = shown.yielded + pending + s[Len(stdout)]
      BY <1>2 DEF EventsAccounted, WithChild
    <3>2. Adds(s, stdout)'
      BY <2>1, <3>1 DEF Adds
    <3>3. shown'.written = shown'.yielded + pending' + s[Len(stdout')]
      BY <2>1, <2>2, <3>1
    <3> QED
      BY <2>2, <3>2, <3>3 DEF EventsAccounted
  <2>4. SessionAccounted'
    BY <1>2, <2>1 DEF SessionAccounted, WithChild
  <2> QED
    BY <2>2, <2>3, <2>4
<1> QED
  BY <1>1, <1>2 DEF Resume

\* Every step keeps the account of what was written, read and yielded.
LEMMA NextAccounted ==
    ASSUME TypeOK, RunInv, EventsAccounted, SessionAccounted, [Next]_vars
    PROVE  EventsAccounted' /\ SessionAccounted'
<1> USE DEF callVars
<1>1. CASE UNCHANGED vars
  BY <1>1, AccountKept DEF vars, childVars
<1>2. ASSUME NEW a \in Acts, Decide(a) PROVE EventsAccounted' /\ SessionAccounted'
  BY <1>2, AccountKept DEF Decide, parentVars
<1>3. CASE Exit \/ StartHelper \/ EndHelper
  BY <1>3, AccountKept DEF Exit, StartHelper, EndHelper, parentVars
<1>4. CASE WriteStderr
  <2>1. wrote'.named = wrote.named
    BY <1>4 DEF WriteStderr, TypeOK
  <2> QED
    BY <1>4, <2>1, AccountKept DEF WriteStderr, parentVars
<1>5. CASE DrainStep
  BY <1>5, AccountKept DEF DrainStep, DrainStderr, DrainEof, childVars
<1>6. CASE Spawn \/ NotStarted \/ ReadEof \/ WaitExit
  <2>1. UNCHANGED <<callVars, stdout, session, pending, shown, wrote>>
    BY <1>6 DEF Spawn, NotStarted, ReadEof, WaitExit, childVars
  <2>2. gen' \in Calls \cup WithChild =>
            gen \in Calls \cup WithChild /\ (gen = "yielded" => gen' = "yielded")
    BY <1>6 DEF Spawn, NotStarted, ReadEof, WaitExit, Calls, WithChild
  <2> QED
    BY <2>1, <2>2, AccountKept
<1>7. CASE ReadOverlong \/ RaiseExit \/ DrainStdout \/ Reap \/ StopDrain \/ Close \/ Timeout
  <2>1. gen' \notin Calls \cup WithChild
    BY <1>7 DEF ReadOverlong, RaiseExit, DrainStdout, Reap, StopDrain, Close, Timeout, Finally,
       Calls, WithChild
  <2> QED
    BY <2>1 DEF EventsAccounted, SessionAccounted
<1>8. CASE Cancel
  <2>1. gen' \notin Calls \cup WithChild
    BY <1>8 DEF Cancel, Finally, Calls, WithChild
  <2> QED
    BY <2>1 DEF EventsAccounted, SessionAccounted
<1> QED
  BY <1>1, <1>2, <1>3, <1>4, <1>5, <1>6, <1>7, <1>8, WriteAccounted, ReadAccounted,
     ResumeAccounted DEF Next, ChildStep, RunStep, Ended

-----------------------------------------------------------------------------
\* A run that is done stays complete while nobody touches what it reported.
LEMMA DoneKept ==
    ASSUME DonePlaced, outcome' = "done" => outcome = "done",
           outcome = "done" => UNCHANGED <<resume, exitCode, shown, session, wrote>>,
           gen' = "done" => gen = "done" /\ outcome' = outcome,
           outcome' = "done" => gen' \in {"done", "stopping", "ended"}
    PROVE  DonePlaced'
BY DEF DonePlaced, DoneIsComplete

\* Where the parent is done its child is not running.
LEMMA DoneHasNoChild ==
    ASSUME DonePlaced, RunInv, outcome = "done" \/ gen = "done"
    PROVE  child # "running" /\ gen \in {"done", "stopping", "ended"} /\ outcome = "done"
BY DEF DonePlaced, RunInv, ChildPlaced, WithChild

\* RunDone follows a wait that began when everything was read.
LEMMA WaitCompletes ==
    ASSUME TypeOK, EventsAccounted, SessionAccounted, WaitPlaced, DonePlaced, WaitExit
    PROVE  DonePlaced'
<1>1. /\ gen = "waiting" /\ stdout = <<>> /\ UNCHANGED <<resume, exitCode, shown, session, wrote>>
  BY DEF WaitExit, WaitPlaced, callVars, childVars
<1>2. outcome # "done"
  BY <1>1 DEF DonePlaced
<1>3. CASE exitCode # "zero"
  <2>1. gen' = "collecting" /\ outcome' = outcome
    BY <1>3 DEF WaitExit
  <2> QED
    BY <1>2, <2>1 DEF DonePlaced
<1>4. CASE exitCode = "zero"
  <2>1. gen' = "done" /\ outcome' = "done"
    BY <1>4 DEF WaitExit
  <2>2. shown.yielded = shown.written
    <3>1. pending = 0 /\ \E s : Adds(s, <<>>)
                                /\ shown.written = shown.yielded + pending + s[Len(<<>>)]
      BY <1>1 DEF EventsAccounted, WithChild
    <3>2. shown.yielded \in Nat
      BY DEF TypeOK
    <3> QED
      BY <3>1, <3>2, NothingAdds
  <2>3. session = IF wrote.named THEN "named" ELSE resume
    <3>1. /\ session \in {resume, "named"}
          /\ wrote.named <=> session = "named" \/ \E i \in 1..Len(stdout) : Names(provider, stdout[i])
      BY <1>1 DEF SessionAccounted, WithChild
    <3>2. Len(stdout) = 0
      BY <1>1
    <3> QED
      BY <3>1, <3>2
  <2> QED
    BY <1>1, <1>4, <2>1, <2>2, <2>3 DEF DonePlaced, DoneIsComplete
<1> QED
  BY <1>3, <1>4

\* Every step keeps in place what is done.
LEMMA NextDone ==
    ASSUME LinesInv, RunInv, [Next]_vars
    PROVE  DonePlaced'
<1> USE DEF callVars
<1>0. DonePlaced /\ (outcome = "done" \/ gen = "done" => child # "running"
                        /\ gen \in {"done", "stopping", "ended"} /\ outcome = "done")
  BY DoneHasNoChild DEF LinesInv
<1>1. CASE UNCHANGED vars
  BY <1>0, <1>1, DoneKept DEF vars, childVars
<1>2. CASE ChildStep \/ StartHelper \/ EndHelper
  <2>1. UNCHANGED <<gen, outcome, resume, session>>
    BY <1>2 DEF ChildStep, Decide, WriteLine, WriteStderr, Exit, StartHelper, EndHelper,
       parentVars
  <2>2. child = "running" \/ UNCHANGED <<exitCode, shown, wrote>>
    BY <1>2 DEF ChildStep, Decide, WriteLine, WriteStderr, Exit, StartHelper, EndHelper, Alive
  <2> QED
    BY <1>0, <2>1, <2>2, DoneKept
<1>3. CASE DrainStep
  BY <1>0, <1>3, DoneKept DEF DrainStep, DrainStderr, DrainEof, childVars
<1>4. CASE WaitExit
  BY <1>4, WaitCompletes DEF LinesInv
<1>5. CASE Resume \/ Close
  <2>1. CASE gen = "done"
    <3>1. /\ outcome' = "done" /\ gen' = "stopping"
          /\ UNCHANGED <<resume, exitCode, shown, session, wrote>>
      BY <1>5, <2>1 DEF Resume, Close, Finally
    <3> QED
      BY <1>0, <2>1, <3>1, DoneKept
  <2>2. CASE gen # "done"
    <3>1. gen = "yielded" /\ outcome' \in {outcome, "closed"} /\ gen' # "done"
      BY <1>5, <2>2 DEF Resume, Close, YieldNext, Finally
    <3> QED
      BY <1>0, <3>1 DEF DonePlaced
  <2> QED
    BY <2>1, <2>2
<1>6. CASE StopDrain
  BY <1>0, <1>6, DoneKept DEF StopDrain, childVars
<1>7. CASE Spawn \/ NotStarted \/ ReadLine \/ ReadOverlong \/ ReadEof \/ RaiseExit \/ DrainStdout
           \/ Reap \/ Timeout
  <2>1. gen \notin {"done", "stopping", "ended"} /\ gen' # "done"
    BY <1>7 DEF Spawn, NotStarted, ReadLine, YieldNext, ReadOverlong, ReadEof, RaiseExit,
       DrainStdout, Reap, Timeout, Finally, Calls
  <2>2. outcome' = outcome \/ outcome' \in {"refused", "not started", "overlong", "exit", "timeout"}
    BY <1>7 DEF Spawn, NotStarted, ReadLine, ReadOverlong, ReadEof, RaiseExit, DrainStdout,
       Reap, Timeout, Finally
  <2> QED
    BY <1>0, <2>1, <2>2 DEF DonePlaced
<1>8. CASE Cancel
  <2>1. gen \notin {"done", "stopping", "ended"} /\ gen' # "done" /\ outcome' \in {outcome, "closed"}
    BY <1>8 DEF Cancel, Finally, Calls
  <2> QED
    BY <1>0, <2>1 DEF DonePlaced
<1> QED
  BY <1>1, <1>2, <1>3, <1>4, <1>5, <1>6, <1>7, <1>8 DEF Next, RunStep, Ended

\* Every step keeps the wait and the child's next act in place.
LEMMA NextPlaced ==
    ASSUME LinesInv, RunInv, [Next]_vars
    PROVE  WaitPlaced' /\ ActPlaced'
<1>0. /\ WaitPlaced /\ ActPlaced /\ TypeOK
      /\ child = "running" => gen \in WithChild
  BY DEF LinesInv, RunInv, ChildPlaced
<1>1. WaitPlaced'
  <2>1. CASE gen' # "waiting"
    BY <2>1 DEF WaitPlaced
  <2>2. CASE ReadEof
    BY <2>2 DEF ReadEof, AtEnd, Closed, Alive, childVars, WaitPlaced
  <2>3. CASE gen' = "waiting" /\ ~ReadEof
    <3>1. gen = "waiting" /\ (child' = "running" => child = "running")
          /\ (stdout' = stdout \/ child = "running")
      BY <2>3 DEF Next, vars, Ended, ChildStep, Decide, WriteLine, WriteStderr, Exit, StartHelper,
         EndHelper, parentVars, Alive, DrainStep, DrainStderr, DrainEof, childVars, RunStep,
         Spawn, NotStarted, ReadLine, YieldNext, ReadOverlong, WaitExit, RaiseExit, DrainStdout,
         Reap, StopDrain, Resume, Close, Timeout, Cancel, Finally, Calls
    <3> QED
      BY <1>0, <3>1 DEF WaitPlaced
  <2> QED
    BY <2>1, <2>2, <2>3
<1>2. ActPlaced'
  <2>1. ASSUME NEW a \in Acts, Decide(a) PROVE ActPlaced'
    BY <2>1 DEF Decide, ActPlaced
  <2>2. CASE WriteLine \/ WriteStderr
    BY <2>2 DEF WriteLine, WriteStderr, ActPlaced
  <2>3. CASE UNCHANGED <<act, wrote>>
    BY <1>0, <2>3 DEF ActPlaced
  <2>4. \/ UNCHANGED <<act, wrote>> \/ WriteLine \/ WriteStderr
        \/ \E a \in Acts : Decide(a)
    BY DEF Next, vars, Ended, ChildStep, Exit, StartHelper,
       EndHelper, parentVars, DrainStep, DrainStderr, DrainEof, childVars, RunStep,
       Spawn, NotStarted, ReadLine, ReadOverlong, ReadEof, WaitExit, RaiseExit, DrainStdout,
       Reap, StopDrain, Resume, Close, Timeout, Cancel
  <2> QED
    BY <2>1, <2>2, <2>3, <2>4
<1> QED
  BY <1>1, <1>2

-----------------------------------------------------------------------------
\* Types, in three parts: places, counts, and what is written and shown.
PlaceTypes ==
    /\ provider \in {"claude", "codex"} /\ resume \in {"none", "resumed"}
    /\ child \in {"none", "running", "exited", "killed"} /\ act \in Acts
    /\ exitCode \in {"none", "zero", "nonzero"} /\ held \in {"no", "yes", "released"}
    /\ gen \in Places /\ armed \in BOOLEAN /\ drain \in {"none", "reading", "eof", "cancelled"}
    /\ session \in {"none", "resumed", "named"} /\ waitsEof \in BOOLEAN
    /\ outcome \in {"none", "refused", "not started", "done", "timeout", "exit",
                    "overlong", "closed"}

CountTypes ==
    /\ stderr \in 0..ErrCap /\ buffered \in 0..MaxErr /\ cancels \in 0..2
    /\ wrote \in [out : 0..MaxOut, err : 0..MaxErr, named : BOOLEAN]

LineTypes ==
    /\ stdout \in Seq(Lines(provider)) /\ Len(stdout) <= OutCap /\ pending \in Nat
    /\ shown \in [written : Nat, yielded : Nat] /\ shown.yielded <= shown.written

\* The three parts are the types.
LEMMA TypeParts == TypeOK <=> PlaceTypes /\ CountTypes /\ LineTypes
<1>1. TypeOK => PlaceTypes /\ CountTypes /\ LineTypes
  BY DEF TypeOK, PlaceTypes, CountTypes, LineTypes, Places, WithChild
<1>2. PlaceTypes /\ CountTypes /\ LineTypes => TypeOK
  BY DEF TypeOK, PlaceTypes, CountTypes, LineTypes, Places, WithChild
<1> QED
  BY <1>1, <1>2

\* Every step goes from place to place.
LEMMA NextPlaces ==
    ASSUME TypeOK, RunInv', [Next]_vars
    PROVE  PlaceTypes'
<1>1. PlaceTypes
  BY TypeParts
<1>2. gen' \in Places /\ drain' \in {"none", "reading", "eof", "cancelled"}
  BY DEF RunInv, ChildPlaced, DrainPlaced
<1>3. /\ provider' = provider /\ resume' = resume /\ waitsEof' = waitsEof
  BY DEF Next, vars, Ended, ChildStep, Decide, WriteLine, WriteStderr, Exit, StartHelper,
     EndHelper, parentVars, callVars, DrainStep, DrainStderr, DrainEof, childVars, RunStep,
     Spawn, NotStarted, ReadLine, ReadOverlong, ReadEof, WaitExit, RaiseExit, DrainStdout,
     Reap, StopDrain, Resume, Close, Timeout, Cancel
<1>4. child' \in {child, "running", "exited", "killed"}
  BY DEF Next, vars, Ended, ChildStep, Decide, WriteLine, WriteStderr, Exit, StartHelper,
     EndHelper, parentVars, callVars, DrainStep, DrainStderr, DrainEof, childVars, RunStep,
     Spawn, NotStarted, ReadLine, ReadOverlong, ReadEof, WaitExit, RaiseExit, DrainStdout,
     Reap, StopDrain, Resume, Close, Timeout, Cancel, Finally
<1>5. act' \in Acts /\ exitCode' \in {exitCode, "zero", "nonzero"} /\ held' \in {held, "yes", "released"}
  BY <1>1 DEF Next, vars, Ended, ChildStep, Decide, WriteLine, WriteStderr, Exit, StartHelper,
     EndHelper, parentVars, callVars, DrainStep, DrainStderr, DrainEof, childVars, RunStep,
     Spawn, NotStarted, ReadLine, ReadOverlong, ReadEof, WaitExit, RaiseExit, DrainStdout,
     Reap, StopDrain, Resume, Close, Timeout, Cancel, PlaceTypes, Acts
<1>6. armed' \in BOOLEAN
  BY <1>1 DEF Next, vars, Ended, ChildStep, Decide, WriteLine, WriteStderr, Exit, StartHelper,
     EndHelper, parentVars, callVars, DrainStep, DrainStderr, DrainEof, childVars, RunStep,
     Spawn, NotStarted, ReadLine, ReadOverlong, ReadEof, WaitExit, RaiseExit, DrainStdout,
     Reap, StopDrain, Resume, Close, Timeout, Cancel, Finally, PlaceTypes
<1>7. session' \in {session, "named"}
  BY DEF Next, vars, Ended, ChildStep, Decide, WriteLine, WriteStderr, Exit, StartHelper,
     EndHelper, parentVars, callVars, DrainStep, DrainStderr, DrainEof, childVars, RunStep,
     Spawn, NotStarted, ReadLine, ReadOverlong, ReadEof, WaitExit, RaiseExit, DrainStdout,
     Reap, StopDrain, Resume, Close, Timeout, Cancel
<1>8. outcome' \in {outcome, "refused", "not started", "done", "timeout", "exit", "overlong",
                    "closed"}
  BY DEF Next, vars, Ended, ChildStep, Decide, WriteLine, WriteStderr, Exit, StartHelper,
     EndHelper, parentVars, callVars, DrainStep, DrainStderr, DrainEof, childVars, RunStep,
     Spawn, NotStarted, ReadLine, ReadOverlong, ReadEof, WaitExit, RaiseExit, DrainStdout,
     Reap, StopDrain, Resume, Close, Timeout, Cancel, Finally
<1> QED
  BY <1>1, <1>2, <1>3, <1>4, <1>5, <1>6, <1>7, <1>8 DEF PlaceTypes

\* Every step keeps within the bounds.
LEMMA NextCounts ==
    ASSUME LinesInv, RunInv', [Next]_vars
    PROVE  CountTypes'
<1>1. CountTypes /\ ActPlaced /\ ErrCap \in Nat /\ MaxErr \in Nat /\ MaxOut \in Nat
  BY TypeParts, CapsAssumption DEF LinesInv
<1>2. stderr' \in 0..ErrCap
  <2>1. \/ stderr' = stderr \/ (stderr < ErrCap /\ stderr' = stderr + 1) \/ stderr' = 0
    BY DEF Next, vars, Ended, ChildStep, Decide, WriteLine, WriteStderr, Exit, StartHelper,
       EndHelper, parentVars, callVars, DrainStep, DrainStderr, DrainEof, childVars, RunStep,
       Spawn, NotStarted, ReadLine, ReadOverlong, ReadEof, WaitExit, RaiseExit, DrainStdout,
       Reap, StopDrain, Resume, Close, Timeout, Cancel, LeftAfterRead
  <2> QED
    BY <1>1, <2>1 DEF CountTypes
<1>3. cancels' \in 0..2
  <2>1. cancels' = cancels \/ (cancels < 2 /\ cancels' = cancels + 1)
    BY DEF Next, vars, Ended, ChildStep, Decide, WriteLine, WriteStderr, Exit, StartHelper,
       EndHelper, parentVars, callVars, DrainStep, DrainStderr, DrainEof, childVars, RunStep,
       Spawn, NotStarted, ReadLine, ReadOverlong, ReadEof, WaitExit, RaiseExit, DrainStdout,
       Reap, StopDrain, Resume, Close, Timeout, Cancel
  <2> QED
    BY <1>1, <2>1 DEF CountTypes
<1>4. wrote' \in [out : 0..MaxOut, err : 0..MaxErr, named : BOOLEAN]
  <2>1. CASE WriteLine
    <3>1. PICK line \in Lines(provider) :
             wrote' = [wrote EXCEPT !.out = @ + 1, !.named = @ \/ Names(provider, line)]
      BY <2>1 DEF WriteLine
    <3>2. (wrote.named \/ Names(provider, line)) \in BOOLEAN
      OBVIOUS
    <3>3. wrote.out + 1 \in 0..MaxOut
      BY <1>1, <2>1 DEF WriteLine, ActPlaced, CountTypes
    <3> QED
      BY <1>1, <3>1, <3>2, <3>3 DEF CountTypes
  <2>2. CASE WriteStderr
    <3>1. wrote' = [wrote EXCEPT !.err = @ + 1] /\ wrote.err + 1 \in 0..MaxErr
      BY <1>1, <2>2 DEF WriteStderr, ActPlaced, CountTypes
    <3> QED
      BY <1>1, <3>1 DEF CountTypes
  <2>3. \/ wrote' = wrote \/ WriteLine \/ WriteStderr
    BY DEF Next, vars, Ended, ChildStep, Decide, Exit, StartHelper,
       EndHelper, parentVars, callVars, DrainStep, DrainStderr, DrainEof, childVars, RunStep,
       Spawn, NotStarted, ReadLine, ReadOverlong, ReadEof, WaitExit, RaiseExit, DrainStdout,
       Reap, StopDrain, Resume, Close, Timeout, Cancel
  <2> QED
    BY <1>1, <2>1, <2>2, <2>3 DEF CountTypes
<1>5. buffered' \in 0..MaxErr
  <2>1. /\ stderr' \in Nat /\ buffered' \in Nat /\ buffered' + stderr' = wrote'.err
        /\ wrote'.err \in 0..MaxErr
    BY <1>4 DEF RunInv, StderrAccounted
  <2> QED
    BY <1>1, <2>1
<1> QED
  BY <1>2, <1>3, <1>4, <1>5 DEF CountTypes

\* Every step keeps the pipe within its capacity, and yields nothing that was not written.
LEMMA NextLineTypes ==
    ASSUME LinesInv, RunInv, EventsAccounted', [Next]_vars
    PROVE  LineTypes'
<1>1. TypeOK /\ LineTypes /\ EventsAccounted /\ SessionAccounted /\ OutCap \in Nat
  BY TypeParts, CapsAssumption DEF LinesInv
<1>2. /\ stdout \in Seq(Lines(provider)) /\ Len(stdout) \in Nat
      /\ \A line \in Lines(provider) :
            /\ Append(stdout, line) \in Seq(Lines(provider))
            /\ Len(Append(stdout, line)) = Len(stdout) + 1
      /\ stdout # <<>> => /\ Tail(stdout) \in Seq(Lines(provider))
                          /\ Len(Tail(stdout)) = Len(stdout) - 1
  BY <1>1, LenProperties, AppendProperties, HeadTailProperties DEF LineTypes
<1>3. provider' = provider /\ \/ stdout' = stdout
                              \/ stdout # <<>> /\ stdout' = Tail(stdout)
                              \/ /\ Len(stdout) < OutCap
                                 /\ \E line \in Lines(provider) : stdout' = Append(stdout, line)
  BY DEF Next, vars, Ended, ChildStep, Decide, WriteLine, WriteStderr, Exit, StartHelper,
     EndHelper, parentVars, callVars, DrainStep, DrainStderr, DrainEof, childVars, RunStep,
     Spawn, NotStarted, ReadLine, ReadOverlong, ReadEof, WaitExit, RaiseExit, DrainStdout,
     Reap, StopDrain, Resume, Close, Timeout, Cancel
<1>4. stdout' \in Seq(Lines(provider))' /\ Len(stdout') <= OutCap
  BY <1>1, <1>2, <1>3 DEF LineTypes
<1>5. pending' \in Nat /\ shown' \in [written : Nat, yielded : Nat]
  <2>1. CASE ReadLine \/ Resume
    BY <1>1, <2>1, ReadAccounted, ResumeAccounted
  <2>2. CASE WriteLine
    <3>1. PICK line \in Lines(provider) :
             shown' = [shown EXCEPT !.written = @ + Events(provider, line)]
      BY <2>2 DEF WriteLine
    <3>2. Events(provider, line) \in Nat
      BY EventsAreNat
    <3>3. pending' = pending
      BY <2>2 DEF WriteLine, parentVars
    <3> QED
      BY <1>1, <3>1, <3>2, <3>3 DEF LineTypes
  <2>3. ReadLine \/ Resume \/ WriteLine \/ UNCHANGED <<pending, shown>>
    BY DEF Next, vars, Ended, ChildStep, Decide, WriteStderr, Exit, StartHelper,
       EndHelper, parentVars, callVars, DrainStep, DrainStderr, DrainEof, childVars, RunStep,
       Spawn, NotStarted, ReadOverlong, ReadEof, WaitExit, RaiseExit, DrainStdout,
       Reap, StopDrain, Close, Timeout, Cancel
  <2> QED
    BY <1>1, <2>1, <2>2, <2>3 DEF LineTypes
<1>6. shown'.yielded <= shown'.written
  <2>1. CASE shown' = shown
    BY <1>1, <2>1 DEF LineTypes
  <2>2. CASE gen' \in Calls \cup WithChild
    <3>1. PICK s : Adds(s, stdout)' /\ shown'.written = shown'.yielded + pending' + s[Len(stdout')]
      BY <2>2 DEF EventsAccounted
    <3>2. s[Len(stdout')] \in Nat
      <4>1. s \in [0..Len(stdout') -> Nat]
        BY <3>1 DEF Adds
      <4>2. Len(stdout') \in Nat
        BY <1>4, LenProperties
      <4> QED
        BY <4>1, <4>2
    <3> QED
      BY <1>5, <3>1, <3>2
  <2>3. shown' = shown \/ gen' \in Calls \cup WithChild
    <3>1. CASE ReadLine \/ Resume
      BY <3>1 DEF ReadLine, Resume, YieldNext, WithChild
    <3>2. CASE WriteLine
      BY <3>2 DEF WriteLine, Alive, parentVars, RunInv, ChildPlaced
    <3>3. ReadLine \/ Resume \/ WriteLine \/ shown' = shown
      BY DEF Next, vars, Ended, ChildStep, Decide, WriteStderr, Exit, StartHelper,
         EndHelper, parentVars, callVars, DrainStep, DrainStderr, DrainEof, childVars, RunStep,
         Spawn, NotStarted, ReadOverlong, ReadEof, WaitExit, RaiseExit, DrainStdout,
         Reap, StopDrain, Close, Timeout, Cancel
    <3> QED
      BY <3>1, <3>2, <3>3
  <2> QED
    BY <2>1, <2>2, <2>3
<1> QED
  BY <1>4, <1>5, <1>6 DEF LineTypes

\* Every step keeps the second invariant.
LEMMA NextLines == RunInv /\ LinesInv /\ [Next]_vars => LinesInv'
<1> SUFFICES ASSUME RunInv, LinesInv, [Next]_vars PROVE LinesInv'
  OBVIOUS
<1>1. TypeOK /\ EventsAccounted /\ SessionAccounted /\ RunInv'
  BY NextRun DEF LinesInv
<1>2. EventsAccounted' /\ SessionAccounted'
  BY <1>1, NextAccounted
<1>3. PlaceTypes' /\ CountTypes' /\ LineTypes'
  BY <1>1, <1>2, NextPlaces, NextCounts, NextLineTypes
<1>4. TypeOK'
  BY <1>3, TypeParts, PTL
<1> QED
  BY <1>2, <1>4, NextDone, NextPlaced DEF LinesInv

\* The second invariant of a run: see LinesInv.
THEOREM LinesAreInOrder == Spec => []LinesInv
BY InitLines, NextLines, RunIsInOrder, PTL DEF Spec

\* Types, the capacities of the pipes among them.
THEOREM HarnessTypeCorrect == Spec => []TypeOK
<1>1. LinesInv => TypeOK
  BY DEF LinesInv
<1> QED
  BY <1>1, LinesAreInOrder, PTL

\* A run that ends with RunDone yielded every event of every line its child wrote, and
\* reports the session that the child named.
THEOREM DoneMeansComplete == Spec => []DoneIsComplete
<1>1. LinesInv => DoneIsComplete
  BY DEF LinesInv, DonePlaced, DoneIsComplete
<1> QED
  BY <1>1, LinesAreInOrder, PTL
===============================================================================
