------------------------------- MODULE Reader -------------------------------
(***************************************************************************)
(* internal/reader/reader.go: FSReader under a deadline.                   *)
(*                                                                         *)
(* A collector run makes a sequence of calls to ReadFile, Glob and         *)
(* RunCommand, all with the context that Registry.Collect derived for it.  *)
(* A file read may hang in the kernel for ever, and a killed command may   *)
(* leave a child behind that keeps its output open; the calls must return  *)
(* all the same.                                                           *)
(*                                                                         *)
(* Abstractions.  Time is a counter.  A step of the exporter itself takes  *)
(* no time, so the clock stands still while one is enabled; a read, a      *)
(* command and the closing of its output take any time.  SIGKILL ends a    *)
(* process at once (a process in uninterruptible sleep is not modelled).   *)
(* os/exec is external: its Start, Wait, WaitDelay and context watcher are *)
(* modelled as RunCommand uses them.  ReadFile and Glob differ in the      *)
(* system call only and are one action.                                    *)
(***************************************************************************)
EXTENDS Integers, FiniteSets

CONSTANTS
  Callers,        \* collector runs of one scrape
  ScrapeTimeout,  \* -collector.scrape-timeout, 0 to disable it
  SourceTimeout,  \* -collector.source-timeout, 0 to disable it
  WaitDelay,      \* commandWaitDelay
  MaxCalls,       \* bound on the calls of one collector run
  MaxTime         \* bound on the clock

ASSUME ReaderAssumption ==
  /\ ScrapeTimeout \in Nat
  /\ SourceTimeout \in Nat
  /\ WaitDelay \in Nat
  /\ MaxCalls \in Nat
  /\ MaxTime \in Nat

VARIABLES
  now,      \* the clock; the scrape begins at 0
  done,     \* done[c]: the context of c is done
  pc,       \* pc[c]: between calls, or where in a call
  calls,    \* calls[c]: calls begun; the current one is the last
  worker,   \* worker[c][i]: the goroutine that reads for the i-th call
  ch,       \* ch[c][i]: whether its result is in the channel's buffer
  child,    \* child[c]: the process of the command c runs
  stdout,   \* stdout[c]: the pipe its output comes through
  timer     \* timer[c]: when WaitDelay has passed, or NoTimer

callVars == <<pc, calls>>
readVars == <<worker, ch>>
commandVars == <<child, stdout, timer>>
vars == <<now, done, callVars, readVars, commandVars>>

-----------------------------------------------------------------------------
CallIndex == 1..MaxCalls
NoTimer == -1

TypeOK ==
  /\ now \in 0..MaxTime
  /\ done \in [Callers -> BOOLEAN]
  /\ pc \in [Callers -> {"running", "select", "process", "output", "returned"}]
  /\ calls \in [Callers -> 0..MaxCalls]
  /\ worker \in [Callers -> [CallIndex -> {"none", "io", "send", "exited"}]]
  /\ ch \in [Callers -> [CallIndex -> {"empty", "full"}]]
  /\ child \in [Callers -> {"none", "alive", "exited"}]
  /\ stdout \in [Callers -> {"open", "closed"}]
  /\ timer \in [Callers -> Int]

Init ==
  /\ now = 0
  /\ done = [c \in Callers |-> FALSE]
  /\ pc = [c \in Callers |-> "running"]
  /\ calls = [c \in Callers |-> 0]
  /\ worker = [c \in Callers |-> [i \in CallIndex |-> "none"]]
  /\ ch = [c \in Callers |-> [i \in CallIndex |-> "empty"]]
  /\ child = [c \in Callers |-> "none"]
  /\ stdout = [c \in Callers |-> "closed"]
  /\ timer = [c \in Callers |-> NoTimer]

-----------------------------------------------------------------------------
(* The context: the scrape's timeout, with the source's nested in it.      *)

HasDeadline == ScrapeTimeout > 0 \/ SourceTimeout > 0

Deadline ==
  IF ScrapeTimeout = 0 \/ SourceTimeout \in 1..(ScrapeTimeout - 1) THEN SourceTimeout
  ELSE ScrapeTimeout

ContextExpires(c) ==
  /\ HasDeadline
  /\ now >= Deadline
  /\ ~done[c]
  /\ done' = [done EXCEPT ![c] = TRUE]
  /\ UNCHANGED <<now, callVars, readVars, commandVars>>

-----------------------------------------------------------------------------
Move(c, from, to) ==
  /\ pc[c] = from
  /\ pc' = [pc EXCEPT ![c] = to]

\* The next call of c, the one that `calls` counts once it has begun.
Turn(c) == calls[c] + 1

\* Mistake: a read that failed is tried again without end.
RetryForever(c) == calls' = [calls EXCEPT ![c] = Turn(c)]

BeginCall(c) ==
  /\ calls[c] < MaxCalls
  /\ calls' = [calls EXCEPT ![c] = Turn(c)]

\* Mistake: no ctx.Err() before the goroutine starts.
AlwaysAdmit(c) == TRUE

\* `if err := ctx.Err()` of ReadFile and Glob, and the same test in exec's Start.
Admit(c) == ~done[c]

\* The call fails at once; the collector may go on to its next one.
Refuse(c) ==
  /\ pc[c] = "running"
  /\ ~Admit(c)
  /\ BeginCall(c)
  /\ UNCHANGED <<now, done, pc, readVars, commandVars>>

\* The collector returns; the deferred cancel() ends the context.
Return(c) ==
  /\ Move(c, "running", "returned")
  /\ done' = [done EXCEPT ![c] = TRUE]
  /\ UNCHANGED <<now, calls, readVars, commandVars>>

-----------------------------------------------------------------------------
(* ReadFile and Glob.                                                      *)

BeginRead(c) ==
  /\ Move(c, "running", "select")
  /\ Admit(c)
  /\ BeginCall(c)
  /\ worker' = [worker EXCEPT ![c][Turn(c)] = "io"]
  /\ UNCHANGED <<now, done, ch, commandVars>>

\* The system call returns, if ever.
ReadCompletes(c, i) ==
  /\ worker[c][i] = "io"
  /\ worker' = [worker EXCEPT ![c][i] = "send"]
  /\ UNCHANGED <<now, done, callVars, ch, commandVars>>

\* Mistake: make(chan result), which only a caller in the select receives from.
CanSendUnbuffered(c, i) ==
  ch[c][i] = "empty" /\ pc[c] = "select" /\ calls[c] = i

\* make(chan result, 1): a send blocks while the buffer is full.
CanSend(c, i) == ch[c][i] = "empty"

Send(c, i) ==
  /\ worker[c][i] = "send"
  /\ CanSend(c, i)
  /\ worker' = [worker EXCEPT ![c][i] = "exited"]
  /\ ch' = [ch EXCEPT ![c][i] = "full"]
  /\ UNCHANGED <<now, done, callVars, commandVars>>

Receive(c) ==
  /\ Move(c, "select", "running")
  /\ ch[c][calls[c]] = "full"
  /\ ch' = [ch EXCEPT ![c][calls[c]] = "empty"]
  /\ UNCHANGED <<now, done, calls, worker, commandVars>>

\* Mistakes: the select without its ctx.Done() case; with a default case.
NeverAbandon(c) == FALSE
AlwaysAbandon(c) == TRUE

\* case <-ctx.Done().  When both cases are ready, select takes either.
CanAbandon(c) == done[c]

Abandon(c) ==
  /\ Move(c, "select", "running")
  /\ CanAbandon(c)
  /\ UNCHANGED <<now, done, calls, readVars, commandVars>>

-----------------------------------------------------------------------------
(* RunCommand: os/exec with CommandContext and WaitDelay.                  *)

StartCommand(c) ==
  /\ Move(c, "running", "process")
  /\ Admit(c)
  /\ BeginCall(c)
  /\ child' = [child EXCEPT ![c] = "alive"]
  /\ stdout' = [stdout EXCEPT ![c] = "open"]
  /\ timer' = [timer EXCEPT ![c] = NoTimer]
  /\ UNCHANGED <<now, done, readVars>>

\* A process ends; its output closes with it unless a child of its own has it.
Exits(c) ==
  /\ child[c] = "alive"
  /\ child' = [child EXCEPT ![c] = "exited"]
  /\ \E o \in {"open", "closed"} : stdout' = [stdout EXCEPT ![c] = o]

CommandExits(c) ==
  /\ Exits(c)
  /\ UNCHANGED <<now, done, callVars, readVars, timer>>

\* The context watcher kills the direct child and starts the WaitDelay timer.
Kill(c) ==
  /\ pc[c] = "process"
  /\ done[c]
  /\ Exits(c)
  /\ timer' = [timer EXCEPT ![c] = now + WaitDelay]
  /\ UNCHANGED <<now, done, callVars, readVars>>

\* Process.Wait returns.  Without the watcher's timer Wait starts its own.
ProcessWaited(c) ==
  /\ Move(c, "process", "output")
  /\ child[c] = "exited"
  /\ timer' = [timer EXCEPT ![c] = IF @ = NoTimer THEN now + WaitDelay ELSE @]
  /\ UNCHANGED <<now, done, calls, readVars, child, stdout>>

\* The last process that holds the pipe closes it, if ever.
OutputCloses(c) ==
  /\ child[c] = "exited"
  /\ stdout[c] = "open"
  /\ stdout' = [stdout EXCEPT ![c] = "closed"]
  /\ UNCHANGED <<now, done, callVars, readVars, child, timer>>

OutputRead(c) ==
  /\ Move(c, "output", "running")
  /\ stdout[c] = "closed"
  /\ UNCHANGED <<now, done, calls, readVars, commandVars>>

\* Mistake: cmd.WaitDelay not set.
NoWaitDelay(c) == FALSE

WaitDelayOver(c) == now >= timer[c]

\* exec closes its end of the pipe and reports ErrWaitDelay.
GiveUp(c) ==
  /\ Move(c, "output", "running")
  /\ WaitDelayOver(c)
  /\ stdout' = [stdout EXCEPT ![c] = "closed"]
  /\ UNCHANGED <<now, done, calls, readVars, child, timer>>

-----------------------------------------------------------------------------
\* What the exporter and the runtime do on their own, in no time.
Exporter(c) ==
  \/ ContextExpires(c)
  \/ Refuse(c)
  \/ Return(c)
  \/ BeginRead(c)
  \/ \E i \in CallIndex : Send(c, i)
  \/ Receive(c)
  \/ Abandon(c)
  \/ StartCommand(c)
  \/ Kill(c)
  \/ ProcessWaited(c)
  \/ OutputRead(c)
  \/ GiveUp(c)

\* What the kernel and the commands do, in any time or never.
Environment(c) ==
  \/ \E i \in CallIndex : ReadCompletes(c, i)
  \/ CommandExits(c)
  \/ OutputCloses(c)

\* An exporter step is due for c.
Due(c) ==
  \/ HasDeadline /\ now >= Deadline /\ ~done[c]
  \/ pc[c] = "running"
  \/ pc[c] = "select" /\ (ch[c][calls[c]] = "full" \/ CanAbandon(c))
  \/ pc[c] = "process" /\ (child[c] = "exited" \/ done[c])
  \/ pc[c] = "output" /\ (stdout[c] = "closed" \/ WaitDelayOver(c))
  \/ \E i \in CallIndex : worker[c][i] = "send" /\ CanSend(c, i)

Tick ==
  /\ now < MaxTime
  /\ \A c \in Callers : ~Due(c)
  /\ now' = now + 1
  /\ UNCHANGED <<done, callVars, readVars, commandVars>>

\* The scrape is over and its clock has run out.
Quiescent ==
  /\ now = MaxTime
  /\ \A c \in Callers : pc[c] = "returned"
  /\ UNCHANGED vars

Next ==
  \/ \E c \in Callers : Exporter(c) \/ Environment(c)
  \/ Tick
  \/ Quiescent

Spec == Init /\ [][Next]_vars

\* Go runs what can run and timers fire.  Nothing is assumed of Environment.
\* Each read goroutine has fairness of its own: the others may be hung.
Fairness ==
  /\ WF_vars(Tick)
  /\ \A c \in Callers :
       /\ WF_vars(Exporter(c))
       /\ \A i \in CallIndex : WF_vars(Send(c, i))

FairSpec == Spec /\ Fairness

-----------------------------------------------------------------------------
(* Properties.                                                             *)

LiveWorkers(c) == {i \in CallIndex : worker[c][i] \in {"io", "send"}}

\* A collector run leaves at most one read goroutine behind, however many
\* files it still tries after its deadline (reader.go:43, 66: the test of
\* ctx.Err() before the goroutine is started).
AtMostOneWorker ==
  \A c \in Callers : Cardinality(LiveWorkers(c)) <= 1

\* A goroutine left behind is the one of the last call that was admitted, and
\* nobody will wait for it: a read in progress belongs to the caller's current
\* call or to a context that is done (reader.go:57-62).
AbandonedOnlyAtDeadline ==
  \A c \in Callers : \A i \in LiveWorkers(c) :
    (pc[c] = "select" /\ calls[c] = i) \/ done[c]

\* Every collector run is over WaitDelay after its deadline at the latest,
\* whatever the files and commands do (reader.go:12-17, 57-62, 107-109;
\* collector.go:92-97, 108-113).
ReturnsInTime ==
  \A c \in Callers :
    HasDeadline /\ pc[c] # "returned" =>
      /\ ScrapeTimeout > 0 => now <= ScrapeTimeout + WaitDelay
      /\ SourceTimeout > 0 => now <= SourceTimeout + WaitDelay

\* Every collector run returns, although no read and no command ever has to
\* finish.
EveryRunReturns == HasDeadline => \A c \in Callers : <>(pc[c] = "returned")

\* A read goroutine whose read has returned exits, also when nobody receives
\* its result any more (reader.go:51, 74: the channels are buffered).
WorkersExit ==
  \A c \in Callers, i \in CallIndex :
    worker[c][i] = "send" ~> worker[c][i] = "exited"

\* What docs/design.md:66 says of -collector.source-timeout: an upper bound
\* for one collector source.
SourceTimeoutIsUpperBound ==
  \A c \in Callers :
    SourceTimeout > 0 /\ pc[c] # "returned" => now <= SourceTimeout
=============================================================================
