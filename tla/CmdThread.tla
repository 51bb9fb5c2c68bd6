----------------------------- MODULE CmdThread -----------------------------
(***************************************************************************)
(* The command queue of the Wi-Fi driver: callers that enqueue a command   *)
(* and may wait for its answer on a context in their own stack frame, the  *)
(* thread that executes the commands and answers under sctx_mutex, and the *)
(* opening and closing of the interface that start and stop this thread.   *)
(* A command stands for the call that made it and for its stack frame.     *)
(***************************************************************************)
EXTENDS Integers, SequencesExt

CONSTANTS
  Cmd,          \* the commands, one per call of a *_cmd function
  NoIO,         \* those with no_io, or SetChannelPlan
  MaxSessions,  \* bound: openings of the interface
  MaxIps        \* bound: changes between IPS and power-on

ASSUME CmdAssumption ==
  /\ NoIO \subseteq Cmd /\ Cmd \cap {"free", "thread", "no command"} = {}
  /\ {MaxSessions, MaxIps} \subseteq Nat

VARIABLES
  pc,        \* where the call of a command is
  mem,       \* its cmd_obj: "none", "live", "freed"
  ptr,       \* whether cmd_obj->sctx points to the caller's frame
  status,    \* sctx.status in that frame
  queue, sema,            \* cmd_queue and cmd_queue_sema
  mutex,                  \* the holder of sctx_mutex: "free", "thread" or a command
  th, held, res,          \* rtw_cmd_thread: where it is, pcmd and pcmd->res
  running,                \* cmdthd_running
  ctl,                    \* where the opening or closing of the interface is
  cannotRun, removed,     \* RTW_CANNOT_RUN and bSurpriseRemoved
  hwInit,                 \* hw_init_completed
  sessions, ips           \* bounded counters

calls == <<pc, mem, ptr, status>>
thread == <<th, held, res, running>>
device == <<ctl, cannotRun, removed, hwInit, sessions, ips>>
vars == <<calls, queue, sema, mutex, thread, device>>

None == "no command"

Init ==
  /\ pc = [c \in Cmd |-> "idle"] /\ mem = [c \in Cmd |-> "none"]
  /\ ptr = [c \in Cmd |-> FALSE] /\ status = [c \in Cmd |-> "none"]
  /\ queue = <<>> /\ sema = 0 /\ mutex = "free"
  /\ th = "off" /\ held = None /\ res = "none" /\ running = FALSE
  /\ ctl = "closed" /\ cannotRun = TRUE /\ removed = FALSE /\ hwInit = FALSE
  /\ sessions = 0 /\ ips = 0

\* rtw_cmd_filter: the command may be enqueued, or executed.
Filter(c) == running /\ (hwInit \/ c \in NoIO)

----------------------------------------------------------------------------
\* The callers.

Goto(c, label) == pc' = [pc EXCEPT ![c] = label]

\* A *_cmd function allocates its command, and prepares to wait or not.
Call(c, wait) ==
  /\ pc[c] = "idle"
  /\ mem' = [mem EXCEPT ![c] = "live"]
  /\ ptr' = [ptr EXCEPT ![c] = wait]
  /\ status' = [status EXCEPT ![c] = IF wait THEN "submitted" ELSE "none"]
  /\ Goto(c, "filter")
  /\ UNCHANGED <<queue, sema, mutex, thread, device>>

\* rtw_enqueue_cmd frees a command that the filter refuses.
Refused(c) ==
  /\ pc[c] = "filter" /\ ~Filter(c)
  /\ mem' = [mem EXCEPT ![c] = "freed"]
  /\ ptr' = [ptr EXCEPT ![c] = FALSE]
  /\ Goto(c, "returned")
  /\ UNCHANGED <<status, queue, sema, mutex, thread, device>>

Passed(c) ==
  /\ pc[c] = "filter" /\ Filter(c)
  /\ Goto(c, "insert")
  /\ UNCHANGED <<mem, ptr, status, queue, sema, mutex, thread, device>>

\* _rtw_enqueue_cmd: the insertion at the tail, under the queue's lock.
Insert(c) ==
  /\ pc[c] = "insert"
  /\ queue' = Append(queue, c)
  /\ Goto(c, "up")
  /\ UNCHANGED <<mem, ptr, status, sema, mutex, thread, device>>

\* Mutant: the thread is not woken when the queue was not empty.
UpWhenFirst(c) ==
  /\ pc[c] = "up"
  /\ sema' = IF Len(queue) <= 1 THEN sema + 1 ELSE sema
  /\ Goto(c, IF status[c] = "none" THEN "returned" ELSE "wait")
  /\ UNCHANGED <<mem, ptr, status, queue, mutex, thread, device>>

\* ... and the semaphore the thread sleeps on.  A caller that made a submit
\* context waits, the others return.
Up(c) ==
  /\ pc[c] = "up"
  /\ sema' = sema + 1
  /\ Goto(c, IF status[c] = "none" THEN "returned" ELSE "wait")
  /\ UNCHANGED <<mem, ptr, status, queue, mutex, thread, device>>

\* rtw_sctx_wait ends with the completion or, at any moment, with the timeout;
\* the waiter then takes sctx_mutex and looks whether it was answered.
LockWaiter(c) ==
  /\ pc[c] = "wait" /\ mutex = "free"
  /\ IF status[c] = "submitted" THEN mutex' = c /\ Goto(c, "clear")
                                ELSE mutex' = mutex /\ Goto(c, "returned")
  /\ UNCHANGED <<mem, ptr, status, queue, sema, thread, device>>

\* It was not: it takes its context out of the command.  Then it returns, and
\* its frame is gone.
Clear(c) ==
  /\ pc[c] = "clear"
  /\ ptr' = [ptr EXCEPT ![c] = FALSE]
  /\ mutex' = "free"
  /\ Goto(c, "returned")
  /\ UNCHANGED <<mem, status, queue, sema, thread, device>>

----------------------------------------------------------------------------
\* rtw_cmd_thread.

ThreadStarts ==
  /\ th = "created"
  /\ running' = TRUE /\ th' = "down"
  /\ UNCHANGED <<calls, queue, sema, mutex, held, res, device>>

\* Mutant: the thread does not wait for the semaphore.
DownAlways ==
  /\ th = "down"
  /\ sema' = sema - 1
  /\ th' = IF cannotRun THEN "exit" ELSE IF queue = <<>> THEN "down" ELSE "next"
  /\ UNCHANGED <<calls, queue, mutex, held, res, running, device>>

\* The thread sleeps until the semaphore is up; a thread that may run and finds
\* the queue empty sleeps again.
Down ==
  /\ th = "down" /\ sema > 0
  /\ sema' = sema - 1
  /\ th' = IF cannotRun THEN "exit" ELSE IF queue = <<>> THEN "down" ELSE "next"
  /\ UNCHANGED <<calls, queue, mutex, held, res, running, device>>

\* Label _next: stop, sleep, or take the first command.
NextStops ==
  /\ th = "next" /\ cannotRun
  /\ th' = "exit"
  /\ UNCHANGED <<calls, queue, sema, mutex, held, res, running, device>>

\* Mutant: the thread unlinks the whole list and takes its head.
NextTakesOneOfAll ==
  /\ th = "next" /\ ~cannotRun /\ queue # <<>>
  /\ held' = Head(queue) /\ queue' = <<>>
  /\ th' = "judge"
  /\ UNCHANGED <<calls, sema, mutex, res, running, device>>

NextTakes ==
  /\ th = "next" /\ ~cannotRun /\ queue # <<>>
  /\ held' = Head(queue) /\ queue' = Tail(queue)
  /\ th' = "judge"
  /\ UNCHANGED <<calls, sema, mutex, res, running, device>>

NextEmpty ==
  /\ th = "next" /\ ~cannotRun /\ queue = <<>>
  /\ th' = "down"
  /\ UNCHANGED <<calls, queue, sema, mutex, held, res, running, device>>

\* The handler runs, or the filter drops the command (H2C_DROPPED).
Execute ==
  /\ th = "judge"
  /\ res' \in IF Filter(held) THEN {"success", "error"} ELSE {"error"}
  /\ th' = "post"
  /\ UNCHANGED <<calls, queue, sema, mutex, held, running, device>>

\* Mutant: the thread answers without sctx_mutex.
LockThreadUnguarded ==
  /\ th = "post"
  /\ th' = IF ptr[held] THEN "answer" ELSE "free"
  /\ UNCHANGED <<calls, queue, sema, mutex, held, res, running, device>>

\* post_process, and the same section of the draining loop: under sctx_mutex
\* the thread looks for a context, ...
LockThread ==
  /\ th = "post" /\ mutex = "free"
  /\ IF ptr[held] THEN th' = "answer" /\ mutex' = "thread"
                  ELSE th' = "free" /\ mutex' = mutex
  /\ UNCHANGED <<calls, queue, sema, held, res, running, device>>

\* ... and rtw_sctx_done_err writes the status into the caller's frame, wakes
\* the caller and forgets the context.
Answer ==
  /\ th = "answer"
  /\ status' = [status EXCEPT ![held] = res]
  /\ ptr' = [ptr EXCEPT ![held] = FALSE]
  /\ mutex' = "free" /\ th' = "free"
  /\ UNCHANGED <<pc, mem, queue, sema, held, res, running, device>>

\* The command is freed, by its callback or by the loop.
Free ==
  /\ th = "free"
  /\ mem' = [mem EXCEPT ![held] = "freed"]
  /\ held' = None /\ res' = "none"
  /\ th' = IF running THEN "next" ELSE "drain"
  /\ UNCHANGED <<pc, ptr, status, queue, sema, mutex, running, device>>

\* The end of the thread: no enqueue is let through any more, ...
Exit ==
  /\ th = "exit"
  /\ running' = FALSE /\ th' = "drain"
  /\ UNCHANGED <<calls, queue, sema, mutex, held, res, device>>

\* Mutant: the draining loop takes a command and does not answer it.
DrainSilently ==
  /\ th = "drain"
  /\ IF queue = <<>> THEN th' = "wait stop" /\ UNCHANGED <<queue, held, res>>
     ELSE /\ held' = Head(queue) /\ queue' = Tail(queue) /\ res' = "drop"
          /\ th' = "free"
  /\ UNCHANGED <<calls, sema, mutex, running, device>>

\* ... the commands left in the queue are dropped one by one, and the thread
\* waits for kthread_stop.
Drain ==
  /\ th = "drain"
  /\ IF queue = <<>> THEN th' = "wait stop" /\ UNCHANGED <<queue, held, res>>
     ELSE /\ held' = Head(queue) /\ queue' = Tail(queue) /\ res' = "drop"
          /\ th' = "post"
  /\ UNCHANGED <<calls, sema, mutex, running, device>>

----------------------------------------------------------------------------
\* The interface.

\* _netdev_open: the flags are cleared and the hardware is initialised.
Open(ok) ==
  /\ ctl = "closed" /\ sessions < MaxSessions
  /\ sessions' = sessions + 1
  /\ cannotRun' = FALSE /\ removed' = FALSE
  /\ hwInit' = ok
  /\ ctl' = IF ok THEN "start" ELSE "closed"
  /\ UNCHANGED <<calls, queue, sema, mutex, thread, ips>>

\* rtw_start_drv_threads: kthread_run, then the wait for the thread to run.
StartThread ==
  /\ ctl = "start" /\ th' = "created" /\ ctl' = "starting"
  /\ UNCHANGED <<calls, queue, sema, mutex, held, res, running, cannotRun,
                 removed, hwInit, sessions, ips>>

Started ==
  /\ ctl = "starting" /\ th # "created" /\ ctl' = "open"
  /\ UNCHANGED <<calls, queue, sema, mutex, thread, cannotRun, removed, hwInit,
                 sessions, ips>>

\* rtw_ips_pwr_down and rtw_ips_pwr_up: the hardware goes and comes back
\* while the thread runs.
IpsPower ==
  /\ ctl = "open" /\ ~removed /\ ips < MaxIps
  /\ ips' = ips + 1 /\ hwInit' = ~hwInit
  /\ UNCHANGED <<calls, queue, sema, mutex, thread, ctl, cannotRun, removed, sessions>>

\* A transfer that fails: the device is taken for removed.
SurpriseRemoved ==
  /\ ctl = "open" /\ ~removed
  /\ removed' = TRUE /\ cannotRun' = TRUE
  /\ UNCHANGED <<calls, queue, sema, mutex, thread, ctl, hwInit, sessions, ips>>

\* rtw_dev_unload, up to rtw_stop_cmd_thread ...
SetStopped ==
  /\ ctl = "open"
  /\ cannotRun' = TRUE /\ ctl' = "stopping"
  /\ UNCHANGED <<calls, queue, sema, mutex, thread, removed, hwInit, sessions, ips>>

\* Mutant: the thread is stopped without waking it.
StopThreadAsleep ==
  /\ ctl = "stopping"
  /\ sema' = sema /\ ctl' = "joining"
  /\ UNCHANGED <<calls, queue, mutex, thread, cannotRun, removed, hwInit, sessions, ips>>

\* ... which raises the semaphore and waits in kthread_stop ...
StopThread ==
  /\ ctl = "stopping"
  /\ sema' = sema + 1 /\ ctl' = "joining"
  /\ UNCHANGED <<calls, queue, mutex, thread, cannotRun, removed, hwInit, sessions, ips>>

\* ... for rtw_thread_wait_stop, after which the hardware is switched off.
Stopped ==
  /\ ctl = "joining" /\ th = "wait stop"
  /\ th' = "off" /\ ctl' = "closed"
  /\ hwInit' = (hwInit /\ removed)
  /\ removed' = TRUE
  /\ UNCHANGED <<calls, queue, sema, mutex, held, res, running, cannotRun,
                 sessions, ips>>

----------------------------------------------------------------------------
CallerStep(c) ==
  \/ Refused(c) \/ Passed(c) \/ Insert(c) \/ Up(c)
  \/ LockWaiter(c) \/ Clear(c)

ThreadStep ==
  \/ ThreadStarts \/ Down \/ NextStops \/ NextTakes \/ NextEmpty \/ Execute
  \/ LockThread \/ Answer \/ Free \/ Exit \/ Drain

ControlStep == StartThread \/ Started \/ StopThread \/ Stopped

Next ==
  \/ \E c \in Cmd : CallerStep(c) \/ \E wait \in BOOLEAN : Call(c, wait)
  \/ ThreadStep \/ ControlStep
  \/ \E ok \in BOOLEAN : Open(ok)
  \/ IpsPower \/ SurpriseRemoved \/ SetStopped

Spec == Init /\ [][Next]_vars

\* The scheduler runs every thread that is not blocked, and a wait with a timeout
\* ends.
FairSpec ==
  /\ Spec /\ WF_vars(ThreadStep) /\ WF_vars(ControlStep)
  /\ \A c \in Cmd : WF_vars(CallerStep(c))

----------------------------------------------------------------------------
Has(q, c) == \E i \in 1..Len(q) : q[i] = c
InQueue(c) == Has(queue, c)
Callers == {"filter", "insert"}

TypeOK ==
  /\ pc \in [Cmd -> {"idle", "filter", "insert", "up", "wait", "clear",
                     "returned"}]
  /\ mem \in [Cmd -> {"none", "live", "freed"}]
  /\ ptr \in [Cmd -> BOOLEAN]
  /\ status \in [Cmd -> {"none", "submitted", "success", "error", "drop"}]
  /\ queue \in Seq(Cmd) /\ sema \in Nat /\ mutex \in Cmd \union {"free", "thread"}
  /\ th \in {"off", "created", "down", "next", "judge", "post", "answer",
             "free", "exit", "drain", "wait stop"}
  /\ held \in Cmd \union {None}
  /\ res \in {"none", "success", "error", "drop"}
  /\ {running, cannotRun, removed, hwInit} \subseteq BOOLEAN
  /\ ctl \in {"closed", "start", "starting", "open", "stopping", "joining"}
  /\ sessions \in Nat /\ ips \in Nat

\* The one owner of a command that is live.
OwnedOnce(c) ==
  /\ mem[c] = "live" <=> (pc[c] \in Callers \/ InQueue(c) \/ held = c)
  /\ ~(InQueue(c) /\ held = c)
  /\ pc[c] \in Callers => ~InQueue(c) /\ held # c

\* Every cmd_obj that was allocated and not freed has one owner, the caller
\* that has not enqueued it, the queue or the thread, and a freed one has none:
\* no command is lost, executed twice, freed twice or left behind by an early
\* return.
OneOwner == IsInjective(queue) /\ \A c \in Cmd : OwnedOnce(c)

\* A command whose context is still in it is one whose caller did not return,
\* also when it is left in the queue as the interface is closed, and
\* rtw_sctx_done_err writes only into the frame of a caller that still waits.
AnswerOnLiveFrame ==
  /\ \A c \in Cmd : ptr[c] => pc[c] \notin {"idle", "returned"}
  /\ th = "answer" => pc[held] \in {"up", "wait"}

\* The waiter whose wait timed out writes to a command that is not freed yet.
ClearOnLiveCmd == \A c \in Cmd : pc[c] = "clear" => mem[c] = "live"

\* While the thread sleeps with the semaphore down, every queued command has a
\* caller that is about to raise it.
NoLostWakeup ==
  (th = "down" /\ sema = 0) => (\A c \in Cmd : InQueue(c) => pc[c] = "up")

\* Closing the interface ends: the thread is woken, drains and is joined.
StopEnds == (ctl = "stopping") ~> (ctl = "closed")

----------------------------------------------------------------------------
\* The inductive invariant behind these properties.

\* A context is in the command from the call to its answer or the caller's
\* return, and then the command is not freed.
ContextOf(c) ==
  /\ ptr[c] <=> status[c] = "submitted" /\ pc[c] \notin {"idle", "returned"}
  /\ ptr[c] => mem[c] = "live"
  /\ pc[c] = "idle" => mem[c] = "none"

Context == \A c \in Cmd : ContextOf(c)

\* sctx_mutex is held by the thread that answers a context it saw, or by the
\* caller that is about to take its own out.
LockedBy(c) ==
  /\ pc[c] = "clear" <=> mutex = c
  /\ pc[c] = "clear" => ptr[c]

Locked ==
  /\ \A c \in Cmd : LockedBy(c)
  /\ mutex = "thread" <=> th = "answer"
  /\ th = "answer" => ptr[held]
  /\ th = "free" => ~ptr[held]

\* Where the thread holds a command, and where there is no thread.
Holding ==
  /\ held # None <=> th \in {"judge", "post", "answer", "free"}
  /\ ctl \in {"closed", "start"} => th = "off"

\* Also between two openings of the interface no wake-up is missing.
Awake ==
  (th \in {"down", "wait stop", "off", "created"} /\ sema = 0) =>
    (\A c \in Cmd : InQueue(c) => pc[c] = "up")

IInv == TypeOK /\ OneOwner /\ Context /\ Locked /\ Holding /\ Awake
=============================================================================
