---------------------------- MODULE RecvReorder ----------------------------
(***************************************************************************)
(* The reordering of the frames a peer sends in A-MPDUs, for one peer and  *)
(* one TID: the receive path, which puts a frame into a sorted queue and   *)
(* hands up what is in order, the timer that gives up on a hole, the       *)
(* command thread that answers an ADDBA request and resets the window      *)
(* without the queue's lock, a BAR frame that moves the window, and the    *)
(* release of the peer's sta_info.                                         *)
(* A frame is a number that grows without end; the code sees its sequence  *)
(* number, the rest modulo 4096.                                           *)
(***************************************************************************)
EXTENDS Integers, Sequences

CONSTANTS
  Modulus,   \* the sequence numbers: 4096
  Window,    \* wsize_b: 64
  MaxFrame,  \* bound: the frames of a run are 0..MaxFrame
  Lag,       \* bound: how far a frame is ahead of all that arrived before
  Peer,      \* what the peer may do: "bar", send BARs; "delba", end an agreement
             \* (or have it ended by the driver); "early", send between the ADDBA
             \* response and the reset; "behind", start its window at a frame that
             \* was handed up already, since the acknowledgement was lost
  MaxAddba,  \* bound: ADDBA requests
  Smp        \* whether threads, tasklet and timer run on several cores

ASSUME ReorderAssumption ==
  /\ Modulus \in Nat \ {0} /\ Window \in 1..Modulus
  /\ MaxFrame \in Nat /\ Lag \in Nat /\ MaxAddba \in Nat
  /\ Peer \subseteq {"bar", "delba", "early", "behind"} /\ Smp \in BOOLEAN

VARIABLES
  iseq,     \* indicate_seq
  enable, waiting,   \* enable, bReorderWaiting
  queue,    \* pending_recvframe_queue
  armed, handler,    \* reordering_ctrl_timer: pending, its handler running
  rx, cur,  \* where the receive path is, and its frame
  seen,     \* rxcache.tid_rxseq
  cmd,      \* where add_ba_rsp_hdl is
  sta,      \* where rtw_free_stainfo is: "hashed" as long as it was not called
  cannotRun,  \* RTW_CANNOT_RUN
  low, top,   \* the peer: the first frame it may send (again), and the highest
              \* one that arrived
  addbas,
  last, again  \* history: the highest frame handed up, and whether one was
               \* handed up that was not higher than all before

ctrl == <<iseq, enable, waiting, queue>>
timer == <<armed, handler>>
peer == <<low, top, addbas>>
vars == <<ctrl, timer, rx, cur, seen, cmd, sta, cannotRun, peer, last, again>>

Unset == 65535

Init ==
  /\ iseq = Unset /\ enable = FALSE /\ waiting = FALSE /\ queue = <<>>
  /\ armed = FALSE /\ handler = FALSE
  /\ rx = "idle" /\ cur = 0 /\ seen = Unset /\ cmd = "idle" /\ sta = "hashed" /\ cannotRun = FALSE
  /\ low = 0 /\ top = 0 /\ addbas = 0 /\ last = -1 /\ again = FALSE

----------------------------------------------------------------------------
\* Sequence numbers.  0xFFFF is the greatest one in a difference, and equal to
\* none.

SN(f) == f % Modulus

SnLess(a, b) == (a - b) % Modulus >= Modulus \div 2

\* Mutant: the start of the window does not wrap.
CheckNoWrap(w, n) ==
  LET start == IF w = Unset THEN n ELSE w
      wend == (w + Window - 1) % Modulus
  IN IF SnLess(n, start) THEN [ok |-> FALSE, start |-> start]
     ELSE [ok |-> TRUE,
           start |-> IF n = start THEN start + 1
                     ELSE IF SnLess(wend, n) THEN (n + 1 - Window) % Modulus
                     ELSE start]

\* check_indicate_seq: whether the frame numbered n is not too old, and where
\* the window starts then.
Check(w, n) ==
  LET start == IF w = Unset THEN n ELSE w
      wend == (w + Window - 1) % Modulus
  IN IF SnLess(n, start) THEN [ok |-> FALSE, start |-> start]
     ELSE [ok |-> TRUE,
           start |-> IF n = start THEN (start + 1) % Modulus
                     ELSE IF SnLess(wend, n) THEN (n + 1 - Window) % Modulus
                     ELSE start]

\* Mutant: the frame goes to the tail.
BeforeTail(q, f) == Len(q)

\* enqueue_reorder_recvframe: how many frames of the queue go before f.
Before(q, f) ==
  CHOOSE k \in 0..Len(q) :
    /\ \A i \in 1..k : SnLess(SN(q[i]), SN(f))
    /\ k < Len(q) => ~SnLess(SN(q[k + 1]), SN(f))

\* Mutant: duplicates are not looked for.
NeverDuplicate(q, f) == FALSE

Duplicate(q, f) == LET k == Before(q, f) IN k < Len(q) /\ SN(q[k + 1]) = SN(f)

InsertAt(q, k, f) == SubSeq(q, 1, k) \o <<f>> \o SubSeq(q, k + 1, Len(q))

\* recv_indicatepkts_in_order: where the window that starts at w starts after the
\* first k frames of q, ...
Starts(q, w) ==
  LET s[k \in 0..Len(q)] ==
        IF k = 0 THEN w
        ELSE IF s[k - 1] = SN(q[k]) THEN (s[k - 1] + 1) % Modulus ELSE s[k - 1]
  IN s

\* ... and how many frames go up.
Ready(q, s) ==
  CHOOSE k \in 0..Len(q) :
    /\ \A i \in 1..k : ~SnLess(s[i - 1], SN(q[i]))
    /\ k < Len(q) => SnLess(s[k], SN(q[k + 1]))

\* The frames fs are handed up.
HandUp(fs) ==
  /\ again' = (again \/ \E i \in 1..Len(fs) :
                          fs[i] <= IF i = 1 THEN last ELSE fs[i - 1])
  /\ last' = IF fs = <<>> THEN last ELSE fs[Len(fs)]

Indicate(q, w) ==
  LET s == Starts(q, w)
      k == Ready(q, s)
  IN /\ HandUp(SubSeq(q, 1, k))
     /\ iseq' = s[k]
     /\ queue' = SubSeq(q, k + 1, Len(q))

----------------------------------------------------------------------------
\* The receive path: recv_func_posthandle and recv_indicatepkt_reorder.  On one
\* core it is a tasklet that nothing interrupts, except for its own steps.

RxAlone == Smp \/ (rx = "idle" /\ ~handler)

PeerSends ==
  /\ rx = "idle" /\ sta = "hashed" /\ (Smp \/ ~handler)
  /\ "early" \in Peer \/ cmd = "idle"

\* The peer's window, or its new agreement, starts at l.
PeerStart(l) == l \in low..top + 1 /\ ("behind" \in Peer \/ l > last)

\* A frame arrives that the peer sent while its window started at l, with no
\* agreement one at a time; recv_decache drops it if it has just been seen.
Arrive(f, l) ==
  /\ PeerSends
  /\ l \in low..f /\ f < l + Window /\ f <= top + Lag
  /\ ~enable /\ cmd = "idle" => l = f
  /\ low' = l /\ top' = IF f > top THEN f ELSE top
  /\ cur' = f /\ seen' = SN(f)
  /\ rx' = IF SN(f) = seen THEN "idle" ELSE IF enable THEN "reorder" ELSE "direct"
  /\ UNCHANGED <<ctrl, timer, cmd, sta, cannotRun, addbas, last, again>>

\* Without an agreement the frame goes up at once, and the window after it.
Direct ==
  /\ rx = "direct"
  /\ iseq' = SN(cur) /\ HandUp(<<cur>>)
  /\ rx' = "after"
  /\ UNCHANGED <<enable, waiting, queue, timer, cur, seen, cmd, sta, cannotRun, peer>>

AfterDirect ==
  /\ rx = "after"
  /\ iseq' = (iseq + 1) % Modulus
  /\ rx' = "idle"
  /\ UNCHANGED <<enable, waiting, queue, timer, cur, seen, cmd, sta, cannotRun, peer,
                 last, again>>

\* The lock is taken; a frame older than the window is dropped.
TakeLock ==
  /\ rx = "reorder"
  /\ LET c == Check(iseq, SN(cur))
     IN iseq' = c.start /\ rx' = IF c.ok THEN "checked" ELSE "idle"
  /\ UNCHANGED <<enable, waiting, queue, timer, cur, seen, cmd, sta, cannotRun, peer,
                 last, again>>

DropDuplicate ==
  /\ rx = "checked" /\ Duplicate(queue, cur)
  /\ rx' = "idle"
  /\ UNCHANGED <<ctrl, timer, cur, seen, cmd, sta, cannotRun, peer, last, again>>

\* Mutant: the timer is cancelled with the lock held.
EnqueueCancels ==
  /\ rx = "checked" /\ ~Duplicate(queue, cur)
  /\ Indicate(InsertAt(queue, Before(queue, cur), cur), iseq)
  /\ queue' = <<>> => ~handler
  /\ waiting' = (queue' # <<>>)
  /\ armed' = (queue' # <<>> /\ (armed \/ ~waiting))
  /\ rx' = "idle"
  /\ UNCHANGED <<enable, handler, cur, seen, cmd, sta, cannotRun, peer>>

\* Mutant: bReorderWaiting is not taken back when nothing is left to wait for.
EnqueueKeepsWaiting ==
  /\ rx = "checked" /\ ~Duplicate(queue, cur)
  /\ Indicate(InsertAt(queue, Before(queue, cur), cur), iseq)
  /\ waiting' = (waiting \/ queue' # <<>>)
  /\ armed' = (armed \/ (queue' # <<>> /\ ~waiting))
  /\ rx' = IF queue' = <<>> THEN "cancel" ELSE "idle"
  /\ UNCHANGED <<enable, handler, cur, seen, cmd, sta, cannotRun, peer>>

\* The frame is queued, and what is in order goes up.  Frames that are left
\* have a timer; if none is, the lock is given back and then ...
Enqueue ==
  /\ rx = "checked" /\ ~Duplicate(queue, cur)
  /\ Indicate(InsertAt(queue, Before(queue, cur), cur), iseq)
  /\ waiting' = (queue' # <<>>)
  /\ armed' = (armed \/ (queue' # <<>> /\ ~waiting))
  /\ rx' = IF queue' = <<>> THEN "cancel" ELSE "idle"
  /\ UNCHANGED <<enable, handler, cur, seen, cmd, sta, cannotRun, peer>>

\* ... the timer is cancelled, and its handler waited for.
Cancel ==
  /\ rx = "cancel" /\ ~handler
  /\ armed' = FALSE /\ rx' = "idle"
  /\ UNCHANGED <<ctrl, handler, cur, seen, cmd, sta, cannotRun, peer, last, again>>

\* rtw_process_bar_frame: the window starts where the peer's does.
Bar(l) ==
  /\ "bar" \in Peer /\ PeerSends /\ PeerStart(l)
  /\ low' = l /\ iseq' = SN(l)
  /\ UNCHANGED <<enable, waiting, queue, timer, rx, cur, seen, cmd, sta, cannotRun, top,
                 addbas, last, again>>

\* A DELBA ends the agreement: one of the peer, or one of the driver's own, which
\* a thread may send while the receive path is midway.
Delba ==
  /\ "delba" \in Peer /\ sta = "hashed" /\ RxAlone /\ enable
  /\ enable' = FALSE
  /\ UNCHANGED <<iseq, waiting, queue, timer, rx, cur, seen, cmd, sta, cannotRun, peer,
                 last, again>>

----------------------------------------------------------------------------
\* rtw_reordering_ctrl_timeout_handler.

Fire ==
  /\ armed /\ ~handler /\ (Smp \/ rx = "idle")
  /\ armed' = FALSE /\ handler' = TRUE
  /\ UNCHANGED <<ctrl, rx, cur, seen, cmd, sta, cannotRun, peer, last, again>>

\* A driver that cannot run does nothing.
HandlerReturns ==
  /\ handler /\ cannotRun
  /\ handler' = FALSE
  /\ UNCHANGED <<ctrl, armed, rx, cur, seen, cmd, sta, cannotRun, peer, last, again>>

\* Mutant: the timer is not set again for the frames that are left.
HandlerOnce ==
  /\ handler /\ ~cannotRun /\ rx # "checked"
  /\ handler' = FALSE /\ waiting' = FALSE
  /\ IF queue = <<>> THEN UNCHANGED <<iseq, queue, last, again>>
                     ELSE Indicate(queue, SN(Head(queue)))
  /\ armed' = (armed \/ queue = <<>>)
  /\ UNCHANGED <<enable, rx, cur, seen, cmd, sta, cannotRun, peer>>

\* With the lock held it gives up on the hole before the first frame, hands up
\* what is in order then, and sets the timer again for what is left, or if there
\* was nothing at all.
Handler ==
  /\ handler /\ ~cannotRun /\ rx # "checked"
  /\ handler' = FALSE /\ waiting' = FALSE
  /\ IF queue = <<>> THEN UNCHANGED <<iseq, queue, last, again>>
                     ELSE Indicate(queue, SN(Head(queue)))
  /\ armed' = (armed \/ queue = <<>> \/ queue' # <<>>)
  /\ UNCHANGED <<enable, rx, cur, seen, cmd, sta, cannotRun, peer>>

----------------------------------------------------------------------------
\* Threads.

\* add_ba_rsp_hdl, in the command thread: the response is acknowledged by a
\* peer whose window starts at l ...
Respond(l) ==
  /\ cmd = "idle" /\ addbas < MaxAddba /\ sta = "hashed" /\ RxAlone
  /\ PeerStart(l)
  /\ cmd' = "reset" /\ low' = l /\ addbas' = addbas + 1
  /\ UNCHANGED <<ctrl, timer, rx, cur, seen, sta, cannotRun, top, last, again>>

\* ... then the window is reset, ...
Reset ==
  /\ cmd = "reset" /\ RxAlone
  /\ iseq' = Unset /\ cmd' = "enable"
  /\ UNCHANGED <<enable, waiting, queue, timer, rx, cur, seen, sta, cannotRun, peer,
                 last, again>>

\* ... and the reordering turned on, or off for a request that is rejected.
Enable(accept) ==
  /\ cmd = "enable" /\ RxAlone
  /\ enable' = accept /\ cmd' = "idle"
  /\ UNCHANGED <<iseq, waiting, queue, timer, rx, cur, seen, sta, cannotRun, peer,
                 last, again>>

\* rtw_free_stainfo takes the peer out of the hash table, cancels the timer,
\* empties the queue under its lock, and gives the sta_info back.
Unhash ==
  /\ sta = "hashed" /\ RxAlone
  /\ sta' = "unhashed"
  /\ UNCHANGED <<ctrl, timer, rx, cur, seen, cmd, cannotRun, peer, last, again>>

\* Mutant: the timer is left alone.
CancelTimerNot ==
  /\ sta = "unhashed" /\ RxAlone
  /\ sta' = "cancelled"
  /\ UNCHANGED <<ctrl, timer, rx, cur, seen, cmd, cannotRun, peer, last, again>>

CancelTimer ==
  /\ sta = "unhashed" /\ RxAlone /\ ~handler
  /\ armed' = FALSE /\ sta' = "cancelled"
  /\ UNCHANGED <<ctrl, handler, rx, cur, seen, cmd, cannotRun, peer, last, again>>

Flush ==
  /\ sta = "cancelled" /\ RxAlone /\ rx # "checked"
  /\ queue' = <<>> /\ sta' = "free"
  /\ UNCHANGED <<iseq, enable, waiting, timer, rx, cur, seen, cmd, cannotRun, peer,
                 last, again>>

Stop ==
  /\ ~cannotRun /\ cannotRun' = TRUE
  /\ UNCHANGED <<ctrl, timer, rx, cur, seen, cmd, sta, peer, last, again>>

----------------------------------------------------------------------------
RxStep == Direct \/ AfterDirect \/ TakeLock \/ DropDuplicate \/ Enqueue \/ Cancel

TimerStep == Fire \/ HandlerReturns \/ Handler

CmdStep == Reset \/ \E accept \in BOOLEAN : Enable(accept)

FreeStep == CancelTimer \/ Flush

Next ==
  \/ \E f \in 0..MaxFrame : \E l \in 0..MaxFrame : Arrive(f, l)
  \/ \E l \in 0..MaxFrame : Bar(l) \/ Respond(l)
  \/ RxStep \/ TimerStep \/ CmdStep \/ FreeStep \/ Delba \/ Unhash \/ Stop

Spec == Init /\ [][Next]_vars

\* Tasklets, timers and threads that can run do.  A handler that spins on the lock
\* gets it in its turn, and who waits for a handler to end deletes the timer before
\* the REORDER_WAIT_TIME that the handler set is over.  The peer owes nothing.
FairSpec ==
  /\ Spec /\ WF_vars(RxStep) /\ WF_vars(Fire) /\ SF_vars(HandlerReturns \/ Handler)
  /\ SF_vars(Cancel) /\ SF_vars(CancelTimer) /\ WF_vars(CmdStep) /\ WF_vars(Flush)

----------------------------------------------------------------------------
TypeOK ==
  /\ iseq \in (0..Modulus - 1) \union {Unset}
  /\ enable \in BOOLEAN /\ waiting \in BOOLEAN /\ armed \in BOOLEAN /\ handler \in BOOLEAN
  /\ cannotRun \in BOOLEAN /\ again \in BOOLEAN
  /\ queue \in Seq(0..MaxFrame)
  /\ rx \in {"idle", "direct", "after", "reorder", "checked", "cancel"}
  /\ cmd \in {"idle", "reset", "enable"}
  /\ sta \in {"hashed", "unhashed", "cancelled", "free"}
  /\ seen \in (0..Modulus - 1) \union {Unset}
  /\ cur \in 0..MaxFrame /\ low \in 0..MaxFrame + 1 /\ top \in 0..MaxFrame
  /\ last \in -1..MaxFrame /\ addbas \in 0..MaxAddba

\* The queue is in the order in which the peer sent the frames, without
\* duplicates, and shorter than the window: the comparisons modulo 4096, with
\* the end of the window that is computed from an unset start, never take a new
\* frame for an old one.
QueueInOrder ==
  /\ \A i, j \in 1..Len(queue) : i < j => queue[i] < queue[j]
  /\ Len(queue) < Window

\* "Insert all packet into Reorder Queue to maintain its ordering": what goes
\* up is in order and nothing goes up twice.
InOrder == ~again

\* Frames that wait for a hole to close have a timer that ends the wait, and
\* bReorderWaiting, which keeps the timer from being set, says that it is set.
NoStuckFrame ==
  sta = "hashed" /\ ~cannotRun =>
    /\ queue # <<>> => armed \/ handler
    /\ waiting => armed \/ handler

\* A sta_info that is given back is left alone by its timer and holds no frame.
FreeIsQuiet == (sta = "free") => ~armed /\ ~handler /\ queue = <<>>

InQueue(f) == \E i \in 1..Len(queue) : queue[i] = f

\* Every frame that waits goes up, as long as the peer is there.
QueueDrains ==
  \A f \in 0..MaxFrame : []<>(~InQueue(f) \/ cannotRun \/ sta # "hashed")

\* The receive path is never held up for good by a timer that waits for its lock.
RxReturns == []<>(rx = "idle")

----------------------------------------------------------------------------
\* The inductive invariant behind NoStuckFrame, and on one core FreeIsQuiet.

\* The timer that the receive path cancels after the lock was given back is one
\* that no frame waits for.
NothingToCancelFor == rx = "cancel" => queue = <<>> /\ ~waiting

\* Once rtw_free_stainfo cancelled the timer nothing is left to arm it.
CancelledIsQuiet ==
  /\ sta \in {"cancelled", "free"} /\ ~Smp => ~armed /\ ~handler /\ rx = "idle"
  /\ sta = "free" /\ ~Smp => queue = <<>>

IInv ==
  /\ armed \in BOOLEAN /\ handler \in BOOLEAN /\ waiting \in BOOLEAN
  /\ NothingToCancelFor /\ NoStuckFrame /\ CancelledIsQuiet

----------------------------------------------------------------------------
\* The inductive invariant behind QueueInOrder and InOrder.

\* One core, one agreement, and a peer that neither goes back nor sends between the
\* ADDBA response and the reset: what a frame's distance from the window rests on.
OnOneCore == ~Smp /\ Peer \subseteq {"bar"} /\ MaxAddba <= 1
\* Twice the window and the lag are less than the sequence numbers, which are less
\* than 0xFFFF.
RoomToCompare == Window + Lag < Modulus \div 2 /\ Modulus <= Unset

\* What the peer sent, and that one core does one thing at a time.
Sent ==
  /\ low <= top + 1 /\ top < low + Window
  /\ cur <= top /\ top < cur + Window /\ seen \in {Unset, SN(cur)}
  /\ last <= top

OneAtATime ==
  /\ handler => rx = "idle"
  /\ rx \in {"direct", "after"} => ~enable
  /\ rx \in {"reorder", "checked", "cancel"} => enable
  /\ enable \/ cmd # "idle" => addbas > 0
  /\ cmd # "idle" => ~enable /\ rx = "idle" /\ last < low
  /\ cmd = "enable" => iseq = Unset

\* Without an agreement the frames come one at a time, and only the last one can
\* come again.
Plain ==
  ~enable =>
    /\ queue = <<>> /\ top <= low
    /\ last < low \/ (last = low /\ cur = low /\ seen = SN(cur))
    /\ rx = "direct" => last < cur /\ cur = low /\ seen = SN(cur)

\* After the reset the first frame starts the window.
NoWindow ==
  (enable /\ iseq = Unset) =>
    /\ queue = <<>> /\ last < low /\ rx \in {"idle", "reorder"}
    /\ rx = "idle" => top <= low
    /\ rx = "reorder" => cur = top /\ low <= cur

\* No frame in the queue is as old as a window.
Recent == \A i \in 1..Len(queue) : top < queue[i] + Window

\* The receive path holds a frame ahead of all before it.
Ahead == cur = top /\ \A i \in 1..Len(queue) : queue[i] < cur /\ cur < queue[i] + Window + Lag

\* The window starts at the frame w.
WindowAt(w) ==
  /\ iseq = SN(w) /\ last < w /\ w <= top + 1
  /\ rx \in {"idle", "cancel"} => top < w + Window /\ Recent
  /\ rx = "reorder" => \/ top < w + Window /\ Recent
                       \/ w <= top /\ top < w + Window + Lag /\ Ahead
  /\ rx = "checked" =>
       /\ last < cur /\ top < w + Window
       /\ Recent \/ Ahead

InWindow == (enable /\ iseq # Unset) => \E w \in 0..MaxFrame + 1 : WindowAt(w)

\* The queue is QueueInOrder, and nothing in it has been overtaken.
NotOvertaken == \A i \in 1..Len(queue) : last < queue[i] /\ queue[i] <= top

OrderInv ==
  /\ TypeOK /\ Sent /\ OneAtATime /\ Plain /\ NoWindow /\ InWindow
  /\ QueueInOrder /\ NotOvertaken /\ InOrder
=============================================================================
