------------------------------ MODULE UsbRecv ------------------------------
(***************************************************************************)
(* The receive path of the Wi-Fi driver on USB: a fixed set of receive     *)
(* buffers, each with one bulk-in URB, that carry socket buffers (skbs)    *)
(* between the completion handler, a tasklet and a queue of free skbs; a   *)
(* buffer for which no skb can be allocated waits in a pending queue.  The *)
(* interface is stopped and started again by IPS and by a suspend.         *)
(* A completion handler, and one turn of the tasklet's loop, run without   *)
(* the other's steps in between: completions of one host controller are    *)
(* given back one at a time.                                               *)
(***************************************************************************)
EXTENDS Integers, SequencesExt

CONSTANTS
  Buffer,    \* the NR_RECVBUFF receive buffers
  Skb,       \* the skbs that memory has room for
  Prealloc,  \* how many of them usb_init_recv_priv allocates
  Stops,     \* the ways the interface is stopped: a subset of {"ips", "suspend"}
  Lossy,     \* whether a submission may fail, and an URB end with another error
  MaxIoErr,  \* MAX_CONTINUAL_IO_ERR
  MaxStarts  \* bound: starts of the interface

None == "no skb"

ASSUME RecvAssumption ==
  /\ IsFiniteSet(Buffer) /\ IsFiniteSet(Skb) /\ None \notin Skb
  /\ Prealloc \in 0..Cardinality(Skb)
  /\ Stops \subseteq {"ips", "suspend"} /\ Lossy \in BOOLEAN
  /\ MaxIoErr \in Nat /\ MaxStarts \in Nat \ {0}

VARIABLES
  flight,   \* the buffers whose URB is submitted
  pending,  \* recv_buf_pending_queue
  skb,      \* precvbuf->pskb
  rxq, freeq,   \* rx_skb_queue and free_recv_skb_queue
  heap,     \* the skbs that are not allocated
  tasklet,  \* recv_tasklet: "idle", "scheduled", "running"
  stopped, removed,  \* bDriverStopped and bSurpriseRemoved
  rxOff,    \* DF_RX_BIT of disable_func
  ioErr,    \* continual_io_error
  ctl, todo,    \* the interface, and the buffers inirp_init has yet to submit
  starts,
  lost,     \* history: buffers left alone by an error or a start cut short
  leftover  \* history: what a start found left by the stop before: "buffers" that
            \* were pending, "packets" without a tasklet

pool == <<flight, pending, skb, freeq, heap, lost>>
flags == <<stopped, removed, rxOff>>
vars == <<pool, rxq, tasklet, flags, ioErr, ctl, todo, starts, leftover>>

CannotRun == removed \/ stopped
CannotRx == CannotRun \/ rxOff

Init ==
  /\ flight = {} /\ pending = <<>> /\ lost = {}
  /\ skb = [b \in Buffer |-> None]
  /\ freeq = SubSeq(SetToSeq(Skb), 1, Prealloc) /\ heap = Skb \ ToSet(freeq)
  /\ rxq = <<>> /\ tasklet = "idle"
  /\ stopped = FALSE /\ removed = FALSE /\ rxOff = FALSE /\ ioErr = 0
  /\ ctl = "starting" /\ todo = SetToSeq(Buffer) /\ starts = 1
  /\ leftover = {}

----------------------------------------------------------------------------
\* usb_read_port, as a relation between two values of the pool.  A pool is a
\* record with the fields of the same names.

Pool == [flight |-> flight, pending |-> pending, skb |-> skb, freeq |-> freeq,
         heap |-> heap, lost |-> lost]

Become(p) ==
  /\ flight' = p.flight /\ pending' = p.pending /\ skb' = p.skb
  /\ freeq' = p.freeq /\ heap' = p.heap /\ lost' = p.lost

\* The pool once buffer b has an skb, its own, a free or a new one: none of them
\* without memory.
WithSkb(p, b) ==
  IF p.skb[b] # None THEN {p}
  ELSE IF p.freeq # <<>>
    THEN {[p EXCEPT !.skb[b] = Head(p.freeq), !.freeq = Tail(p.freeq)]}
  ELSE {[p EXCEPT !.skb[b] = k, !.heap = p.heap \ {k}] : k \in p.heap}

\* rtw_list_delete of a buffer that may be in the queue.
Unlinked(queue, b) ==
  IF b \in ToSet(queue) THEN RemoveAt(queue, CHOOSE i \in 1..Len(queue) : queue[i] = b)
                        ELSE queue

\* rtw_enqueue_recvbuf: from where it is in the queue, if it is, to the tail.
Waiting(p, b) == [p EXCEPT !.pending = Append(Unlinked(@, b), b)]

\* usb_submit_urb refuses an URB that is in flight.
Submit(p, b) ==
  IF b \in p.flight THEN {p}
  ELSE {[p EXCEPT !.flight = @ \union {b}, !.lost = @ \ {b}]}
       \union IF Lossy THEN {[p EXCEPT !.lost = @ \union {b}]} ELSE {}

\* Mutant: a buffer that gets no skb is dropped.
ReadPortDrops(p, b) ==
  IF CannotRx THEN {p}
  ELSE LET ready == WithSkb(p, b)
       IN IF ready = {} THEN {p} ELSE UNION {Submit(q, b) : q \in ready}

\* Mutant: a free skb is used without being taken out of its queue.
ReadPortShares(p, b) ==
  IF CannotRx THEN {p}
  ELSE LET ready == WithSkb(p, b)
       IN IF ready = {} THEN {Waiting(p, b)}
          ELSE UNION {Submit([q EXCEPT !.freeq = p.freeq], b) : q \in ready}

ReadPort(p, b) ==
  IF CannotRx THEN {p}
  ELSE LET ready == WithSkb(p, b)
       IN IF ready = {} THEN {Waiting(p, b)} ELSE UNION {Submit(q, b) : q \in ready}

----------------------------------------------------------------------------
\* usb_read_port_complete, with the status of the URB.

Landed(b) == [Pool EXCEPT !.flight = @ \ {b}]

CompletesDisabled(b) ==
  /\ b \in flight /\ CannotRx
  /\ Become(Landed(b))
  /\ UNCHANGED <<rxq, tasklet, flags, ioErr, ctl, todo, starts, leftover>>

\* Mutant: the tasklet is scheduled only for a second packet.
CompletesOffByOne(b) ==
  /\ b \in flight /\ ~CannotRx
  /\ ioErr' = 0
  /\ rxq' = Append(rxq, skb[b])
  /\ tasklet' = IF Len(rxq') = 2 /\ tasklet = "idle" THEN "scheduled" ELSE tasklet
  /\ \E p \in ReadPort([Landed(b) EXCEPT !.skb[b] = None], b) : Become(p)
  /\ UNCHANGED <<flags, ctl, todo, starts, leftover>>

\* A packet: its skb goes to the tasklet, which is scheduled for the first one,
\* and the buffer goes on with another.
Completes(b) ==
  /\ b \in flight /\ ~CannotRx
  /\ ioErr' = 0
  /\ rxq' = Append(rxq, skb[b])
  /\ tasklet' = IF Len(rxq') <= 1 /\ tasklet = "idle" THEN "scheduled" ELSE tasklet
  /\ \E p \in ReadPort([Landed(b) EXCEPT !.skb[b] = None], b) : Become(p)
  /\ UNCHANGED <<flags, ctl, todo, starts, leftover>>

\* Mutant: the number of errors in a row is not looked at.
CompletesRetryForEver(b, error) ==
  /\ b \in flight /\ ~CannotRx
  /\ ioErr' = IF error THEN ioErr + 1 ELSE ioErr
  /\ \E p \in ReadPort(Landed(b), b) : Become(p)
  /\ UNCHANGED <<rxq, tasklet, flags, ctl, todo, starts, leftover>>

\* A bad length, or EPROTO and its like: the buffer is submitted again with its
\* skb.  The fifth error in a row takes the device for removed, and then not.
CompletesRetry(b, error) ==
  /\ b \in flight /\ ~CannotRx
  /\ ioErr' = IF error THEN ioErr + 1 ELSE ioErr
  /\ removed' = (ioErr' > MaxIoErr)
  /\ IF removed' THEN Become(Landed(b))
                 ELSE \E p \in ReadPort(Landed(b), b) : Become(p)
  /\ UNCHANGED <<rxq, tasklet, stopped, rxOff, ctl, todo, starts, leftover>>

\* EPIPE, ENODEV, ESHUTDOWN, ...: the driver stops.
CompletesFatal(b) ==
  /\ b \in flight /\ ~CannotRx
  /\ ioErr' = ioErr + 1 /\ removed' = (ioErr' > MaxIoErr)
  /\ stopped' = TRUE
  /\ Become(Landed(b))
  /\ UNCHANGED <<rxq, tasklet, rxOff, ctl, todo, starts, leftover>>

\* Any other status: the buffer is left alone.
CompletesOther(b) ==
  /\ Lossy /\ b \in flight /\ ~CannotRx
  /\ ioErr' = ioErr + 1 /\ removed' = (ioErr' > MaxIoErr)
  /\ Become([Landed(b) EXCEPT !.lost = @ \union {b}])
  /\ UNCHANGED <<rxq, tasklet, stopped, rxOff, ctl, todo, starts, leftover>>

----------------------------------------------------------------------------
\* usb_recv_tasklet.

TaskletStarts ==
  /\ tasklet = "scheduled" /\ tasklet' = "running"
  /\ UNCHANGED <<pool, rxq, flags, ioErr, ctl, todo, starts, leftover>>

TaskletEnds ==
  /\ tasklet = "running" /\ rxq = <<>>
  /\ tasklet' = "idle"
  /\ UNCHANGED <<pool, rxq, flags, ioErr, ctl, todo, starts, leftover>>

\* A driver that cannot run drops one packet and leaves the rest in the queue.
TaskletBreaks ==
  /\ tasklet = "running" /\ rxq # <<>> /\ CannotRun
  /\ rxq' = Tail(rxq)
  /\ heap' = heap \union {Head(rxq)}
  /\ tasklet' = "idle"
  /\ UNCHANGED <<flight, pending, skb, freeq, lost, flags, ioErr, ctl, todo, starts, leftover>>

\* Mutant: a buffer that waits for an skb is not looked for.
TaskletTurnKeepsPending ==
  /\ tasklet = "running" /\ rxq # <<>> /\ ~CannotRun
  /\ rxq' = Tail(rxq)
  /\ Become([Pool EXCEPT !.freeq = Append(@, Head(rxq))])
  /\ UNCHANGED <<tasklet, flags, ioErr, ctl, todo, starts, leftover>>

\* Mutant: pskb is reset after the buffer was submitted.
TaskletTurnResetsLate ==
  /\ tasklet = "running" /\ rxq # <<>> /\ ~CannotRun
  /\ rxq' = Tail(rxq)
  /\ LET p == [Pool EXCEPT !.freeq = Append(@, Head(rxq))]
     IN IF pending = <<>> THEN Become(p)
        ELSE \E q \in ReadPort([p EXCEPT !.pending = Tail(@)], Head(pending)) :
               Become([q EXCEPT !.skb[Head(pending)] = None])
  /\ UNCHANGED <<tasklet, flags, ioErr, ctl, todo, starts, leftover>>

\* A turn of the loop: the packet is handed up, its skb is free, and the first
\* buffer that waits for one is submitted.
TaskletTurn ==
  /\ tasklet = "running" /\ rxq # <<>> /\ ~CannotRun
  /\ rxq' = Tail(rxq)
  /\ LET p == [Pool EXCEPT !.freeq = Append(@, Head(rxq))]
     IN IF pending = <<>> THEN Become(p)
        ELSE \E q \in ReadPort([p EXCEPT !.pending = Tail(@),
                                         !.skb[Head(pending)] = None], Head(pending)) :
               Become(q)
  /\ UNCHANGED <<tasklet, flags, ioErr, ctl, todo, starts, leftover>>

----------------------------------------------------------------------------
\* The interface: usb_intf_start and usb_intf_stop with those who call them.

\* rtl8723du_inirp_init submits buffer after buffer; at the first that fails, or
\* gets no skb, it leaves the rest alone.
StartNext ==
  /\ ctl = "starting" /\ todo # <<>>
  /\ \E p \in ReadPort(Pool, Head(todo)) :
       IF Head(todo) \in p.flight \ flight
       THEN Become(p) /\ todo' = Tail(todo) /\ ctl' = ctl
       ELSE /\ Become([p EXCEPT !.lost = @ \union (ToSet(Tail(todo)) \ p.flight)])
            /\ todo' = <<>> /\ ctl' = "open"
  /\ UNCHANGED <<rxq, tasklet, flags, ioErr, starts, leftover>>

Started ==
  /\ ctl = "starting" /\ todo = <<>> /\ ctl' = "open"
  /\ UNCHANGED <<pool, rxq, tasklet, flags, ioErr, todo, starts, leftover>>

\* rtw_suspend: rtw_dev_unload stops the driver first ...
SetStopped ==
  /\ ctl = "open" /\ ~CannotRun /\ "suspend" \in Stops /\ starts < MaxStarts
  /\ stopped' = TRUE /\ ctl' = "unload"
  /\ UNCHANGED <<pool, rxq, tasklet, removed, rxOff, ioErr, todo, starts, leftover>>

\* ... and then the interface: rtw_read_port_cancel disables the reception and
\* kills the URBs.
Unload ==
  /\ ctl = "unload"
  /\ rxOff' = TRUE /\ Become([Pool EXCEPT !.flight = {}])
  /\ removed' = TRUE /\ ctl' = "suspended"
  /\ UNCHANGED <<rxq, tasklet, stopped, ioErr, todo, starts, leftover>>

\* rtw_ips_pwr_down, from the command thread of a driver that can run.
IpsDown ==
  /\ ctl = "open" /\ ~CannotRun /\ "ips" \in Stops /\ starts < MaxStarts
  /\ rxOff' = TRUE /\ Become([Pool EXCEPT !.flight = {}])
  /\ ctl' = "ips"
  /\ UNCHANGED <<rxq, tasklet, stopped, removed, ioErr, todo, starts, leftover>>

\* rtw_resume_process clears the three flags, rtw_ips_pwr_up two of them.
StartAgain ==
  /\ ctl \in {"suspended", "ips"}
  /\ removed' = (removed /\ ctl = "ips") /\ stopped' = FALSE /\ rxOff' = FALSE
  /\ ctl' = "starting" /\ todo' = SetToSeq(Buffer) /\ starts' = starts + 1
  /\ leftover' = leftover \union {x \in {"buffers"} : pending # <<>>}
                  \union {x \in {"packets"} : rxq # <<>> /\ tasklet = "idle"}
  /\ UNCHANGED <<pool, rxq, tasklet, ioErr>>

----------------------------------------------------------------------------
Complete(b) ==
  \/ CompletesDisabled(b) \/ Completes(b) \/ CompletesFatal(b) \/ CompletesOther(b)
  \/ \E error \in BOOLEAN : CompletesRetry(b, error)

Tasklet == TaskletStarts \/ TaskletEnds \/ TaskletBreaks \/ TaskletTurn

Control == StartNext \/ Started \/ SetStopped \/ Unload \/ IpsDown \/ StartAgain

Next == Tasklet \/ Control \/ \E b \in Buffer : Complete(b)

Spec == Init /\ [][Next]_vars

\* The kernel runs a scheduled tasklet; nothing is assumed of the air.
FairSpec == Spec /\ WF_vars(Tasklet) /\ WF_vars(StartNext \/ Started \/ Unload \/ StartAgain)

----------------------------------------------------------------------------
Waits(b) == \E i \in 1..Len(pending) : pending[i] = b

TypeOK ==
  /\ flight \subseteq Buffer /\ lost \subseteq Buffer
  /\ pending \in Seq(Buffer) /\ todo \in Seq(Buffer)
  /\ skb \in [Buffer -> Skb \union {None}]
  /\ rxq \in Seq(Skb) /\ freeq \in Seq(Skb) /\ heap \subseteq Skb
  /\ tasklet \in {"idle", "scheduled", "running"}
  /\ stopped \in BOOLEAN /\ removed \in BOOLEAN /\ rxOff \in BOOLEAN
  /\ ioErr \in 0..MaxIoErr + 1
  /\ ctl \in {"starting", "open", "unload", "suspended", "ips"}
  /\ starts \in 1..MaxStarts /\ leftover \subseteq {"buffers", "packets"}

\* An skb is in one place: not allocated, free, on its way to the tasklet, or
\* in one buffer.  None is leaked, and none is filled by an URB while the
\* tasklet reads it.  A pending buffer that a start submits breaks this.
SkbOwnedOnce ==
  "buffers" \notin leftover => \A k \in Skb :
    Cardinality({i \in 1..Len(rxq) : rxq[i] = k})
    + Cardinality({i \in 1..Len(freeq) : freeq[i] = k})
    + Cardinality({b \in Buffer : skb[b] = k})
    + (IF k \in heap THEN 1 ELSE 0) = 1

\* An URB in flight has an skb to write to.
FlightHasSkb == \A b \in flight : skb[b] # None

\* A packet in the queue has a tasklet that will take it, as long as no suspend
\* left packets there.
NoStuckPacket ==
  (rxq # <<>> /\ "packets" \notin leftover) => tasklet # "idle" \/ CannotRun

\* While the driver receives, each buffer is submitted or waits for an skb,
\* except those that an error or a start cut short left alone.
NoBufferForgotten ==
  (ctl = "open" /\ ~CannotRx) => \A b \in Buffer : b \in flight \/ Waits(b) \/ b \in lost

\* The comment "enqueue precvbuf and wait for free skb": the wait ends, if the
\* driver goes on running.
PendingGetsSkb == \A b \in Buffer : Waits(b) ~> (~Waits(b) \/ CannotRun)

\* It does end while no stop left anything behind.
WaitEnds == \A b \in Buffer : Waits(b) ~> (~Waits(b) \/ CannotRun \/ leftover # {})

----------------------------------------------------------------------------
\* The inductive invariant behind the five invariants above.

\* The number of errors only passes its limit in a device that is then removed,
\* and a removed device is neither stopped nor started again.
ErrorsCounted == ioErr > MaxIoErr => removed /\ ctl \in {"starting", "open"}

\* What the steps of a stop have done, and that a start is left for it.
Stopping ==
  /\ rxOff <=> ctl \in {"suspended", "ips"}
  /\ rxOff => flight = {}
  /\ ctl = "unload" => stopped
  /\ ctl \notin {"starting", "open"} => starts < MaxStarts
  /\ ctl # "starting" => todo = <<>>

\* NoBufferForgotten, also while a start has buffers yet to submit.
Accounted ==
  (ctl \in {"starting", "open"} /\ ~CannotRx) =>
    \A b \in Buffer : b \in flight \union ToSet(pending) \union lost \union ToSet(todo)

\* A buffer that waits has no skb and no URB, and a start meets each buffer once,
\* before it has either: as long as no start found buffers that still waited.
Queued ==
  /\ IsInjective(pending) /\ IsInjective(todo)
  /\ "buffers" \notin leftover =>
       /\ \A b \in ToSet(pending) : b \notin flight /\ skb[b] = None
       /\ \A b \in ToSet(todo) : b \notin flight /\ b \notin ToSet(pending)

\* SkbOwnedOnce, place by place, for a pool p and the skbs R of rx_skb_queue.
OnePlace(p, R) ==
  /\ IsInjective(p.freeq)
  /\ \A b, c \in Buffer : p.skb[b] = p.skb[c] /\ p.skb[b] # None => b = c
  /\ \A b \in Buffer : p.skb[b] \notin ToSet(p.freeq) \union p.heap \union R
  /\ \A k \in ToSet(p.freeq) : k \notin p.heap \union R
  /\ \A k \in p.heap : k \notin R
  /\ \A k \in Skb : k \in ToSet(p.freeq) \union p.heap \union R
                    \/ \E b \in Buffer : p.skb[b] = k

Owned == "buffers" \notin leftover => IsInjective(rxq) /\ OnePlace(Pool, ToSet(rxq))

IInv ==
  /\ TypeOK /\ ErrorsCounted /\ Stopping /\ Accounted /\ Queued /\ Owned
  /\ FlightHasSkb /\ NoStuckPacket
=============================================================================
