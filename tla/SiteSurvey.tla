----------------------------- MODULE SiteSurvey -----------------------------
(***************************************************************************)
(* The scans of the Wi-Fi driver: requests of cfg80211 and scans of the    *)
(* driver's own, the survey that the command thread executes channel by    *)
(* channel with the survey timer between, its end as an event, the timeout *)
(* that stands in for a lost end, and what answers the request when the    *)
(* interface is closed, the board sleeps or the device is pulled out.      *)
(* Threads and timers may run on several cores.                            *)
(***************************************************************************)
EXTENDS Integers, Sequences

CONSTANTS
  Req,        \* the scan requests of cfg80211
  Channels,   \* how many channels a survey visits
  MaxOwn,     \* bound: scans that the driver starts by itself
  MaxCloses,  \* bound: closings of the interface
  MaxSleeps,  \* bound: suspends
  MaxOom      \* bound: allocations that fail

ASSUME SurveyAssumption ==
  /\ {Channels, MaxOwn, MaxCloses, MaxSleeps, MaxOom} \subseteq Nat
  /\ Channels > 0 /\ Req \cap {"free", "close", "no request"} = {}

VARIABLES
  pc,         \* where each request is
  req,        \* scan_request
  rtnl,       \* the holder of rtnl: a request's call, the closing, or none
  ctl,        \* netdev_close: where it is
  flag,       \* _FW_UNDER_SURVEY
  abort,      \* scan_abort
  scan, idx,  \* sitesurvey_res: state and channel_idx
  queue, running, th,     \* the commands, cmdthd_running, where the thread is
  surveyTimer, toArmed,   \* survey_timer and scan_to_timer: pending
  toRun,      \* rtw_scan_timeout_handler: where it is
  stolen,     \* history: the end of another scan cancelled the running one's timeout
  pm,         \* where suspend is
  unplugged,  \* bSurpriseRemoved by a removal
  owns, closes, sleeps, ooms   \* bounded counters

caller == <<pc, req, rtnl>>
survey == <<abort, scan, idx>>
thread == <<queue, running, th>>
timers == <<surveyTimer, toArmed, toRun, stolen>>
world == <<ctl, pm, unplugged, owns, closes, sleeps>>
vars == <<caller, flag, survey, thread, timers, world, ooms>>

NoReq == "no request"

Init ==
  /\ pc = [r \in Req |-> "idle"] /\ req = NoReq /\ rtnl = "free"
  /\ ctl = "up" /\ flag = FALSE /\ abort = FALSE /\ scan = "disable" /\ idx = 0
  /\ queue = <<>> /\ running = TRUE /\ th = "idle"
  /\ surveyTimer = FALSE /\ toArmed = FALSE /\ toRun = "no" /\ stolen = FALSE
  /\ pm = "on" /\ unplugged = FALSE
  /\ owns = 0 /\ closes = 0 /\ sleeps = 0 /\ ooms = 0

\* An allocation succeeds, or fails.
Allocate(ok) == IF ok THEN ooms' = ooms ELSE ooms < MaxOom /\ ooms' = ooms + 1

\* rtw_cfg80211_indicate_scan_done, under scan_req_lock.
IndicateScanDone ==
  /\ req' = NoReq
  /\ pc' = IF req = NoReq THEN pc ELSE [pc EXCEPT ![req] = "done"]

\* Mutant: the timeout is not armed.
SitesurveyCmdNoTimer(ok) ==
  /\ Allocate(ok)
  /\ UNCHANGED <<toArmed, stolen>>
  /\ IF ok /\ running THEN flag' = TRUE /\ queue' = Append(queue, "survey")
     ELSE queue' = queue /\ flag' = (flag /\ ~ok)

\* rtw_sitesurvey_cmd, under the lock of mlme_priv: the flag, the command, the
\* timeout.  The flag falls again when the command is refused.
SitesurveyCmd(ok) ==
  /\ Allocate(ok)
  /\ IF ok /\ running
     THEN /\ flag' = TRUE /\ queue' = Append(queue, "survey")
          /\ toArmed' = TRUE /\ stolen' = FALSE
     ELSE flag' = (flag /\ ~ok) /\ UNCHANGED <<queue, toArmed, stolen>>

----------------------------------------------------------------------------
\* cfg80211_rtw_scan, under rtnl; cfg80211 has one request at a time.

\* The condition check, without a lock.  A request that comes during a scan is
\* answered at once.
Check(r) ==
  /\ pc[r] = "idle" /\ rtnl = "free" /\ ctl = "up" /\ pm = "on"
  /\ \A q \in Req : pc[q] # "waiting"
  /\ IF flag THEN pc' = [pc EXCEPT ![r] = "done"] /\ rtnl' = rtnl
             ELSE pc' = [pc EXCEPT ![r] = "checked"] /\ rtnl' = r
  /\ UNCHANGED <<req, flag, survey, thread, timers, world, ooms>>

\* The start of the survey and the note of the request, under both locks.
Accept(r) ==
  /\ pc[r] = "checked"
  /\ \E ok \in BOOLEAN :
       /\ SitesurveyCmd(ok)
       /\ IF ok /\ running THEN req' = r /\ pc' = [pc EXCEPT ![r] = "waiting"]
                           ELSE req' = req /\ pc' = [pc EXCEPT ![r] = "done"]
  /\ rtnl' = "free"
  /\ UNCHANGED <<survey, running, th, surveyTimer, toRun, world>>

----------------------------------------------------------------------------
\* The command thread.

\* rtw_drv_scan_by_self: the check ...
OwnCheck ==
  /\ th = "idle" /\ running /\ ~unplugged /\ ~flag /\ owns < MaxOwn
  /\ owns' = owns + 1 /\ th' = "own scan"
  /\ UNCHANGED <<caller, flag, survey, queue, running, timers, ctl, pm, unplugged,
                 closes, sleeps, ooms>>

\* ... and the start, a request may have come between.
OwnStart ==
  /\ th = "own scan" /\ th' = "idle"
  /\ \E ok \in BOOLEAN : SitesurveyCmd(ok)
  /\ UNCHANGED <<caller, survey, running, surveyTimer, toRun, world>>

\* Mutant: an aborted survey goes past the last channel.
NextIdxPast ==
  IF abort THEN Channels + 1 ELSE IF scan = "process" THEN idx + 1 ELSE 0

\* The channel index for the next step of the survey: reset by a survey that
\* starts, and at the end for one that is aborted (scan_abort_hdl).
NextIdx ==
  IF abort THEN Channels ELSE IF scan = "process" THEN idx + 1 ELSE 0

\* sitesurvey_cmd_hdl: one more channel, then the survey timer; or the end, and
\* the event that reports it, for which memory may be missing.
Survey ==
  /\ th = "idle" /\ running /\ queue # <<>> /\ Head(queue) = "survey"
  /\ idx' = NextIdx /\ abort' = FALSE
  /\ IF NextIdx < Channels
     THEN /\ scan' = "process" /\ surveyTimer' = TRUE
          /\ queue' = Tail(queue) /\ ooms' = ooms
     ELSE /\ scan' = "disable" /\ surveyTimer' = surveyTimer
          /\ \E ok \in BOOLEAN :
               /\ Allocate(ok)
               /\ queue' = IF ok THEN Append(Tail(queue), "done") ELSE Tail(queue)
  /\ UNCHANGED <<caller, flag, running, th, toArmed, toRun, stolen, world>>

\* Mutant: the flag is left set.
SurveyDoneFlagKept ==
  /\ th = "idle" /\ running /\ queue # <<>> /\ Head(queue) = "done"
  /\ queue' = Tail(queue) /\ th' = "cancel"
  /\ UNCHANGED <<caller, flag, survey, running, timers, world, ooms>>

\* rtw_surveydone_event_callback: it clears the flag under the lock, ...
SurveyDone ==
  /\ th = "idle" /\ running /\ queue # <<>> /\ Head(queue) = "done"
  /\ queue' = Tail(queue) /\ th' = "cancel"
  /\ flag' = FALSE
  /\ UNCHANGED <<caller, survey, running, timers, world, ooms>>

\* ... cancels the timeout without it, waiting for a handler that runs, ...
SurveyDoneCancels ==
  /\ th = "cancel" /\ toRun = "no"
  /\ toArmed' = FALSE /\ th' = "join" /\ stolen' = flag
  /\ UNCHANGED <<caller, flag, survey, queue, running, surveyTimer, toRun, world, ooms>>

\* ... joins a network, for which it may start another scan (to_roam) ...
SurveyDoneJoins ==
  /\ th = "join" /\ th' = "indicate"
  /\ \/ UNCHANGED <<flag, queue, toArmed, stolen, owns, ooms>>
     \/ /\ ~flag /\ owns < MaxOwn /\ owns' = owns + 1
        /\ \E ok \in BOOLEAN : SitesurveyCmd(ok)
  /\ UNCHANGED <<caller, survey, running, surveyTimer, toRun, ctl, pm, unplugged,
                 closes, sleeps>>

\* ... and answers the request there is.
SurveyDoneIndicates ==
  /\ th = "indicate" /\ th' = "idle"
  /\ IndicateScanDone
  /\ UNCHANGED <<rtnl, flag, survey, queue, running, timers, world, ooms>>

\* rtw_cmd_thread ends between two commands and frees the others.
ThreadExits ==
  /\ th = "idle" /\ running /\ (unplugged \/ pm = "unload")
  /\ running' = FALSE /\ queue' = <<>>
  /\ UNCHANGED <<caller, flag, survey, th, timers, world, ooms>>

----------------------------------------------------------------------------
\* The timers.

\* survey_timer_hdl: the next step of a survey, unless memory is missing or the
\* thread is gone.
SurveyTimerFires ==
  /\ surveyTimer /\ surveyTimer' = FALSE
  /\ IF scan = "disable" THEN UNCHANGED <<queue, ooms>>
     ELSE \E ok \in BOOLEAN :
            /\ Allocate(ok)
            /\ queue' = IF ok /\ running THEN Append(queue, "survey") ELSE queue
  /\ UNCHANGED <<caller, flag, survey, running, th, toArmed, toRun, stolen, world>>

TimeoutExpires ==
  /\ toArmed /\ toRun = "no"
  /\ toArmed' = FALSE /\ toRun' = "expired"
  /\ UNCHANGED <<caller, flag, survey, thread, surveyTimer, stolen, world, ooms>>

\* rtw_scan_timeout_handler: the flag, under the lock, ...
TimeoutClears ==
  /\ toRun = "expired" /\ toRun' = "cleared"
  /\ flag' = FALSE
  /\ UNCHANGED <<caller, survey, thread, surveyTimer, toArmed, stolen, world, ooms>>

\* ... then the request there is.
TimeoutIndicates ==
  /\ toRun = "cleared" /\ toRun' = "no"
  /\ IndicateScanDone
  /\ UNCHANGED <<rtnl, flag, survey, thread, surveyTimer, toArmed, stolen, world, ooms>>

----------------------------------------------------------------------------
\* netdev_close, under rtnl.

\* rtw_scan_abort asks the survey to end, ...
CloseAborts ==
  /\ ctl = "up" /\ rtnl = "free" /\ pm = "on" /\ closes < MaxCloses
  /\ abort' = TRUE /\ ctl' = "abort" /\ rtnl' = "close" /\ closes' = closes + 1
  /\ UNCHANGED <<pc, req, flag, scan, idx, thread, timers, pm, unplugged, owns,
                 sleeps, ooms>>

\* ... waits until the flag falls, at most 200 ms, ...
CloseWaited ==
  /\ ctl = "abort"
  /\ ctl' = IF flag THEN "indicate" ELSE "drain"
  /\ abort' = (abort /\ flag)
  /\ UNCHANGED <<caller, flag, scan, idx, thread, timers, pm, unplugged, owns, closes,
                 sleeps, ooms>>

\* ... and answers the request of a survey that did not end in time.
CloseIndicates ==
  /\ ctl = "indicate" /\ ctl' = "drain" /\ abort' = FALSE
  /\ IndicateScanDone
  /\ UNCHANGED <<rtnl, flag, scan, idx, thread, timers, pm, unplugged, owns, closes,
                 sleeps, ooms>>

\* Mutant: the close does not wait for a callback that is about to answer.
CloseReturnsAtOnce ==
  /\ ctl = "drain"
  /\ ctl' = "closed" /\ rtnl' = "free"
  /\ UNCHANGED <<pc, req, flag, survey, thread, timers, pm, unplugged, owns, closes,
                 sleeps, ooms>>

\* rtw_cfg80211_wait_scan_req_empty: a callback that cleared the flag before is
\* about to answer.  Its 200 ms are taken to be longer than the callback.
CloseReturns ==
  /\ ctl = "drain" /\ (req = NoReq \/ unplugged)
  /\ ctl' = "closed" /\ rtnl' = "free"
  /\ UNCHANGED <<pc, req, flag, survey, thread, timers, pm, unplugged, owns, closes,
                 sleeps, ooms>>

\* _netdev_open of a device that is up already.
Open ==
  /\ ctl = "closed" /\ rtnl = "free" /\ pm = "on" /\ ctl' = "up"
  /\ UNCHANGED <<caller, flag, survey, thread, timers, pm, unplugged, owns, closes,
                 sleeps, ooms>>

----------------------------------------------------------------------------
\* rtw_suspend_common and rtw_resume_common.  The processes are frozen.

\* rtw_mi_cancel_all_timer, which waits for the handler of the timeout.
SuspendCancels ==
  /\ pm = "on" /\ ~unplugged /\ sleeps < MaxSleeps /\ rtnl = "free" /\ toRun = "no"
  /\ toArmed' = FALSE /\ pm' = "cancelled" /\ sleeps' = sleeps + 1
  /\ UNCHANGED <<caller, flag, survey, thread, surveyTimer, toRun, stolen, ctl,
                 unplugged, owns, closes, ooms>>

\* rtw_suspend_free_assoc_resource: the request of a scan that runs ...
SuspendIndicates ==
  /\ pm = "cancelled"
  /\ IF flag THEN IndicateScanDone /\ pm' = "indicated"
             ELSE UNCHANGED <<pc, req>> /\ pm' = "unload"
  /\ UNCHANGED <<rtnl, flag, survey, thread, timers, ctl, unplugged, owns, closes,
                 sleeps, ooms>>

\* ... and the flag.
SuspendClears ==
  /\ pm = "indicated" /\ flag' = FALSE /\ pm' = "unload"
  /\ UNCHANGED <<caller, survey, thread, timers, ctl, unplugged, owns, closes,
                 sleeps, ooms>>

\* rtw_dev_unload: when the thread has ended, the timers.
SuspendUnloads ==
  /\ pm = "unload" /\ ~running /\ toRun = "no"
  /\ toArmed' = FALSE /\ pm' = "suspended"
  /\ UNCHANGED <<caller, flag, survey, thread, surveyTimer, toRun, stolen, ctl,
                 unplugged, owns, closes, sleeps, ooms>>

\* rtw_reset_drv_sw and _netdev_open.
Resume ==
  /\ pm = "suspended" /\ ~unplugged
  /\ flag' = FALSE /\ scan' = "disable" /\ running' = TRUE /\ pm' = "on"
  /\ UNCHANGED <<caller, abort, idx, queue, th, timers, ctl, unplugged, owns, closes,
                 sleeps, ooms>>

\* A transfer fails: the device is taken for removed.
Unplug ==
  /\ ~unplugged /\ unplugged' = TRUE
  /\ UNCHANGED <<caller, flag, survey, thread, timers, ctl, pm, owns, closes, sleeps,
                 ooms>>

----------------------------------------------------------------------------
ThreadStep ==
  \/ OwnStart \/ Survey \/ SurveyDone \/ SurveyDoneCancels \/ SurveyDoneJoins
  \/ SurveyDoneIndicates \/ ThreadExits

TimeoutStep == TimeoutExpires \/ TimeoutClears \/ TimeoutIndicates

CloseStep == CloseWaited \/ CloseIndicates \/ CloseReturns

SuspendStep == SuspendIndicates \/ SuspendClears \/ SuspendUnloads

Next ==
  \/ \E r \in Req : Check(r) \/ Accept(r)
  \/ OwnCheck \/ ThreadStep \/ SurveyTimerFires \/ TimeoutStep
  \/ CloseAborts \/ CloseStep \/ Open
  \/ SuspendCancels \/ SuspendStep \/ Resume \/ Unplug

Spec == Init /\ [][Next]_vars

\* Threads that are not blocked run, and armed timers expire.
FairSpec ==
  /\ Spec /\ WF_vars(ThreadStep) /\ WF_vars(TimeoutStep) /\ WF_vars(SurveyTimerFires)
  /\ WF_vars(CloseStep) /\ WF_vars(SuspendStep)
  /\ \A r \in Req : WF_vars(Accept(r))

----------------------------------------------------------------------------
TypeOK ==
  /\ pc \in [Req -> {"idle", "checked", "waiting", "done"}]
  /\ req \in Req \union {NoReq} /\ rtnl \in Req \union {"free", "close"}
  /\ ctl \in {"up", "abort", "indicate", "drain", "closed"}
  /\ flag \in BOOLEAN /\ abort \in BOOLEAN /\ running \in BOOLEAN
  /\ surveyTimer \in BOOLEAN /\ toArmed \in BOOLEAN /\ unplugged \in BOOLEAN
  /\ stolen \in BOOLEAN
  /\ scan \in {"disable", "process"} /\ idx \in 0..Channels
  /\ queue \in Seq({"survey", "done"})
  /\ th \in {"idle", "own scan", "cancel", "join", "indicate"}
  /\ toRun \in {"no", "expired", "cleared"}
  /\ pm \in {"on", "cancelled", "indicated", "unload", "suspended"}
  /\ owns \in Nat /\ closes \in Nat /\ sleeps \in Nat /\ ooms \in Nat

\* When netdev_close returned, or the board sleeps, cfg80211 has no request of
\* this interface left, whatever end of the scan ran at the same time: it would
\* free the request under the driver.  (Of a device that is pulled out the close
\* does not wait.)
QuietWhenDown ==
  ((ctl = "closed" /\ ~unplugged) \/ pm = "suspended") => req = NoReq

\* The survey goes on by itself, or its end is reported.
SurveyGoesOn == queue # <<>> \/ (surveyTimer /\ scan = "process")

\* While _FW_UNDER_SURVEY refuses every scan there is something that clears it:
\* the timeout, also when the survey lost its way for want of memory, or the
\* survey, or the suspend that cancelled the timeout.  Only a scan that lost both
\* leaves it set: its timeout to the end of the scan before it, which cancels
\* scan_to_timer without the lock, and its survey to a failed allocation.
FlagEnds ==
  (flag /\ running) =>
    \/ toArmed \/ toRun = "expired" \/ pm \in {"cancelled", "indicated"}
    \/ SurveyGoesOn
    \/ stolen /\ ooms > 0

\* A request that was accepted is answered, also when the survey loses its end.
RequestAnswered == \A r \in Req : pc[r] = "waiting" ~> pc[r] = "done"

----------------------------------------------------------------------------
\* The inductive invariant behind QuietWhenDown and FlagEnds.

\* The request noted in scan_request is the one that waits, and no call holds
\* rtnl between its check and its start while the interface goes down.
OneRequest ==
  \A r \in Req :
    /\ pc[r] = "waiting" <=> req = r
    /\ pc[r] = "checked" <=> rtnl = r
    /\ pc[r] = "checked" => req = NoReq /\ ctl = "up" /\ pm = "on"

\* A callback that cleared the flag answers the request it finds.
Answering == toRun = "cleared" \/ th \in {"cancel", "join", "indicate"}

RequestEnds == req # NoReq => flag \/ Answering

Asleep ==
  /\ pm \in {"indicated", "suspended"} => req = NoReq
  /\ pm = "unload" /\ req # NoReq => Answering

\* Without a failed allocation a scan has its survey; if no other scan's end
\* took it away, and no suspend, it has its timeout.
HasSurvey == (flag /\ running /\ ooms = 0) => SurveyGoesOn

HasTimeout ==
  (flag /\ running /\ ~stolen) =>
    toArmed \/ toRun = "expired" \/ pm \in {"cancelled", "indicated"}

Closed == ctl = "closed" => req = NoReq \/ unplugged

IInv ==
  /\ TypeOK /\ OneRequest /\ RequestEnds /\ Asleep /\ Closed
  /\ HasSurvey /\ HasTimeout
  /\ th # "idle" => running
  /\ scan = "process" => idx < Channels
=============================================================================
