--------------------------- MODULE SiteSurveyProofs ---------------------------
(***************************************************************************)
(* Theorems about SiteSurvey, for any requests and any number of channels, *)
(* scans, closings, suspends and failed allocations.                       *)
(***************************************************************************)
EXTENDS SiteSurvey, TLAPS

\* The queue holds surveys and ends of surveys.
LEMMA QueueTypes ==
  ASSUME NEW q \in Seq({"survey", "done"})
  PROVE  /\ <<>> \in Seq({"survey", "done"})
         /\ Append(q, "survey") \in Seq({"survey", "done"})
         /\ q # <<>> => /\ Tail(q) \in Seq({"survey", "done"})
                        /\ Append(Tail(q), "done") \in Seq({"survey", "done"})
<1>1. Append(q, "survey") \in Seq({"survey", "done"}) OBVIOUS
<1>2. ASSUME q # <<>> PROVE Tail(q) \in Seq({"survey", "done"}) BY <1>2
<1>3. ASSUME NEW t \in Seq({"survey", "done"})
      PROVE  Append(t, "done") \in Seq({"survey", "done"})
  OBVIOUS
<1> QED BY <1>1, <1>2, <1>3

\* What is appended to is not empty.
LEMMA AppendNotEmpty ==
  ASSUME NEW S, NEW q \in Seq(S), NEW x \in S
  PROVE  Append(q, x) # <<>>
<1>1. Len(Append(q, x)) = Len(q) + 1 /\ Len(q) \in Nat OBVIOUS
<1>2. Len(<<>>) = 0 OBVIOUS
<1> QED BY <1>1, <1>2

\* A scan that is started has its survey.
LEMMA StartHasSurvey ==
  ASSUME NEW ok \in BOOLEAN, SitesurveyCmd(ok), HasSurvey,
         Append(queue, "survey") # <<>>, ooms \in Nat,
         running' = running, surveyTimer' = surveyTimer, scan' = scan
  PROVE  HasSurvey'
<1>1. CASE ok /\ running
  BY <1>1 DEF SitesurveyCmd, HasSurvey, SurveyGoesOn
<1>2. CASE ~ok
  <2>1. ooms' = ooms + 1 BY <1>2 DEF SitesurveyCmd, Allocate
  <2> QED BY <2>1 DEF HasSurvey
<1>3. CASE ~running
  BY <1>3 DEF HasSurvey
<1> QED BY <1>1, <1>2, <1>3

LEMMA InvInit == Init => IInv
<1> SUFFICES ASSUME Init PROVE IInv
  OBVIOUS
<1>a. NoReq \notin Req /\ "free" \notin Req /\ "close" \notin Req
  BY SurveyAssumption DEF NoReq
<1>b. Channels \in Nat /\ Channels > 0 BY SurveyAssumption
<1>1. /\ pc \in [Req -> {"idle", "checked", "waiting", "done"}]
      /\ queue \in Seq({"survey", "done"}) /\ idx \in 0..Channels
  BY <1>b DEF Init
<1>3. TypeOK BY <1>1 DEF Init, TypeOK
<1>2. OneRequest BY <1>a DEF Init, OneRequest, NoReq
<1> QED BY <1>2, <1>3 DEF Init, IInv, RequestEnds, Asleep, Closed, HasSurvey, HasTimeout

LEMMA InvNext == IInv /\ [Next]_vars => IInv'
<1> SUFFICES ASSUME IInv, [Next]_vars PROVE IInv'
  OBVIOUS
<1>a. NoReq \notin Req /\ "free" \notin Req /\ "close" \notin Req
  BY SurveyAssumption DEF NoReq
<1>b. Channels \in Nat /\ Channels > 0 BY SurveyAssumption
<1>c. /\ TypeOK /\ OneRequest /\ RequestEnds /\ Asleep /\ Closed
      /\ HasSurvey /\ HasTimeout
      /\ th # "idle" => running
      /\ scan = "process" => idx < Channels
  BY DEF IInv
<1>d. owns \in Nat /\ closes \in Nat /\ sleeps \in Nat /\ ooms \in Nat
  BY <1>c DEF TypeOK
<1>e. owns + 1 \in Nat /\ closes + 1 \in Nat /\ sleeps + 1 \in Nat /\ ooms + 1 \in Nat
  BY <1>d
<1>f. /\ flag \in BOOLEAN /\ abort \in BOOLEAN /\ running \in BOOLEAN
      /\ surveyTimer \in BOOLEAN /\ toArmed \in BOOLEAN /\ unplugged \in BOOLEAN
      /\ stolen \in BOOLEAN
  BY <1>c DEF TypeOK
<1>g. /\ ctl \in {"up", "abort", "indicate", "drain", "closed"}
      /\ scan \in {"disable", "process"}
      /\ th \in {"idle", "own scan", "cancel", "join", "indicate"}
      /\ toRun \in {"no", "expired", "cleared"}
      /\ pm \in {"on", "cancelled", "indicated", "unload", "suspended"}
  BY <1>c DEF TypeOK
<1>h. /\ Append(queue, "survey") # <<>>
      /\ queue # <<>> => Append(Tail(queue), "done") # <<>>
  <2>1. queue \in Seq({"survey", "done"}) BY <1>c DEF TypeOK
  <2> QED BY <2>1, QueueTypes, AppendNotEmpty
<1> USE DEF caller, survey, thread, timers, world
<1>1. ASSUME NEW r \in Req, Check(r) PROVE IInv'
  <2>a. queue' \in Seq({"survey", "done"})
    BY <1>c, <1>1, QueueTypes DEF Check, TypeOK
  <2>b. /\ pc' \in [Req -> {"idle", "checked", "waiting", "done"}]
        /\ req' \in Req \union {NoReq} /\ rtnl' \in Req \union {"free", "close"}
    BY <1>c, <1>1 DEF Check, TypeOK
  <2>c. owns' \in Nat /\ closes' \in Nat /\ sleeps' \in Nat /\ ooms' \in Nat
    BY <1>d, <1>e, <1>1 DEF Check
  <2>d. idx' \in 0..Channels BY <1>b, <1>c, <1>1 DEF Check, TypeOK
  <2>e. /\ flag' \in BOOLEAN /\ abort' \in BOOLEAN /\ running' \in BOOLEAN
        /\ surveyTimer' \in BOOLEAN /\ toArmed' \in BOOLEAN /\ unplugged' \in BOOLEAN
        /\ stolen' \in BOOLEAN
    BY <1>f, <1>1 DEF Check
  <2>f. /\ ctl' \in {"up", "abort", "indicate", "drain", "closed"}
        /\ scan' \in {"disable", "process"}
        /\ th' \in {"idle", "own scan", "cancel", "join", "indicate"}
        /\ toRun' \in {"no", "expired", "cleared"}
        /\ pm' \in {"on", "cancelled", "indicated", "unload", "suspended"}
    BY <1>g, <1>1 DEF Check
  <2>1. TypeOK' BY <2>a, <2>b, <2>c, <2>d, <2>e, <2>f DEF TypeOK
  <2>2. OneRequest'
    <3>1. req # r /\ rtnl # r /\ req' = req
      BY <1>c, <1>1 DEF Check, OneRequest
    <3>2. ASSUME flag PROVE OneRequest'
      <4>1. pc' = [pc EXCEPT ![r] = "done"] /\ rtnl' = rtnl /\ ctl' = ctl /\ pm' = pm
        BY <1>1, <3>2 DEF Check
      <4> QED BY <1>c, <1>1, <3>1, <4>1 DEF TypeOK, OneRequest
    <3>3. ASSUME ~flag PROVE OneRequest'
      <4>1. /\ pc' = [pc EXCEPT ![r] = "checked"] /\ rtnl' = r
            /\ ctl' = "up" /\ pm' = "on" /\ rtnl = "free"
        BY <1>1, <3>3 DEF Check
      <4>2. req' = NoReq BY <1>c, <1>1, <3>1 DEF Check, TypeOK, OneRequest
      <4>3. \A q \in Req : pc[q] # "checked" BY <1>a, <1>c, <4>1 DEF OneRequest
      <4>4. \A q \in Req : pc'[q] = IF q = r THEN "checked" ELSE pc[q]
        BY <1>c, <4>1 DEF TypeOK
      <4>5. \A q \in Req : pc[q] # "waiting" BY <1>1 DEF Check
      <4> QED BY <1>a, <4>1, <4>2, <4>3, <4>4, <4>5 DEF OneRequest
    <3> QED BY <3>2, <3>3
  <2>3. RequestEnds' /\ Asleep' /\ Closed'
    BY <1>a, <1>c, <1>1 DEF Check, TypeOK, OneRequest, RequestEnds, Answering, Asleep, Closed
  <2>4. (th # "idle" => running)' /\ (scan = "process" => idx < Channels)'
    BY <1>b, <1>c, <1>1 DEF Check, TypeOK
  <2>5. HasSurvey'
    BY <1>c, <1>d, <1>h, <1>1 DEF Check, HasSurvey, SurveyGoesOn
  <2>6. HasTimeout' BY <1>c, <1>1 DEF Check, HasTimeout
  <2> QED BY <2>1, <2>2, <2>3, <2>4, <2>5, <2>6 DEF IInv
<1>2. ASSUME NEW r \in Req, Accept(r) PROVE IInv'
  <2>a. queue' \in Seq({"survey", "done"})
    BY <1>c, <1>2, QueueTypes DEF Accept, TypeOK, SitesurveyCmd, Allocate
  <2>b. /\ pc' \in [Req -> {"idle", "checked", "waiting", "done"}]
        /\ req' \in Req \union {NoReq} /\ rtnl' \in Req \union {"free", "close"}
    BY <1>c, <1>2 DEF Accept, TypeOK, SitesurveyCmd, Allocate
  <2>c. owns' \in Nat /\ closes' \in Nat /\ sleeps' \in Nat /\ ooms' \in Nat
    BY <1>d, <1>e, <1>2 DEF Accept, SitesurveyCmd, Allocate
  <2>d. idx' \in 0..Channels BY <1>b, <1>c, <1>2 DEF Accept, TypeOK, SitesurveyCmd, Allocate
  <2>e. /\ flag' \in BOOLEAN /\ abort' \in BOOLEAN /\ running' \in BOOLEAN
        /\ surveyTimer' \in BOOLEAN /\ toArmed' \in BOOLEAN /\ unplugged' \in BOOLEAN
        /\ stolen' \in BOOLEAN
    BY <1>f, <1>2 DEF Accept, SitesurveyCmd, Allocate
  <2>f. /\ ctl' \in {"up", "abort", "indicate", "drain", "closed"}
        /\ scan' \in {"disable", "process"}
        /\ th' \in {"idle", "own scan", "cancel", "join", "indicate"}
        /\ toRun' \in {"no", "expired", "cleared"}
        /\ pm' \in {"on", "cancelled", "indicated", "unload", "suspended"}
    BY <1>g, <1>2 DEF Accept, SitesurveyCmd, Allocate
  <2>1. TypeOK' BY <2>a, <2>b, <2>c, <2>d, <2>e, <2>f DEF TypeOK
  <2>2. OneRequest' BY ZenonT(60), <1>a, <1>c, <1>2 DEF Accept, TypeOK, OneRequest, SitesurveyCmd, Allocate
  <2>3. RequestEnds' /\ Asleep' /\ Closed'
    BY <1>a, <1>c, <1>2 DEF Accept, TypeOK, OneRequest, RequestEnds, Answering, Asleep, Closed, SitesurveyCmd, Allocate
  <2>4. (th # "idle" => running)' /\ (scan = "process" => idx < Channels)'
    BY <1>b, <1>c, <1>2 DEF Accept, TypeOK, SitesurveyCmd, Allocate
  <2>5. HasSurvey'
    BY <1>c, <1>d, <1>h, <1>2, StartHasSurvey DEF Accept
  <2>6. HasTimeout' BY <1>c, <1>2 DEF Accept, HasTimeout, SitesurveyCmd, Allocate
  <2> QED BY <2>1, <2>2, <2>3, <2>4, <2>5, <2>6 DEF IInv
<1>3. ASSUME OwnCheck PROVE IInv'
  <2>a. queue' \in Seq({"survey", "done"})
    BY <1>c, <1>3, QueueTypes DEF OwnCheck, TypeOK
  <2>b. /\ pc' \in [Req -> {"idle", "checked", "waiting", "done"}]
        /\ req' \in Req \union {NoReq} /\ rtnl' \in Req \union {"free", "close"}
    BY <1>c, <1>3 DEF OwnCheck, TypeOK
  <2>c. owns' \in Nat /\ closes' \in Nat /\ sleeps' \in Nat /\ ooms' \in Nat
    BY <1>d, <1>e, <1>3 DEF OwnCheck
  <2>d. idx' \in 0..Channels BY <1>b, <1>c, <1>3 DEF OwnCheck, TypeOK
  <2>e. /\ flag' \in BOOLEAN /\ abort' \in BOOLEAN /\ running' \in BOOLEAN
        /\ surveyTimer' \in BOOLEAN /\ toArmed' \in BOOLEAN /\ unplugged' \in BOOLEAN
        /\ stolen' \in BOOLEAN
    BY <1>f, <1>3 DEF OwnCheck
  <2>f. /\ ctl' \in {"up", "abort", "indicate", "drain", "closed"}
        /\ scan' \in {"disable", "process"}
        /\ th' \in {"idle", "own scan", "cancel", "join", "indicate"}
        /\ toRun' \in {"no", "expired", "cleared"}
        /\ pm' \in {"on", "cancelled", "indicated", "unload", "suspended"}
    BY <1>g, <1>3 DEF OwnCheck
  <2>1. TypeOK' BY <2>a, <2>b, <2>c, <2>d, <2>e, <2>f DEF TypeOK
  <2>2. OneRequest' BY <1>a, <1>c, <1>3 DEF OwnCheck, TypeOK, OneRequest
  <2>3. RequestEnds' /\ Asleep' /\ Closed'
    BY <1>a, <1>c, <1>3 DEF OwnCheck, TypeOK, OneRequest, RequestEnds, Answering, Asleep, Closed
  <2>4. (th # "idle" => running)' /\ (scan = "process" => idx < Channels)'
    BY <1>b, <1>c, <1>3 DEF OwnCheck, TypeOK
  <2>5. HasSurvey'
    BY <1>c, <1>d, <1>h, <1>3 DEF OwnCheck, HasSurvey, SurveyGoesOn
  <2>6. HasTimeout' BY <1>c, <1>3 DEF OwnCheck, HasTimeout
  <2> QED BY <2>1, <2>2, <2>3, <2>4, <2>5, <2>6 DEF IInv
<1>4. ASSUME OwnStart PROVE IInv'
  <2>a. queue' \in Seq({"survey", "done"})
    BY <1>c, <1>4, QueueTypes DEF OwnStart, TypeOK, SitesurveyCmd, Allocate
  <2>b. /\ pc' \in [Req -> {"idle", "checked", "waiting", "done"}]
        /\ req' \in Req \union {NoReq} /\ rtnl' \in Req \union {"free", "close"}
    BY <1>c, <1>4 DEF OwnStart, TypeOK, SitesurveyCmd, Allocate
  <2>c. owns' \in Nat /\ closes' \in Nat /\ sleeps' \in Nat /\ ooms' \in Nat
    BY <1>d, <1>e, <1>4 DEF OwnStart, SitesurveyCmd, Allocate
  <2>d. idx' \in 0..Channels BY <1>b, <1>c, <1>4 DEF OwnStart, TypeOK, SitesurveyCmd, Allocate
  <2>e. /\ flag' \in BOOLEAN /\ abort' \in BOOLEAN /\ running' \in BOOLEAN
        /\ surveyTimer' \in BOOLEAN /\ toArmed' \in BOOLEAN /\ unplugged' \in BOOLEAN
        /\ stolen' \in BOOLEAN
    BY <1>f, <1>4 DEF OwnStart, SitesurveyCmd, Allocate
  <2>f. /\ ctl' \in {"up", "abort", "indicate", "drain", "closed"}
        /\ scan' \in {"disable", "process"}
        /\ th' \in {"idle", "own scan", "cancel", "join", "indicate"}
        /\ toRun' \in {"no", "expired", "cleared"}
        /\ pm' \in {"on", "cancelled", "indicated", "unload", "suspended"}
    BY <1>g, <1>4 DEF OwnStart, SitesurveyCmd, Allocate
  <2>1. TypeOK' BY <2>a, <2>b, <2>c, <2>d, <2>e, <2>f DEF TypeOK
  <2>2. OneRequest' BY <1>a, <1>c, <1>4 DEF OwnStart, TypeOK, OneRequest, SitesurveyCmd, Allocate
  <2>3. RequestEnds' /\ Asleep' /\ Closed'
    BY <1>a, <1>c, <1>4 DEF OwnStart, TypeOK, OneRequest, RequestEnds, Answering, Asleep, Closed, SitesurveyCmd, Allocate
  <2>4. (th # "idle" => running)' /\ (scan = "process" => idx < Channels)'
    BY <1>b, <1>c, <1>4 DEF OwnStart, TypeOK, SitesurveyCmd, Allocate
  <2>5. HasSurvey'
    BY <1>c, <1>d, <1>h, <1>4, StartHasSurvey DEF OwnStart
  <2>6. HasTimeout' BY <1>c, <1>4 DEF OwnStart, HasTimeout, SitesurveyCmd, Allocate
  <2> QED BY <2>1, <2>2, <2>3, <2>4, <2>5, <2>6 DEF IInv
<1>5. ASSUME Survey PROVE IInv'
  <2>a. queue' \in Seq({"survey", "done"})
    BY <1>c, <1>5, QueueTypes DEF Survey, TypeOK, Allocate, NextIdx
  <2>b. /\ pc' \in [Req -> {"idle", "checked", "waiting", "done"}]
        /\ req' \in Req \union {NoReq} /\ rtnl' \in Req \union {"free", "close"}
    BY <1>c, <1>5 DEF Survey, TypeOK, Allocate, NextIdx
  <2>c. owns' \in Nat /\ closes' \in Nat /\ sleeps' \in Nat /\ ooms' \in Nat
    BY <1>d, <1>e, <1>5 DEF Survey, Allocate, NextIdx
  <2>d. idx' \in 0..Channels BY <1>b, <1>c, <1>5 DEF Survey, TypeOK, Allocate, NextIdx
  <2>e. /\ flag' \in BOOLEAN /\ abort' \in BOOLEAN /\ running' \in BOOLEAN
        /\ surveyTimer' \in BOOLEAN /\ toArmed' \in BOOLEAN /\ unplugged' \in BOOLEAN
        /\ stolen' \in BOOLEAN
    BY <1>f, <1>5 DEF Survey, Allocate, NextIdx
  <2>f. /\ ctl' \in {"up", "abort", "indicate", "drain", "closed"}
        /\ scan' \in {"disable", "process"}
        /\ th' \in {"idle", "own scan", "cancel", "join", "indicate"}
        /\ toRun' \in {"no", "expired", "cleared"}
        /\ pm' \in {"on", "cancelled", "indicated", "unload", "suspended"}
    BY <1>g, <1>5 DEF Survey, Allocate, NextIdx
  <2>1. TypeOK' BY <2>a, <2>b, <2>c, <2>d, <2>e, <2>f DEF TypeOK
  <2>2. OneRequest' BY <1>a, <1>c, <1>5 DEF Survey, TypeOK, OneRequest, Allocate, NextIdx
  <2>3. RequestEnds' /\ Asleep' /\ Closed'
    BY <1>a, <1>c, <1>5 DEF Survey, TypeOK, OneRequest, RequestEnds, Answering, Asleep, Closed, Allocate, NextIdx
  <2>4. (th # "idle" => running)' /\ (scan = "process" => idx < Channels)'
    BY <1>b, <1>c, <1>5 DEF Survey, TypeOK, Allocate, NextIdx
  <2>5. HasSurvey'
    BY <1>c, <1>d, <1>h, <1>5 DEF Survey, HasSurvey, SurveyGoesOn, Allocate, NextIdx
  <2>6. HasTimeout' BY <1>c, <1>5 DEF Survey, HasTimeout, Allocate, NextIdx
  <2> QED BY <2>1, <2>2, <2>3, <2>4, <2>5, <2>6 DEF IInv
<1>6. ASSUME SurveyDone PROVE IInv'
  <2>a. queue' \in Seq({"survey", "done"})
    BY <1>c, <1>6, QueueTypes DEF SurveyDone, TypeOK
  <2>b. /\ pc' \in [Req -> {"idle", "checked", "waiting", "done"}]
        /\ req' \in Req \union {NoReq} /\ rtnl' \in Req \union {"free", "close"}
    BY <1>c, <1>6 DEF SurveyDone, TypeOK
  <2>c. owns' \in Nat /\ closes' \in Nat /\ sleeps' \in Nat /\ ooms' \in Nat
    BY <1>d, <1>e, <1>6 DEF SurveyDone
  <2>d. idx' \in 0..Channels BY <1>b, <1>c, <1>6 DEF SurveyDone, TypeOK
  <2>e. /\ flag' \in BOOLEAN /\ abort' \in BOOLEAN /\ running' \in BOOLEAN
        /\ surveyTimer' \in BOOLEAN /\ toArmed' \in BOOLEAN /\ unplugged' \in BOOLEAN
        /\ stolen' \in BOOLEAN
    BY <1>f, <1>6 DEF SurveyDone
  <2>f. /\ ctl' \in {"up", "abort", "indicate", "drain", "closed"}
        /\ scan' \in {"disable", "process"}
        /\ th' \in {"idle", "own scan", "cancel", "join", "indicate"}
        /\ toRun' \in {"no", "expired", "cleared"}
        /\ pm' \in {"on", "cancelled", "indicated", "unload", "suspended"}
    BY <1>g, <1>6 DEF SurveyDone
  <2>1. TypeOK' BY <2>a, <2>b, <2>c, <2>d, <2>e, <2>f DEF TypeOK
  <2>2. OneRequest' BY <1>a, <1>c, <1>6 DEF SurveyDone, TypeOK, OneRequest
  <2>3. RequestEnds' /\ Asleep' /\ Closed'
    BY <1>a, <1>c, <1>6 DEF SurveyDone, TypeOK, OneRequest, RequestEnds, Answering, Asleep, Closed
  <2>4. (th # "idle" => running)' /\ (scan = "process" => idx < Channels)'
    BY <1>b, <1>c, <1>6 DEF SurveyDone, TypeOK
  <2>5. HasSurvey'
    BY <1>c, <1>d, <1>h, <1>6 DEF SurveyDone, HasSurvey, SurveyGoesOn
  <2>6. HasTimeout' BY <1>c, <1>6 DEF SurveyDone, HasTimeout
  <2> QED BY <2>1, <2>2, <2>3, <2>4, <2>5, <2>6 DEF IInv
<1>7. ASSUME SurveyDoneCancels PROVE IInv'
  <2>a. queue' \in Seq({"survey", "done"})
    BY <1>c, <1>7, QueueTypes DEF SurveyDoneCancels, TypeOK
  <2>b. /\ pc' \in [Req -> {"idle", "checked", "waiting", "done"}]
        /\ req' \in Req \union {NoReq} /\ rtnl' \in Req \union {"free", "close"}
    BY <1>c, <1>7 DEF SurveyDoneCancels, TypeOK
  <2>c. owns' \in Nat /\ closes' \in Nat /\ sleeps' \in Nat /\ ooms' \in Nat
    BY <1>d, <1>e, <1>7 DEF SurveyDoneCancels
  <2>d. idx' \in 0..Channels BY <1>b, <1>c, <1>7 DEF SurveyDoneCancels, TypeOK
  <2>e. /\ flag' \in BOOLEAN /\ abort' \in BOOLEAN /\ running' \in BOOLEAN
        /\ surveyTimer' \in BOOLEAN /\ toArmed' \in BOOLEAN /\ unplugged' \in BOOLEAN
        /\ stolen' \in BOOLEAN
    BY <1>f, <1>7 DEF SurveyDoneCancels
  <2>f. /\ ctl' \in {"up", "abort", "indicate", "drain", "closed"}
        /\ scan' \in {"disable", "process"}
        /\ th' \in {"idle", "own scan", "cancel", "join", "indicate"}
        /\ toRun' \in {"no", "expired", "cleared"}
        /\ pm' \in {"on", "cancelled", "indicated", "unload", "suspended"}
    BY <1>g, <1>7 DEF SurveyDoneCancels
  <2>1. TypeOK' BY <2>a, <2>b, <2>c, <2>d, <2>e, <2>f DEF TypeOK
  <2>2. OneRequest' BY <1>a, <1>c, <1>7 DEF SurveyDoneCancels, TypeOK, OneRequest
  <2>3. RequestEnds' /\ Asleep' /\ Closed'
    BY <1>a, <1>c, <1>7 DEF SurveyDoneCancels, TypeOK, OneRequest, RequestEnds, Answering, Asleep, Closed
  <2>4. (th # "idle" => running)' /\ (scan = "process" => idx < Channels)'
    BY <1>b, <1>c, <1>7 DEF SurveyDoneCancels, TypeOK
  <2>5. HasSurvey'
    BY <1>c, <1>d, <1>h, <1>7 DEF SurveyDoneCancels, HasSurvey, SurveyGoesOn
  <2>6. HasTimeout' BY <1>c, <1>7 DEF SurveyDoneCancels, HasTimeout
  <2> QED BY <2>1, <2>2, <2>3, <2>4, <2>5, <2>6 DEF IInv
<1>8. ASSUME SurveyDoneJoins PROVE IInv'
  <2>a. queue' \in Seq({"survey", "done"})
    BY <1>c, <1>8, QueueTypes DEF SurveyDoneJoins, TypeOK, SitesurveyCmd, Allocate
  <2>b. /\ pc' \in [Req -> {"idle", "checked", "waiting", "done"}]
        /\ req' \in Req \union {NoReq} /\ rtnl' \in Req \union {"free", "close"}
    BY <1>c, <1>8 DEF SurveyDoneJoins, TypeOK, SitesurveyCmd, Allocate
  <2>c. owns' \in Nat /\ closes' \in Nat /\ sleeps' \in Nat /\ ooms' \in Nat
    BY <1>d, <1>e, <1>8 DEF SurveyDoneJoins, SitesurveyCmd, Allocate
  <2>d. idx' \in 0..Channels BY <1>b, <1>c, <1>8 DEF SurveyDoneJoins, TypeOK, SitesurveyCmd, Allocate
  <2>e. /\ flag' \in BOOLEAN /\ abort' \in BOOLEAN /\ running' \in BOOLEAN
        /\ surveyTimer' \in BOOLEAN /\ toArmed' \in BOOLEAN /\ unplugged' \in BOOLEAN
        /\ stolen' \in BOOLEAN
    BY <1>f, <1>8 DEF SurveyDoneJoins, SitesurveyCmd, Allocate
  <2>f. /\ ctl' \in {"up", "abort", "indicate", "drain", "closed"}
        /\ scan' \in {"disable", "process"}
        /\ th' \in {"idle", "own scan", "cancel", "join", "indicate"}
        /\ toRun' \in {"no", "expired", "cleared"}
        /\ pm' \in {"on", "cancelled", "indicated", "unload", "suspended"}
    BY <1>g, <1>8 DEF SurveyDoneJoins, SitesurveyCmd, Allocate
  <2>1. TypeOK' BY <2>a, <2>b, <2>c, <2>d, <2>e, <2>f DEF TypeOK
  <2>2. OneRequest' BY <1>a, <1>c, <1>8 DEF SurveyDoneJoins, TypeOK, OneRequest, SitesurveyCmd, Allocate
  <2>3. RequestEnds' /\ Asleep' /\ Closed'
    BY <1>a, <1>c, <1>8 DEF SurveyDoneJoins, TypeOK, OneRequest, RequestEnds, Answering, Asleep, Closed, SitesurveyCmd, Allocate
  <2>4. (th # "idle" => running)' /\ (scan = "process" => idx < Channels)'
    BY <1>b, <1>c, <1>8 DEF SurveyDoneJoins, TypeOK, SitesurveyCmd, Allocate
  <2>5. HasSurvey'
    BY <1>c, <1>d, <1>h, <1>8 DEF SurveyDoneJoins, HasSurvey, SurveyGoesOn, SitesurveyCmd, Allocate
  <2>6. HasTimeout' BY <1>c, <1>8 DEF SurveyDoneJoins, HasTimeout, SitesurveyCmd, Allocate
  <2> QED BY <2>1, <2>2, <2>3, <2>4, <2>5, <2>6 DEF IInv
<1>9. ASSUME SurveyDoneIndicates PROVE IInv'
  <2>a. queue' \in Seq({"survey", "done"})
    BY <1>c, <1>9, QueueTypes DEF SurveyDoneIndicates, TypeOK, IndicateScanDone
  <2>b. /\ pc' \in [Req -> {"idle", "checked", "waiting", "done"}]
        /\ req' \in Req \union {NoReq} /\ rtnl' \in Req \union {"free", "close"}
    BY <1>c, <1>9 DEF SurveyDoneIndicates, TypeOK, IndicateScanDone
  <2>c. owns' \in Nat /\ closes' \in Nat /\ sleeps' \in Nat /\ ooms' \in Nat
    BY <1>d, <1>e, <1>9 DEF SurveyDoneIndicates, IndicateScanDone
  <2>d. idx' \in 0..Channels BY <1>b, <1>c, <1>9 DEF SurveyDoneIndicates, TypeOK, IndicateScanDone
  <2>e. /\ flag' \in BOOLEAN /\ abort' \in BOOLEAN /\ running' \in BOOLEAN
        /\ surveyTimer' \in BOOLEAN /\ toArmed' \in BOOLEAN /\ unplugged' \in BOOLEAN
        /\ stolen' \in BOOLEAN
    BY <1>f, <1>9 DEF SurveyDoneIndicates, IndicateScanDone
  <2>f. /\ ctl' \in {"up", "abort", "indicate", "drain", "closed"}
        /\ scan' \in {"disable", "process"}
        /\ th' \in {"idle", "own scan", "cancel", "join", "indicate"}
        /\ toRun' \in {"no", "expired", "cleared"}
        /\ pm' \in {"on", "cancelled", "indicated", "unload", "suspended"}
    BY <1>g, <1>9 DEF SurveyDoneIndicates, IndicateScanDone
  <2>1. TypeOK' BY <2>a, <2>b, <2>c, <2>d, <2>e, <2>f DEF TypeOK
  <2>2. OneRequest' BY <1>a, <1>c, <1>9 DEF SurveyDoneIndicates, TypeOK, OneRequest, IndicateScanDone
  <2>3. RequestEnds' /\ Asleep' /\ Closed'
    BY <1>a, <1>c, <1>9 DEF SurveyDoneIndicates, TypeOK, OneRequest, RequestEnds, Answering, Asleep, Closed, IndicateScanDone
  <2>4. (th # "idle" => running)' /\ (scan = "process" => idx < Channels)'
    BY <1>b, <1>c, <1>9 DEF SurveyDoneIndicates, TypeOK, IndicateScanDone
  <2>5. HasSurvey'
    BY <1>c, <1>d, <1>h, <1>9 DEF SurveyDoneIndicates, HasSurvey, SurveyGoesOn, IndicateScanDone
  <2>6. HasTimeout' BY <1>c, <1>9 DEF SurveyDoneIndicates, HasTimeout, IndicateScanDone
  <2> QED BY <2>1, <2>2, <2>3, <2>4, <2>5, <2>6 DEF IInv
<1>10. ASSUME ThreadExits PROVE IInv'
  <2>a. queue' \in Seq({"survey", "done"})
    BY <1>c, <1>10, QueueTypes DEF ThreadExits, TypeOK
  <2>b. /\ pc' \in [Req -> {"idle", "checked", "waiting", "done"}]
        /\ req' \in Req \union {NoReq} /\ rtnl' \in Req \union {"free", "close"}
    BY <1>c, <1>10 DEF ThreadExits, TypeOK
  <2>c. owns' \in Nat /\ closes' \in Nat /\ sleeps' \in Nat /\ ooms' \in Nat
    BY <1>d, <1>e, <1>10 DEF ThreadExits
  <2>d. idx' \in 0..Channels BY <1>b, <1>c, <1>10 DEF ThreadExits, TypeOK
  <2>e. /\ flag' \in BOOLEAN /\ abort' \in BOOLEAN /\ running' \in BOOLEAN
        /\ surveyTimer' \in BOOLEAN /\ toArmed' \in BOOLEAN /\ unplugged' \in BOOLEAN
        /\ stolen' \in BOOLEAN
    BY <1>f, <1>10 DEF ThreadExits
  <2>f. /\ ctl' \in {"up", "abort", "indicate", "drain", "closed"}
        /\ scan' \in {"disable", "process"}
        /\ th' \in {"idle", "own scan", "cancel", "join", "indicate"}
        /\ toRun' \in {"no", "expired", "cleared"}
        /\ pm' \in {"on", "cancelled", "indicated", "unload", "suspended"}
    BY <1>g, <1>10 DEF ThreadExits
  <2>1. TypeOK' BY <2>a, <2>b, <2>c, <2>d, <2>e, <2>f DEF TypeOK
  <2>2. OneRequest' BY <1>a, <1>c, <1>10 DEF ThreadExits, TypeOK, OneRequest
  <2>3. RequestEnds' /\ Asleep' /\ Closed'
    BY <1>a, <1>c, <1>10 DEF ThreadExits, TypeOK, OneRequest, RequestEnds, Answering, Asleep, Closed
  <2>4. (th # "idle" => running)' /\ (scan = "process" => idx < Channels)'
    BY <1>b, <1>c, <1>10 DEF ThreadExits, TypeOK
  <2>5. HasSurvey'
    BY <1>c, <1>d, <1>h, <1>10 DEF ThreadExits, HasSurvey, SurveyGoesOn
  <2>6. HasTimeout' BY <1>c, <1>10 DEF ThreadExits, HasTimeout
  <2> QED BY <2>1, <2>2, <2>3, <2>4, <2>5, <2>6 DEF IInv
<1>11. ASSUME SurveyTimerFires PROVE IInv'
  <2>a. queue' \in Seq({"survey", "done"})
    BY <1>c, <1>11, QueueTypes DEF SurveyTimerFires, TypeOK, Allocate
  <2>b. /\ pc' \in [Req -> {"idle", "checked", "waiting", "done"}]
        /\ req' \in Req \union {NoReq} /\ rtnl' \in Req \union {"free", "close"}
    BY <1>c, <1>11 DEF SurveyTimerFires, TypeOK, Allocate
  <2>c. owns' \in Nat /\ closes' \in Nat /\ sleeps' \in Nat /\ ooms' \in Nat
    BY <1>d, <1>e, <1>11 DEF SurveyTimerFires, Allocate
  <2>d. idx' \in 0..Channels BY <1>b, <1>c, <1>11 DEF SurveyTimerFires, TypeOK, Allocate
  <2>e. /\ flag' \in BOOLEAN /\ abort' \in BOOLEAN /\ running' \in BOOLEAN
        /\ surveyTimer' \in BOOLEAN /\ toArmed' \in BOOLEAN /\ unplugged' \in BOOLEAN
        /\ stolen' \in BOOLEAN
    BY <1>f, <1>11 DEF SurveyTimerFires, Allocate
  <2>f. /\ ctl' \in {"up", "abort", "indicate", "drain", "closed"}
        /\ scan' \in {"disable", "process"}
        /\ th' \in {"idle", "own scan", "cancel", "join", "indicate"}
        /\ toRun' \in {"no", "expired", "cleared"}
        /\ pm' \in {"on", "cancelled", "indicated", "unload", "suspended"}
    BY <1>g, <1>11 DEF SurveyTimerFires, Allocate
  <2>1. TypeOK' BY <2>a, <2>b, <2>c, <2>d, <2>e, <2>f DEF TypeOK
  <2>2. OneRequest' BY <1>a, <1>c, <1>11 DEF SurveyTimerFires, TypeOK, OneRequest, Allocate
  <2>3. RequestEnds' /\ Asleep' /\ Closed'
    BY <1>a, <1>c, <1>11 DEF SurveyTimerFires, TypeOK, OneRequest, RequestEnds, Answering, Asleep, Closed, Allocate
  <2>4. (th # "idle" => running)' /\ (scan = "process" => idx < Channels)'
    BY <1>b, <1>c, <1>11 DEF SurveyTimerFires, TypeOK, Allocate
  <2>5. HasSurvey'
    BY <1>c, <1>d, <1>h, <1>11 DEF SurveyTimerFires, HasSurvey, SurveyGoesOn, Allocate
  <2>6. HasTimeout' BY <1>c, <1>11 DEF SurveyTimerFires, HasTimeout, Allocate
  <2> QED BY <2>1, <2>2, <2>3, <2>4, <2>5, <2>6 DEF IInv
<1>12. ASSUME TimeoutExpires PROVE IInv'
  <2>a. queue' \in Seq({"survey", "done"})
    BY <1>c, <1>12, QueueTypes DEF TimeoutExpires, TypeOK
  <2>b. /\ pc' \in [Req -> {"idle", "checked", "waiting", "done"}]
        /\ req' \in Req \union {NoReq} /\ rtnl' \in Req \union {"free", "close"}
    BY <1>c, <1>12 DEF TimeoutExpires, TypeOK
  <2>c. owns' \in Nat /\ closes' \in Nat /\ sleeps' \in Nat /\ ooms' \in Nat
    BY <1>d, <1>e, <1>12 DEF TimeoutExpires
  <2>d. idx' \in 0..Channels BY <1>b, <1>c, <1>12 DEF TimeoutExpires, TypeOK
  <2>e. /\ flag' \in BOOLEAN /\ abort' \in BOOLEAN /\ running' \in BOOLEAN
        /\ surveyTimer' \in BOOLEAN /\ toArmed' \in BOOLEAN /\ unplugged' \in BOOLEAN
        /\ stolen' \in BOOLEAN
    BY <1>f, <1>12 DEF TimeoutExpires
  <2>f. /\ ctl' \in {"up", "abort", "indicate", "drain", "closed"}
        /\ scan' \in {"disable", "process"}
        /\ th' \in {"idle", "own scan", "cancel", "join", "indicate"}
        /\ toRun' \in {"no", "expired", "cleared"}
        /\ pm' \in {"on", "cancelled", "indicated", "unload", "suspended"}
    BY <1>g, <1>12 DEF TimeoutExpires
  <2>1. TypeOK' BY <2>a, <2>b, <2>c, <2>d, <2>e, <2>f DEF TypeOK
  <2>2. OneRequest' BY <1>a, <1>c, <1>12 DEF TimeoutExpires, TypeOK, OneRequest
  <2>3. RequestEnds' /\ Asleep' /\ Closed'
    BY <1>a, <1>c, <1>12 DEF TimeoutExpires, TypeOK, OneRequest, RequestEnds, Answering, Asleep, Closed
  <2>4. (th # "idle" => running)' /\ (scan = "process" => idx < Channels)'
    BY <1>b, <1>c, <1>12 DEF TimeoutExpires, TypeOK
  <2>5. HasSurvey'
    BY <1>c, <1>d, <1>h, <1>12 DEF TimeoutExpires, HasSurvey, SurveyGoesOn
  <2>6. HasTimeout' BY <1>c, <1>12 DEF TimeoutExpires, HasTimeout
  <2> QED BY <2>1, <2>2, <2>3, <2>4, <2>5, <2>6 DEF IInv
<1>13. ASSUME TimeoutClears PROVE IInv'
  <2>a. queue' \in Seq({"survey", "done"})
    BY <1>c, <1>13, QueueTypes DEF TimeoutClears, TypeOK
  <2>b. /\ pc' \in [Req -> {"idle", "checked", "waiting", "done"}]
        /\ req' \in Req \union {NoReq} /\ rtnl' \in Req \union {"free", "close"}
    BY <1>c, <1>13 DEF TimeoutClears, TypeOK
  <2>c. owns' \in Nat /\ closes' \in Nat /\ sleeps' \in Nat /\ ooms' \in Nat
    BY <1>d, <1>e, <1>13 DEF TimeoutClears
  <2>d. idx' \in 0..Channels BY <1>b, <1>c, <1>13 DEF TimeoutClears, TypeOK
  <2>e. /\ flag' \in BOOLEAN /\ abort' \in BOOLEAN /\ running' \in BOOLEAN
        /\ surveyTimer' \in BOOLEAN /\ toArmed' \in BOOLEAN /\ unplugged' \in BOOLEAN
        /\ stolen' \in BOOLEAN
    BY <1>f, <1>13 DEF TimeoutClears
  <2>f. /\ ctl' \in {"up", "abort", "indicate", "drain", "closed"}
        /\ scan' \in {"disable", "process"}
        /\ th' \in {"idle", "own scan", "cancel", "join", "indicate"}
        /\ toRun' \in {"no", "expired", "cleared"}
        /\ pm' \in {"on", "cancelled", "indicated", "unload", "suspended"}
    BY <1>g, <1>13 DEF TimeoutClears
  <2>1. TypeOK' BY <2>a, <2>b, <2>c, <2>d, <2>e, <2>f DEF TypeOK
  <2>2. OneRequest' BY <1>a, <1>c, <1>13 DEF TimeoutClears, TypeOK, OneRequest
  <2>3. RequestEnds' /\ Asleep' /\ Closed'
    BY <1>a, <1>c, <1>13 DEF TimeoutClears, TypeOK, OneRequest, RequestEnds, Answering, Asleep, Closed
  <2>4. (th # "idle" => running)' /\ (scan = "process" => idx < Channels)'
    BY <1>b, <1>c, <1>13 DEF TimeoutClears, TypeOK
  <2>5. HasSurvey'
    BY <1>c, <1>d, <1>h, <1>13 DEF TimeoutClears, HasSurvey, SurveyGoesOn
  <2>6. HasTimeout' BY <1>c, <1>13 DEF TimeoutClears, HasTimeout
  <2> QED BY <2>1, <2>2, <2>3, <2>4, <2>5, <2>6 DEF IInv
<1>14. ASSUME TimeoutIndicates PROVE IInv'
  <2>a. queue' \in Seq({"survey", "done"})
    BY <1>c, <1>14, QueueTypes DEF TimeoutIndicates, TypeOK, IndicateScanDone
  <2>b. /\ pc' \in [Req -> {"idle", "checked", "waiting", "done"}]
        /\ req' \in Req \union {NoReq} /\ rtnl' \in Req \union {"free", "close"}
    BY <1>c, <1>14 DEF TimeoutIndicates, TypeOK, IndicateScanDone
  <2>c. owns' \in Nat /\ closes' \in Nat /\ sleeps' \in Nat /\ ooms' \in Nat
    BY <1>d, <1>e, <1>14 DEF TimeoutIndicates, IndicateScanDone
  <2>d. idx' \in 0..Channels BY <1>b, <1>c, <1>14 DEF TimeoutIndicates, TypeOK, IndicateScanDone
  <2>e. /\ flag' \in BOOLEAN /\ abort' \in BOOLEAN /\ running' \in BOOLEAN
        /\ surveyTimer' \in BOOLEAN /\ toArmed' \in BOOLEAN /\ unplugged' \in BOOLEAN
        /\ stolen' \in BOOLEAN
    BY <1>f, <1>14 DEF TimeoutIndicates, IndicateScanDone
  <2>f. /\ ctl' \in {"up", "abort", "indicate", "drain", "closed"}
        /\ scan' \in {"disable", "process"}
        /\ th' \in {"idle", "own scan", "cancel", "join", "indicate"}
        /\ toRun' \in {"no", "expired", "cleared"}
        /\ pm' \in {"on", "cancelled", "indicated", "unload", "suspended"}
    BY <1>g, <1>14 DEF TimeoutIndicates, IndicateScanDone
  <2>1. TypeOK' BY <2>a, <2>b, <2>c, <2>d, <2>e, <2>f DEF TypeOK
  <2>2. OneRequest' BY <1>a, <1>c, <1>14 DEF TimeoutIndicates, TypeOK, OneRequest, IndicateScanDone
  <2>3. RequestEnds' /\ Asleep' /\ Closed'
    BY <1>a, <1>c, <1>14 DEF TimeoutIndicates, TypeOK, OneRequest, RequestEnds, Answering, Asleep, Closed, IndicateScanDone
  <2>4. (th # "idle" => running)' /\ (scan = "process" => idx < Channels)'
    BY <1>b, <1>c, <1>14 DEF TimeoutIndicates, TypeOK, IndicateScanDone
  <2>5. HasSurvey'
    BY <1>c, <1>d, <1>h, <1>14 DEF TimeoutIndicates, HasSurvey, SurveyGoesOn, IndicateScanDone
  <2>6. HasTimeout' BY <1>c, <1>14 DEF TimeoutIndicates, HasTimeout, IndicateScanDone
  <2> QED BY <2>1, <2>2, <2>3, <2>4, <2>5, <2>6 DEF IInv
<1>15. ASSUME CloseAborts PROVE IInv'
  <2>a. queue' \in Seq({"survey", "done"})
    BY <1>c, <1>15, QueueTypes DEF CloseAborts, TypeOK
  <2>b. /\ pc' \in [Req -> {"idle", "checked", "waiting", "done"}]
        /\ req' \in Req \union {NoReq} /\ rtnl' \in Req \union {"free", "close"}
    BY <1>c, <1>15 DEF CloseAborts, TypeOK
  <2>c. owns' \in Nat /\ closes' \in Nat /\ sleeps' \in Nat /\ ooms' \in Nat
    BY <1>d, <1>e, <1>15 DEF CloseAborts
  <2>d. idx' \in 0..Channels BY <1>b, <1>c, <1>15 DEF CloseAborts, TypeOK
  <2>e. /\ flag' \in BOOLEAN /\ abort' \in BOOLEAN /\ running' \in BOOLEAN
        /\ surveyTimer' \in BOOLEAN /\ toArmed' \in BOOLEAN /\ unplugged' \in BOOLEAN
        /\ stolen' \in BOOLEAN
    BY <1>f, <1>15 DEF CloseAborts
  <2>f. /\ ctl' \in {"up", "abort", "indicate", "drain", "closed"}
        /\ scan' \in {"disable", "process"}
        /\ th' \in {"idle", "own scan", "cancel", "join", "indicate"}
        /\ toRun' \in {"no", "expired", "cleared"}
        /\ pm' \in {"on", "cancelled", "indicated", "unload", "suspended"}
    BY <1>g, <1>15 DEF CloseAborts
  <2>1. TypeOK' BY <2>a, <2>b, <2>c, <2>d, <2>e, <2>f DEF TypeOK
  <2>2. OneRequest' BY <1>a, <1>c, <1>15 DEF CloseAborts, TypeOK, OneRequest
  <2>3. RequestEnds' /\ Asleep' /\ Closed'
    BY <1>a, <1>c, <1>15 DEF CloseAborts, TypeOK, OneRequest, RequestEnds, Answering, Asleep, Closed
  <2>4. (th # "idle" => running)' /\ (scan = "process" => idx < Channels)'
    BY <1>b, <1>c, <1>15 DEF CloseAborts, TypeOK
  <2>5. HasSurvey'
    BY <1>c, <1>d, <1>h, <1>15 DEF CloseAborts, HasSurvey, SurveyGoesOn
  <2>6. HasTimeout' BY <1>c, <1>15 DEF CloseAborts, HasTimeout
  <2> QED BY <2>1, <2>2, <2>3, <2>4, <2>5, <2>6 DEF IInv
<1>16. ASSUME CloseWaited PROVE IInv'
  <2>a. queue' \in Seq({"survey", "done"})
    BY <1>c, <1>16, QueueTypes DEF CloseWaited, TypeOK
  <2>b. /\ pc' \in [Req -> {"idle", "checked", "waiting", "done"}]
        /\ req' \in Req \union {NoReq} /\ rtnl' \in Req \union {"free", "close"}
    BY <1>c, <1>16 DEF CloseWaited, TypeOK
  <2>c. owns' \in Nat /\ closes' \in Nat /\ sleeps' \in Nat /\ ooms' \in Nat
    BY <1>d, <1>e, <1>16 DEF CloseWaited
  <2>d. idx' \in 0..Channels BY <1>b, <1>c, <1>16 DEF CloseWaited, TypeOK
  <2>e. /\ flag' \in BOOLEAN /\ abort' \in BOOLEAN /\ running' \in BOOLEAN
        /\ surveyTimer' \in BOOLEAN /\ toArmed' \in BOOLEAN /\ unplugged' \in BOOLEAN
        /\ stolen' \in BOOLEAN
    BY <1>f, <1>16 DEF CloseWaited
  <2>f. /\ ctl' \in {"up", "abort", "indicate", "drain", "closed"}
        /\ scan' \in {"disable", "process"}
        /\ th' \in {"idle", "own scan", "cancel", "join", "indicate"}
        /\ toRun' \in {"no", "expired", "cleared"}
        /\ pm' \in {"on", "cancelled", "indicated", "unload", "suspended"}
    BY <1>g, <1>16 DEF CloseWaited
  <2>1. TypeOK' BY <2>a, <2>b, <2>c, <2>d, <2>e, <2>f DEF TypeOK
  <2>2. OneRequest' BY <1>a, <1>c, <1>16 DEF CloseWaited, TypeOK, OneRequest
  <2>3. RequestEnds' /\ Asleep' /\ Closed'
    BY <1>a, <1>c, <1>16 DEF CloseWaited, TypeOK, OneRequest, RequestEnds, Answering, Asleep, Closed
  <2>4. (th # "idle" => running)' /\ (scan = "process" => idx < Channels)'
    BY <1>b, <1>c, <1>16 DEF CloseWaited, TypeOK
  <2>5. HasSurvey'
    BY <1>c, <1>d, <1>h, <1>16 DEF CloseWaited, HasSurvey, SurveyGoesOn
  <2>6. HasTimeout' BY <1>c, <1>16 DEF CloseWaited, HasTimeout
  <2> QED BY <2>1, <2>2, <2>3, <2>4, <2>5, <2>6 DEF IInv
<1>17. ASSUME CloseIndicates PROVE IInv'
  <2>a. queue' \in Seq({"survey", "done"})
    BY <1>c, <1>17, QueueTypes DEF CloseIndicates, TypeOK, IndicateScanDone
  <2>b. /\ pc' \in [Req -> {"idle", "checked", "waiting", "done"}]
        /\ req' \in Req \union {NoReq} /\ rtnl' \in Req \union {"free", "close"}
    BY <1>c, <1>17 DEF CloseIndicates, TypeOK, IndicateScanDone
  <2>c. owns' \in Nat /\ closes' \in Nat /\ sleeps' \in Nat /\ ooms' \in Nat
    BY <1>d, <1>e, <1>17 DEF CloseIndicates, IndicateScanDone
  <2>d. idx' \in 0..Channels BY <1>b, <1>c, <1>17 DEF CloseIndicates, TypeOK, IndicateScanDone
  <2>e. /\ flag' \in BOOLEAN /\ abort' \in BOOLEAN /\ running' \in BOOLEAN
        /\ surveyTimer' \in BOOLEAN /\ toArmed' \in BOOLEAN /\ unplugged' \in BOOLEAN
        /\ stolen' \in BOOLEAN
    BY <1>f, <1>17 DEF CloseIndicates, IndicateScanDone
  <2>f. /\ ctl' \in {"up", "abort", "indicate", "drain", "closed"}
        /\ scan' \in {"disable", "process"}
        /\ th' \in {"idle", "own scan", "cancel", "join", "indicate"}
        /\ toRun' \in {"no", "expired", "cleared"}
        /\ pm' \in {"on", "cancelled", "indicated", "unload", "suspended"}
    BY <1>g, <1>17 DEF CloseIndicates, IndicateScanDone
  <2>1. TypeOK' BY <2>a, <2>b, <2>c, <2>d, <2>e, <2>f DEF TypeOK
  <2>2. OneRequest' BY <1>a, <1>c, <1>17 DEF CloseIndicates, TypeOK, OneRequest, IndicateScanDone
  <2>3. RequestEnds' /\ Asleep' /\ Closed'
    BY <1>a, <1>c, <1>17 DEF CloseIndicates, TypeOK, OneRequest, RequestEnds, Answering, Asleep, Closed, IndicateScanDone
  <2>4. (th # "idle" => running)' /\ (scan = "process" => idx < Channels)'
    BY <1>b, <1>c, <1>17 DEF CloseIndicates, TypeOK, IndicateScanDone
  <2>5. HasSurvey'
    BY <1>c, <1>d, <1>h, <1>17 DEF CloseIndicates, HasSurvey, SurveyGoesOn, IndicateScanDone
  <2>6. HasTimeout' BY <1>c, <1>17 DEF CloseIndicates, HasTimeout, IndicateScanDone
  <2> QED BY <2>1, <2>2, <2>3, <2>4, <2>5, <2>6 DEF IInv
<1>18. ASSUME CloseReturns PROVE IInv'
  <2>a. queue' \in Seq({"survey", "done"})
    BY <1>c, <1>18, QueueTypes DEF CloseReturns, TypeOK
  <2>b. /\ pc' \in [Req -> {"idle", "checked", "waiting", "done"}]
        /\ req' \in Req \union {NoReq} /\ rtnl' \in Req \union {"free", "close"}
    BY <1>c, <1>18 DEF CloseReturns, TypeOK
  <2>c. owns' \in Nat /\ closes' \in Nat /\ sleeps' \in Nat /\ ooms' \in Nat
    BY <1>d, <1>e, <1>18 DEF CloseReturns
  <2>d. idx' \in 0..Channels BY <1>b, <1>c, <1>18 DEF CloseReturns, TypeOK
  <2>e. /\ flag' \in BOOLEAN /\ abort' \in BOOLEAN /\ running' \in BOOLEAN
        /\ surveyTimer' \in BOOLEAN /\ toArmed' \in BOOLEAN /\ unplugged' \in BOOLEAN
        /\ stolen' \in BOOLEAN
    BY <1>f, <1>18 DEF CloseReturns
  <2>f. /\ ctl' \in {"up", "abort", "indicate", "drain", "closed"}
        /\ scan' \in {"disable", "process"}
        /\ th' \in {"idle", "own scan", "cancel", "join", "indicate"}
        /\ toRun' \in {"no", "expired", "cleared"}
        /\ pm' \in {"on", "cancelled", "indicated", "unload", "suspended"}
    BY <1>g, <1>18 DEF CloseReturns
  <2>1. TypeOK' BY <2>a, <2>b, <2>c, <2>d, <2>e, <2>f DEF TypeOK
  <2>2. OneRequest' BY <1>a, <1>c, <1>18 DEF CloseReturns, TypeOK, OneRequest
  <2>3. RequestEnds' /\ Asleep' /\ Closed'
    BY <1>a, <1>c, <1>18 DEF CloseReturns, TypeOK, OneRequest, RequestEnds, Answering, Asleep, Closed
  <2>4. (th # "idle" => running)' /\ (scan = "process" => idx < Channels)'
    BY <1>b, <1>c, <1>18 DEF CloseReturns, TypeOK
  <2>5. HasSurvey'
    BY <1>c, <1>d, <1>h, <1>18 DEF CloseReturns, HasSurvey, SurveyGoesOn
  <2>6. HasTimeout' BY <1>c, <1>18 DEF CloseReturns, HasTimeout
  <2> QED BY <2>1, <2>2, <2>3, <2>4, <2>5, <2>6 DEF IInv
<1>19. ASSUME Open PROVE IInv'
  <2>a. queue' \in Seq({"survey", "done"})
    BY <1>c, <1>19, QueueTypes DEF Open, TypeOK
  <2>b. /\ pc' \in [Req -> {"idle", "checked", "waiting", "done"}]
        /\ req' \in Req \union {NoReq} /\ rtnl' \in Req \union {"free", "close"}
    BY <1>c, <1>19 DEF Open, TypeOK
  <2>c. owns' \in Nat /\ closes' \in Nat /\ sleeps' \in Nat /\ ooms' \in Nat
    BY <1>d, <1>e, <1>19 DEF Open
  <2>d. idx' \in 0..Channels BY <1>b, <1>c, <1>19 DEF Open, TypeOK
  <2>e. /\ flag' \in BOOLEAN /\ abort' \in BOOLEAN /\ running' \in BOOLEAN
        /\ surveyTimer' \in BOOLEAN /\ toArmed' \in BOOLEAN /\ unplugged' \in BOOLEAN
        /\ stolen' \in BOOLEAN
    BY <1>f, <1>19 DEF Open
  <2>f. /\ ctl' \in {"up", "abort", "indicate", "drain", "closed"}
        /\ scan' \in {"disable", "process"}
        /\ th' \in {"idle", "own scan", "cancel", "join", "indicate"}
        /\ toRun' \in {"no", "expired", "cleared"}
        /\ pm' \in {"on", "cancelled", "indicated", "unload", "suspended"}
    BY <1>g, <1>19 DEF Open
  <2>1. TypeOK' BY <2>a, <2>b, <2>c, <2>d, <2>e, <2>f DEF TypeOK
  <2>2. OneRequest' BY <1>a, <1>c, <1>19 DEF Open, TypeOK, OneRequest
  <2>3. RequestEnds' /\ Asleep' /\ Closed'
    BY <1>a, <1>c, <1>19 DEF Open, TypeOK, OneRequest, RequestEnds, Answering, Asleep, Closed
  <2>4. (th # "idle" => running)' /\ (scan = "process" => idx < Channels)'
    BY <1>b, <1>c, <1>19 DEF Open, TypeOK
  <2>5. HasSurvey'
    BY <1>c, <1>d, <1>h, <1>19 DEF Open, HasSurvey, SurveyGoesOn
  <2>6. HasTimeout' BY <1>c, <1>19 DEF Open, HasTimeout
  <2> QED BY <2>1, <2>2, <2>3, <2>4, <2>5, <2>6 DEF IInv
<1>20. ASSUME SuspendCancels PROVE IInv'
  <2>a. queue' \in Seq({"survey", "done"})
    BY <1>c, <1>20, QueueTypes DEF SuspendCancels, TypeOK
  <2>b. /\ pc' \in [Req -> {"idle", "checked", "waiting", "done"}]
        /\ req' \in Req \union {NoReq} /\ rtnl' \in Req \union {"free", "close"}
    BY <1>c, <1>20 DEF SuspendCancels, TypeOK
  <2>c. owns' \in Nat /\ closes' \in Nat /\ sleeps' \in Nat /\ ooms' \in Nat
    BY <1>d, <1>e, <1>20 DEF SuspendCancels
  <2>d. idx' \in 0..Channels BY <1>b, <1>c, <1>20 DEF SuspendCancels, TypeOK
  <2>e. /\ flag' \in BOOLEAN /\ abort' \in BOOLEAN /\ running' \in BOOLEAN
        /\ surveyTimer' \in BOOLEAN /\ toArmed' \in BOOLEAN /\ unplugged' \in BOOLEAN
        /\ stolen' \in BOOLEAN
    BY <1>f, <1>20 DEF SuspendCancels
  <2>f. /\ ctl' \in {"up", "abort", "indicate", "drain", "closed"}
        /\ scan' \in {"disable", "process"}
        /\ th' \in {"idle", "own scan", "cancel", "join", "indicate"}
        /\ toRun' \in {"no", "expired", "cleared"}
        /\ pm' \in {"on", "cancelled", "indicated", "unload", "suspended"}
    BY <1>g, <1>20 DEF SuspendCancels
  <2>1. TypeOK' BY <2>a, <2>b, <2>c, <2>d, <2>e, <2>f DEF TypeOK
  <2>2. OneRequest' BY <1>a, <1>c, <1>20 DEF SuspendCancels, TypeOK, OneRequest
  <2>3. RequestEnds' /\ Asleep' /\ Closed'
    BY <1>a, <1>c, <1>20 DEF SuspendCancels, TypeOK, OneRequest, RequestEnds, Answering, Asleep, Closed
  <2>4. (th # "idle" => running)' /\ (scan = "process" => idx < Channels)'
    BY <1>b, <1>c, <1>20 DEF SuspendCancels, TypeOK
  <2>5. HasSurvey'
    BY <1>c, <1>d, <1>h, <1>20 DEF SuspendCancels, HasSurvey, SurveyGoesOn
  <2>6. HasTimeout' BY <1>c, <1>20 DEF SuspendCancels, HasTimeout
  <2> QED BY <2>1, <2>2, <2>3, <2>4, <2>5, <2>6 DEF IInv
<1>21. ASSUME SuspendIndicates PROVE IInv'
  <2>a. queue' \in Seq({"survey", "done"})
    BY <1>c, <1>21, QueueTypes DEF SuspendIndicates, TypeOK, IndicateScanDone
  <2>b. /\ pc' \in [Req -> {"idle", "checked", "waiting", "done"}]
        /\ req' \in Req \union {NoReq} /\ rtnl' \in Req \union {"free", "close"}
    BY <1>c, <1>21 DEF SuspendIndicates, TypeOK, IndicateScanDone
  <2>c. owns' \in Nat /\ closes' \in Nat /\ sleeps' \in Nat /\ ooms' \in Nat
    BY <1>d, <1>e, <1>21 DEF SuspendIndicates, IndicateScanDone
  <2>d. idx' \in 0..Channels BY <1>b, <1>c, <1>21 DEF SuspendIndicates, TypeOK, IndicateScanDone
  <2>e. /\ flag' \in BOOLEAN /\ abort' \in BOOLEAN /\ running' \in BOOLEAN
        /\ surveyTimer' \in BOOLEAN /\ toArmed' \in BOOLEAN /\ unplugged' \in BOOLEAN
        /\ stolen' \in BOOLEAN
    BY <1>f, <1>21 DEF SuspendIndicates, IndicateScanDone
  <2>f. /\ ctl' \in {"up", "abort", "indicate", "drain", "closed"}
        /\ scan' \in {"disable", "process"}
        /\ th' \in {"idle", "own scan", "cancel", "join", "indicate"}
        /\ toRun' \in {"no", "expired", "cleared"}
        /\ pm' \in {"on", "cancelled", "indicated", "unload", "suspended"}
    BY <1>g, <1>21 DEF SuspendIndicates, IndicateScanDone
  <2>1. TypeOK' BY <2>a, <2>b, <2>c, <2>d, <2>e, <2>f DEF TypeOK
  <2>2. OneRequest' BY <1>a, <1>c, <1>21 DEF SuspendIndicates, TypeOK, OneRequest, IndicateScanDone
  <2>3. RequestEnds' /\ Asleep' /\ Closed'
    BY <1>a, <1>c, <1>21 DEF SuspendIndicates, TypeOK, OneRequest, RequestEnds, Answering, Asleep, Closed, IndicateScanDone
  <2>4. (th # "idle" => running)' /\ (scan = "process" => idx < Channels)'
    BY <1>b, <1>c, <1>21 DEF SuspendIndicates, TypeOK, IndicateScanDone
  <2>5. HasSurvey'
    BY <1>c, <1>d, <1>h, <1>21 DEF SuspendIndicates, HasSurvey, SurveyGoesOn, IndicateScanDone
  <2>6. HasTimeout' BY <1>c, <1>21 DEF SuspendIndicates, HasTimeout, IndicateScanDone
  <2> QED BY <2>1, <2>2, <2>3, <2>4, <2>5, <2>6 DEF IInv
<1>22. ASSUME SuspendClears PROVE IInv'
  <2>a. queue' \in Seq({"survey", "done"})
    BY <1>c, <1>22, QueueTypes DEF SuspendClears, TypeOK
  <2>b. /\ pc' \in [Req -> {"idle", "checked", "waiting", "done"}]
        /\ req' \in Req \union {NoReq} /\ rtnl' \in Req \union {"free", "close"}
    BY <1>c, <1>22 DEF SuspendClears, TypeOK
  <2>c. owns' \in Nat /\ closes' \in Nat /\ sleeps' \in Nat /\ ooms' \in Nat
    BY <1>d, <1>e, <1>22 DEF SuspendClears
  <2>d. idx' \in 0..Channels BY <1>b, <1>c, <1>22 DEF SuspendClears, TypeOK
  <2>e. /\ flag' \in BOOLEAN /\ abort' \in BOOLEAN /\ running' \in BOOLEAN
        /\ surveyTimer' \in BOOLEAN /\ toArmed' \in BOOLEAN /\ unplugged' \in BOOLEAN
        /\ stolen' \in BOOLEAN
    BY <1>f, <1>22 DEF SuspendClears
  <2>f. /\ ctl' \in {"up", "abort", "indicate", "drain", "closed"}
        /\ scan' \in {"disable", "process"}
        /\ th' \in {"idle", "own scan", "cancel", "join", "indicate"}
        /\ toRun' \in {"no", "expired", "cleared"}
        /\ pm' \in {"on", "cancelled", "indicated", "unload", "suspended"}
    BY <1>g, <1>22 DEF SuspendClears
  <2>1. TypeOK' BY <2>a, <2>b, <2>c, <2>d, <2>e, <2>f DEF TypeOK
  <2>2. OneRequest' BY <1>a, <1>c, <1>22 DEF SuspendClears, TypeOK, OneRequest
  <2>3. RequestEnds' /\ Asleep' /\ Closed'
    BY <1>a, <1>c, <1>22 DEF SuspendClears, TypeOK, OneRequest, RequestEnds, Answering, Asleep, Closed
  <2>4. (th # "idle" => running)' /\ (scan = "process" => idx < Channels)'
    BY <1>b, <1>c, <1>22 DEF SuspendClears, TypeOK
  <2>5. HasSurvey'
    BY <1>c, <1>d, <1>h, <1>22 DEF SuspendClears, HasSurvey, SurveyGoesOn
  <2>6. HasTimeout' BY <1>c, <1>22 DEF SuspendClears, HasTimeout
  <2> QED BY <2>1, <2>2, <2>3, <2>4, <2>5, <2>6 DEF IInv
<1>23. ASSUME SuspendUnloads PROVE IInv'
  <2>a. queue' \in Seq({"survey", "done"})
    BY <1>c, <1>23, QueueTypes DEF SuspendUnloads, TypeOK
  <2>b. /\ pc' \in [Req -> {"idle", "checked", "waiting", "done"}]
        /\ req' \in Req \union {NoReq} /\ rtnl' \in Req \union {"free", "close"}
    BY <1>c, <1>23 DEF SuspendUnloads, TypeOK
  <2>c. owns' \in Nat /\ closes' \in Nat /\ sleeps' \in Nat /\ ooms' \in Nat
    BY <1>d, <1>e, <1>23 DEF SuspendUnloads
  <2>d. idx' \in 0..Channels BY <1>b, <1>c, <1>23 DEF SuspendUnloads, TypeOK
  <2>e. /\ flag' \in BOOLEAN /\ abort' \in BOOLEAN /\ running' \in BOOLEAN
        /\ surveyTimer' \in BOOLEAN /\ toArmed' \in BOOLEAN /\ unplugged' \in BOOLEAN
        /\ stolen' \in BOOLEAN
    BY <1>f, <1>23 DEF SuspendUnloads
  <2>f. /\ ctl' \in {"up", "abort", "indicate", "drain", "closed"}
        /\ scan' \in {"disable", "process"}
        /\ th' \in {"idle", "own scan", "cancel", "join", "indicate"}
        /\ toRun' \in {"no", "expired", "cleared"}
        /\ pm' \in {"on", "cancelled", "indicated", "unload", "suspended"}
    BY <1>g, <1>23 DEF SuspendUnloads
  <2>1. TypeOK' BY <2>a, <2>b, <2>c, <2>d, <2>e, <2>f DEF TypeOK
  <2>2. OneRequest' BY <1>a, <1>c, <1>23 DEF SuspendUnloads, TypeOK, OneRequest
  <2>3. RequestEnds' /\ Asleep' /\ Closed'
    BY <1>a, <1>c, <1>23 DEF SuspendUnloads, TypeOK, OneRequest, RequestEnds, Answering, Asleep, Closed
  <2>4. (th # "idle" => running)' /\ (scan = "process" => idx < Channels)'
    BY <1>b, <1>c, <1>23 DEF SuspendUnloads, TypeOK
  <2>5. HasSurvey'
    BY <1>c, <1>d, <1>h, <1>23 DEF SuspendUnloads, HasSurvey, SurveyGoesOn
  <2>6. HasTimeout' BY <1>c, <1>23 DEF SuspendUnloads, HasTimeout
  <2> QED BY <2>1, <2>2, <2>3, <2>4, <2>5, <2>6 DEF IInv
<1>24. ASSUME Resume PROVE IInv'
  <2>a. queue' \in Seq({"survey", "done"})
    BY <1>c, <1>24, QueueTypes DEF Resume, TypeOK
  <2>b. /\ pc' \in [Req -> {"idle", "checked", "waiting", "done"}]
        /\ req' \in Req \union {NoReq} /\ rtnl' \in Req \union {"free", "close"}
    BY <1>c, <1>24 DEF Resume, TypeOK
  <2>c. owns' \in Nat /\ closes' \in Nat /\ sleeps' \in Nat /\ ooms' \in Nat
    BY <1>d, <1>e, <1>24 DEF Resume
  <2>d. idx' \in 0..Channels BY <1>b, <1>c, <1>24 DEF Resume, TypeOK
  <2>e. /\ flag' \in BOOLEAN /\ abort' \in BOOLEAN /\ running' \in BOOLEAN
        /\ surveyTimer' \in BOOLEAN /\ toArmed' \in BOOLEAN /\ unplugged' \in BOOLEAN
        /\ stolen' \in BOOLEAN
    BY <1>f, <1>24 DEF Resume
  <2>f. /\ ctl' \in {"up", "abort", "indicate", "drain", "closed"}
        /\ scan' \in {"disable", "process"}
        /\ th' \in {"idle", "own scan", "cancel", "join", "indicate"}
        /\ toRun' \in {"no", "expired", "cleared"}
        /\ pm' \in {"on", "cancelled", "indicated", "unload", "suspended"}
    BY <1>g, <1>24 DEF Resume
  <2>1. TypeOK' BY <2>a, <2>b, <2>c, <2>d, <2>e, <2>f DEF TypeOK
  <2>2. OneRequest' BY <1>a, <1>c, <1>24 DEF Resume, TypeOK, OneRequest
  <2>3. RequestEnds' /\ Asleep' /\ Closed'
    BY <1>a, <1>c, <1>24 DEF Resume, TypeOK, OneRequest, RequestEnds, Answering, Asleep, Closed
  <2>4. (th # "idle" => running)' /\ (scan = "process" => idx < Channels)'
    BY <1>b, <1>c, <1>24 DEF Resume, TypeOK
  <2>5. HasSurvey'
    BY <1>c, <1>d, <1>h, <1>24 DEF Resume, HasSurvey, SurveyGoesOn
  <2>6. HasTimeout' BY <1>c, <1>24 DEF Resume, HasTimeout
  <2> QED BY <2>1, <2>2, <2>3, <2>4, <2>5, <2>6 DEF IInv
<1>25. ASSUME Unplug PROVE IInv'
  <2>a. queue' \in Seq({"survey", "done"})
    BY <1>c, <1>25, QueueTypes DEF Unplug, TypeOK
  <2>b. /\ pc' \in [Req -> {"idle", "checked", "waiting", "done"}]
        /\ req' \in Req \union {NoReq} /\ rtnl' \in Req \union {"free", "close"}
    BY <1>c, <1>25 DEF Unplug, TypeOK
  <2>c. owns' \in Nat /\ closes' \in Nat /\ sleeps' \in Nat /\ ooms' \in Nat
    BY <1>d, <1>e, <1>25 DEF Unplug
  <2>d. idx' \in 0..Channels BY <1>b, <1>c, <1>25 DEF Unplug, TypeOK
  <2>e. /\ flag' \in BOOLEAN /\ abort' \in BOOLEAN /\ running' \in BOOLEAN
        /\ surveyTimer' \in BOOLEAN /\ toArmed' \in BOOLEAN /\ unplugged' \in BOOLEAN
        /\ stolen' \in BOOLEAN
    BY <1>f, <1>25 DEF Unplug
  <2>f. /\ ctl' \in {"up", "abort", "indicate", "drain", "closed"}
        /\ scan' \in {"disable", "process"}
        /\ th' \in {"idle", "own scan", "cancel", "join", "indicate"}
        /\ toRun' \in {"no", "expired", "cleared"}
        /\ pm' \in {"on", "cancelled", "indicated", "unload", "suspended"}
    BY <1>g, <1>25 DEF Unplug
  <2>1. TypeOK' BY <2>a, <2>b, <2>c, <2>d, <2>e, <2>f DEF TypeOK
  <2>2. OneRequest' BY <1>a, <1>c, <1>25 DEF Unplug, TypeOK, OneRequest
  <2>3. RequestEnds' /\ Asleep' /\ Closed'
    BY <1>a, <1>c, <1>25 DEF Unplug, TypeOK, OneRequest, RequestEnds, Answering, Asleep, Closed
  <2>4. (th # "idle" => running)' /\ (scan = "process" => idx < Channels)'
    BY <1>b, <1>c, <1>25 DEF Unplug, TypeOK
  <2>5. HasSurvey'
    BY <1>c, <1>d, <1>h, <1>25 DEF Unplug, HasSurvey, SurveyGoesOn
  <2>6. HasTimeout' BY <1>c, <1>25 DEF Unplug, HasTimeout
  <2> QED BY <2>1, <2>2, <2>3, <2>4, <2>5, <2>6 DEF IInv
<1>26. CASE UNCHANGED vars
  <2>a. /\ UNCHANGED <<pc, req, rtnl, queue, idx, owns, closes, sleeps, ooms>>
        /\ UNCHANGED <<flag, abort, running, surveyTimer, toArmed, unplugged, stolen>>
        /\ UNCHANGED <<ctl, scan, th, toRun, pm>>
    BY <1>26 DEF vars
  <2>b. /\ pc \in [Req -> {"idle", "checked", "waiting", "done"}]
        /\ req \in Req \union {NoReq} /\ rtnl \in Req \union {"free", "close"}
        /\ queue \in Seq({"survey", "done"}) /\ idx \in 0..Channels
    BY <1>c DEF TypeOK
  <2>c. /\ pc' \in [Req -> {"idle", "checked", "waiting", "done"}]
        /\ req' \in Req \union {NoReq} /\ rtnl' \in Req \union {"free", "close"}
        /\ queue' \in Seq({"survey", "done"}) /\ idx' \in 0..Channels
    BY <2>a, <2>b
  <2>d. owns' \in Nat /\ closes' \in Nat /\ sleeps' \in Nat /\ ooms' \in Nat
    BY <1>d, <2>a
  <2>e. /\ flag' \in BOOLEAN /\ abort' \in BOOLEAN /\ running' \in BOOLEAN
        /\ surveyTimer' \in BOOLEAN /\ toArmed' \in BOOLEAN /\ unplugged' \in BOOLEAN
        /\ stolen' \in BOOLEAN
    BY <1>f, <2>a
  <2>f. /\ ctl' \in {"up", "abort", "indicate", "drain", "closed"}
        /\ scan' \in {"disable", "process"}
        /\ th' \in {"idle", "own scan", "cancel", "join", "indicate"}
        /\ toRun' \in {"no", "expired", "cleared"}
        /\ pm' \in {"on", "cancelled", "indicated", "unload", "suspended"}
    BY <1>g, <2>a
  <2>1. TypeOK' BY <2>c, <2>d, <2>e, <2>f DEF TypeOK
  <2>2. OneRequest' BY <1>c, <1>26 DEF vars, OneRequest
  <2>3. RequestEnds' BY <1>c, <1>26 DEF vars, RequestEnds, Answering
  <2>4. Asleep' /\ Closed' BY <1>c, <1>26 DEF vars, Asleep, Answering, Closed
  <2>5. (th # "idle" => running)' /\ (scan = "process" => idx < Channels)'
    BY <1>c, <1>26 DEF vars
  <2>6. HasSurvey' /\ HasTimeout' BY <1>c, <1>26 DEF vars, HasSurvey, SurveyGoesOn, HasTimeout
  <2> QED BY <2>1, <2>2, <2>3, <2>4, <2>5, <2>6 DEF IInv
<1> QED
  BY <1>1, <1>2, <1>3, <1>4, <1>5, <1>6, <1>7, <1>8, <1>9, <1>10, <1>11, <1>12, <1>13, <1>14, <1>15, <1>16, <1>17, <1>18, <1>19, <1>20, <1>21, <1>22, <1>23, <1>24, <1>25, <1>26
  DEF Next, ThreadStep, TimeoutStep, CloseStep, SuspendStep

LEMMA Invariance == Spec => []IInv
<1>1. Init => IInv BY InvInit
<1>2. IInv /\ [Next]_vars => IInv' BY InvNext
<1> QED BY <1>1, <1>2, PTL DEF Spec

\* The types of the scan's state; an aborted survey ends at its last channel,
\* never behind it.
THEOREM TypeCorrect == Spec => []TypeOK
<1>1. IInv => TypeOK BY DEF IInv
<1> QED BY <1>1, Invariance, PTL

\* After netdev_close returned, and while the board sleeps, no request of
\* cfg80211 is left with the driver, whichever of the timeout, the end of the
\* survey and the abort came first.
THEOREM NoRequestWhenDown == Spec => []QuietWhenDown
<1>1. IInv => QuietWhenDown BY DEF IInv, Asleep, Closed, QuietWhenDown
<1> QED BY <1>1, Invariance, PTL

\* While the flag refuses scans, the timeout, the survey or a suspend will clear
\* it, but for a scan that lost its timeout to another one's end and its survey
\* to a failed allocation.
THEOREM FlagFalls == Spec => []FlagEnds
<1>1. IInv => FlagEnds
  <2> SUFFICES ASSUME IInv PROVE FlagEnds
    OBVIOUS
  <2>a. ooms \in Nat BY DEF IInv, TypeOK
  <2>1. ooms = 0 \/ ooms > 0 BY <2>a
  <2> QED BY <2>1 DEF IInv, HasSurvey, HasTimeout, FlagEnds
<1> QED BY <1>1, Invariance, PTL
=============================================================================
