----------------------------- MODULE SessionProofs -----------------------------
(***************************************************************************)
(* Session's type correctness, NoFalseGreen and NothingLost, and that it   *)
(* implements SessionPromise, for any set of targets, any queue bound and  *)
(* any results.                                                            *)
(*                                                                         *)
(* The inductive invariant Inv of NoFalseGreen follows every reason to     *)
(* fail the run from where it arises, through the report channel, to the   *)
(* exit code.  NothingLost is inductive as it stands; its proof is in what *)
(* a sum over the channel does when a message enters or leaves it.         *)
(***************************************************************************)
EXTENDS Session, SequenceTheorems, FoldProofs

LEMMA MessageTypes ==
    /\ \A t \in Targets, rs \in Seq(Result) \ {<<>>} : Finished(t, rs) \in Message
    /\ \A t \in Targets : Discovered(t) \in Message /\ TargetDropped(t) \in Message
    /\ \A q \in BOOLEAN : TargetFailure(q) \in Seq(Result) \ {<<>>}
  BY DEF Finished, Discovered, TargetDropped, Message, Batch, TargetFailure, Result, TestVerdict,
         Integrity

\* Appending to and taking from a sequence over S.
LEMMA AppendType ==
    ASSUME NEW S, NEW s \in Seq(S), NEW e \in S
    PROVE  Append(s, e) \in Seq(S) /\ Len(Append(s, e)) = Len(s) + 1 /\ Len(s) \in Nat
  OBVIOUS

LEMMA HeadTailType ==
    ASSUME NEW S, NEW s \in Seq(S), s # <<>>
    PROVE  /\ Head(s) \in S /\ Head(s) = s[1] /\ Tail(s) \in Seq(S)
           /\ Len(Tail(s)) = Len(s) - 1 /\ Len(s) \in Nat /\ Len(s) >= 1
           /\ \A i \in 1 .. Len(s) - 1 : Tail(s)[i] = s[i + 1]
  OBVIOUS

LEMMA UpdateType ==
    ASSUME NEW S, NEW T, NEW f \in [S -> T], NEW s \in S, NEW e \in T
    PROVE  [f EXCEPT ![s] = e] \in [S -> T]
  OBVIOUS

\* Sending keeps the channel a bounded sequence of messages.
LEMMA SendType ==
    ASSUME NEW m \in Message, TypeOK, Send(m)
    PROVE  chan' \in Seq(Message) /\ Len(chan') <= MaxReportQueue
  <1>1. chan \in Seq(Message) /\ Len(chan) <= MaxReportQueue
    BY DEF TypeOK
  <1>2. Append(chan, m) \in Seq(Message) /\ Len(Append(chan, m)) = Len(chan) + 1
        /\ Len(chan) \in Nat
    BY <1>1, AppendType
  <1> QED
    BY <1>1, <1>2, ConstantsAssumption DEF Send

LEMMA InitType == Init => TypeOK
  <1> SUFFICES ASSUME Init PROVE TypeOK
    OBVIOUS
  <1>1. mode \in Modes /\ buck = "sending" /\ main = "setup" /\ rep = "recv"
        /\ verdict = "Pass" /\ fault = FALSE /\ received = {} /\ missing = {}
        /\ announced = {} /\ tainted = {} /\ exit = NoExit /\ endCalls = 0 /\ produced = 0
        /\ cur = NoBatch
    BY DEF Init
  <1>2. intake \in Seq(Targets \cup {EndOfRequests})
    BY DEF Init
  <1>3. task \in [Targets -> TaskPc] /\ tries \in [Targets -> Nat]
        /\ reported \in [Targets -> Nat]
        /\ action \in [Targets -> [Blocks -> {"none", "running", "finished", "panicked"}]]
    BY DEF Init, TaskPc
  <1>4. chan \in Seq(Message) /\ Len(chan) <= MaxReportQueue
    BY ConstantsAssumption DEF Init
  <1>5. tally \in [total : Nat, failed : Nat]
    BY DEF Init
  <1> QED
    BY <1>1, <1>2, <1>3, <1>4, <1>5 DEF TypeOK

LEMMA MainType == ASSUME TypeOK, MainNext \/ SetupPanics PROVE TypeOK'
  <1> USE DEF repVars, buckVars, taskVars, mainVars
  <1>a. intake \in Seq(Targets \cup {EndOfRequests})
    BY DEF TypeOK
  <1>b. intake # <<>> => /\ Head(intake) \in Targets \cup {EndOfRequests}
                         /\ Tail(intake) \in Seq(Targets \cup {EndOfRequests})
    BY <1>a, HeadTailType
  <1>1. CASE Setup
    BY <1>1 DEF Setup, TypeOK
  <1>2. CASE DrainIntake
    <2>1. intake' \in Seq(Targets \cup {EndOfRequests})
      <3>1. <<>> \in Seq(Targets \cup {EndOfRequests})
        OBVIOUS
      <3>2. intake' = <<>> \/ (intake # <<>> /\ intake' = Tail(intake))
        BY <1>2 DEF DrainIntake
      <3> QED
        BY <3>1, <3>2, <1>b
    <2> QED
      BY <1>2, <2>1 DEF DrainIntake, TypeOK
  <1>3. CASE RecvSpec
    <2>1. intake' \in Seq(Targets \cup {EndOfRequests}) /\ Head(intake) \in Targets
      BY <1>3, <1>b DEF RecvSpec
    <2>2. task' \in [Targets -> TaskPc]
      BY <1>3, <2>1 DEF RecvSpec, To, TaskPc, TypeOK
    <2>3. received' \subseteq Targets /\ tainted' \subseteq Targets
      BY <1>3, <2>1 DEF RecvSpec, Taint, TypeOK
    <2> QED
      BY <1>3, <2>1, <2>2, <2>3 DEF RecvSpec, TypeOK
  <1>4. CASE RecvEnd
    <2>1. intake' \in Seq(Targets \cup {EndOfRequests})
      BY <1>4, <1>a, <1>b DEF RecvEnd, IntakeEnds
    <2> QED
      BY <1>4, <2>1, ConstantsAssumption DEF RecvEnd, TypeOK
  <1>5. CASE SendMissing
    <2>1. PICK t \in missing : Send(TargetDropped(t)) /\ missing' = missing \ {t}
      BY <1>5 DEF SendMissing
    <2>2. t \in Targets
      BY DEF TypeOK
    <2>3. chan' \in Seq(Message) /\ Len(chan') <= MaxReportQueue
      BY <2>1, <2>2, SendType, MessageTypes
    <2> QED
      BY <1>5, <2>1, <2>3 DEF SendMissing, TypeOK
  <1>6. CASE JoinTargets
    BY <1>6 DEF JoinTargets, TypeOK
  <1>7. CASE FoldVerdict
    BY <1>7 DEF FoldVerdict, TypeOK, ExitCode
  <1>8. CASE EndOfTests
    BY <1>8 DEF EndOfTests, TypeOK
  <1>9. CASE SetupPanics
    BY <1>9 DEF SetupPanics, TypeOK
  <1> QED
    BY <1>1, <1>2, <1>3, <1>4, <1>5, <1>6, <1>7, <1>8, <1>9 DEF MainNext

LEMMA BuckType ==
    ASSUME TypeOK, BuckEnds \/ BuckLeaves \/ \E t \in Targets : BuckSends(t)
    PROVE  TypeOK'
  <1> USE DEF repVars, buckVars, taskVars, mainVars
  <1>a. /\ Append(intake, EndOfRequests) \in Seq(Targets \cup {EndOfRequests})
        /\ \A t \in Targets : Append(intake, t) \in Seq(Targets \cup {EndOfRequests})
    BY AppendType DEF TypeOK
  <1>1. CASE BuckEnds
    BY <1>1, <1>a DEF BuckEnds, TypeOK
  <1>2. CASE BuckLeaves
    BY <1>2 DEF BuckLeaves, TypeOK
  <1>3. ASSUME NEW t \in Targets, BuckSends(t) PROVE TypeOK'
    <2>1. intake' \in Seq(Targets \cup {EndOfRequests})
      BY <1>3, <1>a DEF BuckSends, TypeOK
    <2>2. task' \in [Targets -> TaskPc]
      BY <1>3, ZenonT(40) DEF BuckSends, To, TypeOK, TaskPc
    <2> QED
      BY <1>3, <2>1, <2>2 DEF BuckSends, TypeOK
  <1> QED
    BY <1>1, <1>2, <1>3

LEMMA TargetType ==
    ASSUME TypeOK, NEW t \in Targets, TargetNext(t) \/ TargetFaults(t)
    PROVE  TypeOK'
  <1> USE DEF repVars, buckVars, taskVars, mainVars, QuietTask
  <1>t. \A pc \in TaskPc : To(t, pc) => task' \in [Targets -> TaskPc]
    BY DEF To, TypeOK
  <1>p. {"dropping", "want_listing", "listing", "listed", "announcing", "running",
         "failing", "fail_send", "done", "crashed"} \subseteq TaskPc
    BY DEF TaskPc
  <1>n. announced \cup {t} \subseteq Targets /\ (Taint(t) => tainted' \subseteq Targets)
    BY DEF TypeOK, Taint
  <1>1. CASE StartTarget(t)
    BY <1>1, <1>t, <1>p DEF StartTarget, TypeOK
  <1>2. CASE AcquireListing(t)
    BY <1>2, <1>t, <1>p DEF AcquireListing, TypeOK
  <1>3. CASE ListingTimesOut(t)
    <2>1. task' \in [Targets -> TaskPc] /\ tainted' \subseteq Targets
      BY <1>3, <1>t, <1>p, <1>n DEF ListingTimesOut, Fails, TypeOK
    <2>2. tries' \in [Targets -> Nat]
      <3>1. tries \in [Targets -> Nat] /\ tries[t] + 1 \in Nat
        BY DEF TypeOK
      <3>2. [tries EXCEPT ![t] = tries[t] + 1] \in [Targets -> Nat]
        BY <3>1, UpdateType
      <3>3. tries' = tries \/ tries' = [tries EXCEPT ![t] = tries[t] + 1]
        BY <1>3 DEF ListingTimesOut
      <3> QED
        BY <3>1, <3>2, <3>3
    <2> QED
      BY <1>3, <2>1, <2>2 DEF ListingTimesOut, TypeOK
  <1>4. CASE ListingReturns(t)
    BY <1>4, <1>t, <1>p, <1>n DEF ListingReturns, Fails, TypeOK
  <1>5. CASE EmptyShard(t)
    BY <1>5, <1>t, <1>p, <1>n DEF EmptyShard, TypeOK
  <1>6. CASE SendDiscovered(t)
    <2>1. chan' \in Seq(Message) /\ Len(chan') <= MaxReportQueue
      BY <1>6, SendType, MessageTypes DEF SendDiscovered
    <2> QED
      BY <1>6, <2>1, <1>t, <1>p DEF SendDiscovered, TypeOK
  <1>7. CASE Announce(t)
    <2>1. action' \in [Targets -> [Blocks -> {"none", "running", "finished", "panicked"}]]
      <3>1. action' = action \/ \E n \in 1 .. MaxActions[t] : action' =
              [action EXCEPT ![t] = [b \in Blocks |-> IF b <= n THEN "running" ELSE "none"]]
        BY <1>7 DEF Announce
      <3>2. \A n \in 1 .. MaxActions[t] : [b \in Blocks |-> IF b <= n THEN "running" ELSE "none"]
              \in [Blocks -> {"none", "running", "finished", "panicked"}]
        OBVIOUS
      <3>3. action \in [Targets -> [Blocks -> {"none", "running", "finished", "panicked"}]]
        BY DEF TypeOK
      <3> QED
        BY <3>1, <3>2, <3>3, UpdateType
    <2>2. task' \in [Targets -> TaskPc]
      BY <1>7, <1>t, <1>p DEF Announce
    <2> QED
      BY <1>7, <2>1, <2>2, <1>n DEF Announce, TypeOK
  <1>8. CASE JoinActions(t)
    <2>1. task' \in [Targets -> TaskPc]
      BY <1>8, <1>t, <1>p DEF JoinActions
    <2> QED
      BY <1>8, <2>1 DEF JoinActions, TypeOK
  <1>9. CASE AnnounceFailure(t)
    BY <1>9, <1>t, <1>p, <1>n DEF AnnounceFailure, TypeOK
  <1>10. CASE SendFailure(t)
    <2>1. PICK q \in BOOLEAN : Send(Finished(t, TargetFailure(q)))
      BY <1>10 DEF SendFailure
    <2>2. chan' \in Seq(Message) /\ Len(chan') <= MaxReportQueue
      BY <2>1, SendType, MessageTypes
    <2> QED
      BY <1>10, <2>2, <1>t, <1>p DEF SendFailure, TypeOK
  <1>11. CASE SendDropped(t)
    <2>1. chan' \in Seq(Message) /\ Len(chan') <= MaxReportQueue
      BY <1>11, SendType, MessageTypes DEF SendDropped
    <2> QED
      BY <1>11, <2>1, <1>t, <1>p DEF SendDropped, TypeOK
  <1>12. CASE TargetFaults(t)
    <2>1. task' \in [Targets -> TaskPc] /\ tainted' \subseteq Targets
      BY <1>12, <1>t, <1>p, <1>n DEF TargetFaults, RejectSpec, UnknownType, TaskPanics,
         TargetPanics, InvalidOverride, Fails
    <2> QED
      BY <1>12, <2>1 DEF TargetFaults, RejectSpec, UnknownType, TaskPanics, TargetPanics,
         InvalidOverride, TypeOK
  <1> QED
    BY <1>1, <1>2, <1>3, <1>4, <1>5, <1>6, <1>7, <1>8, <1>9, <1>10, <1>11, <1>12
    DEF TargetNext

LEMMA ActionType ==
    ASSUME TypeOK, NEW t \in Targets, NEW b \in Blocks, ActionFinishes(t, b) \/ ActionPanics(t, b)
    PROVE  TypeOK'
  <1> USE DEF repVars, buckVars, taskVars, mainVars, QuietTask
  <1>1. action' \in [Targets -> [Blocks -> {"none", "running", "finished", "panicked"}]]
    <2>1. PICK e \in {"finished", "panicked"} : action' = [action EXCEPT ![t][b] = e]
      BY DEF ActionFinishes, ActionPanics
    <2>2. action \in [Targets -> [Blocks -> {"none", "running", "finished", "panicked"}]]
      BY DEF TypeOK
    <2>3. [action[t] EXCEPT ![b] = e] \in [Blocks -> {"none", "running", "finished", "panicked"}]
      BY <2>2, UpdateType
    <2>4. action' = [action EXCEPT ![t] = [action[t] EXCEPT ![b] = e]]
      BY <2>1, <2>2
    <2> QED
      BY <2>2, <2>3, <2>4, UpdateType
  <1>2. CASE ActionFinishes(t, b)
    <2>1. PICK rs \in Batches :
            /\ Send(Finished(t, rs)) /\ produced' = produced + Len(rs)
            /\ tainted' = IF \E i \in DOMAIN rs : MustFail(rs[i])
                          THEN tainted \cup {t} ELSE tainted
      BY <1>2 DEF ActionFinishes
    <2>2. rs \in Seq(Result) \ {<<>>}
      BY ConstantsAssumption
    <2>3. chan' \in Seq(Message) /\ Len(chan') <= MaxReportQueue
      BY <2>1, <2>2, SendType, MessageTypes
    <2>4. produced' \in Nat
      BY <2>1, <2>2 DEF TypeOK
    <2>5. tainted' \subseteq Targets
      BY <2>1 DEF TypeOK
    <2> QED
      BY <1>1, <1>2, <2>3, <2>4, <2>5 DEF ActionFinishes, TypeOK
  <1>3. CASE ActionPanics(t, b)
    BY <1>1, <1>3 DEF ActionPanics, Taint, TypeOK
  <1> QED
    BY <1>2, <1>3

LEMMA ReporterType == ASSUME TypeOK, ReporterNext \/ ReporterPanics PROVE TypeOK'
  <1> USE DEF repVars, buckVars, taskVars, mainVars, QuietReporter
  <1>a. chan # <<>> => Head(chan) \in Message /\ Tail(chan) \in Seq(Message)
                       /\ Len(Tail(chan)) <= MaxReportQueue
    <2>1. chan \in Seq(Message) /\ Len(chan) <= MaxReportQueue /\ MaxReportQueue \in Nat
      BY ConstantsAssumption DEF TypeOK
    <2> QED
      BY <2>1, HeadTailType
  <1>1. CASE ReceiveDiscovered
    BY <1>1, <1>a DEF ReceiveDiscovered, TypeOK
  <1>2. CASE ReceiveDropped
    <2>1. tally' \in [total : Nat, failed : Nat]
      BY <1>2 DEF ReceiveDropped, TypeOK
    <2> QED
      BY <1>2, <1>a, <2>1 DEF ReceiveDropped, TypeOK
  <1>3. CASE ReceiveFinished
    <2>1. cur' \in Batch /\ cur'.results # <<>>
      BY <1>3, <1>a DEF ReceiveFinished, Message
    <2> QED
      BY <1>3, <1>a, <2>1 DEF ReceiveFinished, TypeOK
  <1>4. CASE Fold
    <2>1. cur \in Batch /\ cur.results # <<>> /\ cur.results \in Seq(Result)
      BY <1>4 DEF Fold, TypeOK, Batch
    <2>2. /\ Tail(cur.results) \in Seq(Result) /\ Len(cur.results) >= 1
          /\ Len(Tail(cur.results)) = Len(cur.results) - 1 /\ Len(cur.results) \in Nat
      BY <2>1, HeadTailType
    <2>3. cur' = [cur EXCEPT !.results = Tail(cur.results)]
      BY <1>4 DEF Fold
    <2>9. /\ tally.total \in Nat /\ tally.failed \in Nat
          /\ rep' = IF Len(cur.results) = 1 THEN "recv" ELSE "fold"
          /\ \E n \in {0, 1} : tally' = [total |-> tally.total + 1, failed |-> tally.failed + n]
      BY <1>4 DEF Fold, TypeOK
    <2>4. cur' \in Batch /\ cur'.results = Tail(cur.results)
      BY <2>1, <2>2, <2>3 DEF Batch
    <2>5. rep' = "fold" => cur'.results # <<>>
      <3>1. rep' = "fold" => Len(cur.results) # 1
        BY <2>9
      <3>2. Len(cur.results) # 1 => Len(Tail(cur.results)) # 0
        BY <2>2
      <3>3. Len(<<>>) = 0
        OBVIOUS
      <3>4. Tail(cur.results) = <<>> => Len(Tail(cur.results)) = 0
        BY <3>3
      <3> QED
        BY <3>1, <3>2, <3>4, <2>4
    <2>6. tally' \in [total : Nat, failed : Nat]
      BY <2>9
    <2>7. reported' \in [Targets -> Nat]
      <3>1. reported \in [Targets -> Nat] /\ cur.target \in Targets
        BY <2>1 DEF TypeOK, Batch
      <3>2. [reported EXCEPT ![cur.target] = reported[cur.target] + 1] \in [Targets -> Nat]
        BY <3>1, UpdateType
      <3> QED
        BY <1>4, <3>2 DEF Fold
    <2>8. verdict' \in {"Pass", "Fail"} /\ fault' \in BOOLEAN
          /\ rep' \in {"recv", "fold"} /\ chan' = chan
      BY <1>4 DEF Fold, TypeOK
    <2> QED
      BY <1>4, <2>4, <2>5, <2>6, <2>7, <2>8 DEF Fold, TypeOK
  <1>5. CASE ReporterReturns
    BY <1>5 DEF ReporterReturns, TypeOK
  <1>6. CASE ReporterPanics
    <2>1. <<>> \in Seq(Message) /\ Len(<<>>) <= MaxReportQueue
      BY ConstantsAssumption
    <2> QED
      BY <1>6, <2>1 DEF ReporterPanics, TypeOK
  <1> QED
    BY <1>1, <1>2, <1>3, <1>4, <1>5, <1>6 DEF ReporterNext

LEMMA TypeStep == TypeOK /\ [Next]_vars => TypeOK'
  <1> SUFFICES ASSUME TypeOK, [Next]_vars PROVE TypeOK'
    OBVIOUS
  <1>1. CASE UNCHANGED vars
    BY <1>1 DEF TypeOK, vars, repVars, buckVars, taskVars, mainVars
  <1>2. CASE Next
    BY <1>1, <1>2, MainType, BuckType, TargetType, ActionType, ReporterType DEF Next, Rests
  <1> QED
    BY <1>1, <1>2

\* The types hold in every state of a session, for any targets, any action
\* results and any limits: in particular the report channel never exceeds
\* max_report_queue and the reporter never folds an empty batch.
THEOREM TypeCorrect == Spec => []TypeOK
  BY InitType, TypeStep, PTL DEF Spec

-------------------------------------------------------------------------------
(* No false green.                                                           *)


\* The reporter fails the run for exactly the results that must fail it.
LEMMA BlockingIsMustFail == \A r \in Result : Blocking(r) <=> MustFail(r)
  BY DEF Result, TestVerdict, Integrity, Blocking, MustFail, ReportDisposition, Missing, IsFailure

\* A message sent is last in the channel; those before it stay where they are.
LEMMA SendEffect ==
    ASSUME TypeOK, NEW m \in Message, Send(m)
    PROVE  /\ rep = "dead" => chan' = chan
           /\ rep # "dead" => \E i \in DOMAIN chan' : chan'[i] = m
           /\ \A i \in DOMAIN chan : i \in DOMAIN chan' /\ chan'[i] = chan[i]
  <1>1. chan \in Seq(Message)
    BY DEF TypeOK
  <1>2. CASE rep = "dead"
    BY <1>2 DEF Send
  <1>3. CASE rep # "dead"
    <2>1. chan' = Append(chan, m)
      BY <1>3 DEF Send
    <2>2. /\ Len(chan) \in Nat /\ Len(chan') = Len(chan) + 1
          /\ DOMAIN chan = 1 .. Len(chan) /\ DOMAIN chan' = 1 .. Len(chan')
          /\ chan'[Len(chan) + 1] = m
          /\ \A i \in 1 .. Len(chan) : chan'[i] = chan[i]
      BY <1>1, <2>1
    <2> QED
      BY <1>3, <2>2
  <1> QED
    BY <1>2, <1>3

\* A bad message sent to a live reporter blames the run.
LEMMA BadSent ==
    ASSUME TypeOK, NEW m \in Message, Bad(m), Send(m), rep' = rep
    PROVE  Blamed'
  BY SendEffect DEF Blamed

\* Who does not touch the reporter leaves the run blamed if it was.
LEMMA BlamedOutside ==
    ASSUME TypeOK, Blamed, UNCHANGED <<rep, cur, verdict>>,
           chan' = chan \/ \E m \in Message : Send(m)
    PROVE  Blamed'
  <1>1. \A i \in DOMAIN chan : i \in DOMAIN chan' /\ chan'[i] = chan[i]
    BY SendEffect
  <1> QED
    BY <1>1 DEF Blamed

\* Neither does the reporter: it turns its verdict before it lets go of a
\* message or of a result that must turn it.
LEMMA BlamedInside ==
    ASSUME TypeOK, Phases, Blamed, ReporterNext \/ ReporterPanics
    PROVE  Blamed'
  <1>a. chan # <<>> => /\ Head(chan) = chan[1]
                       /\ DOMAIN chan = 1 .. Len(chan) /\ Len(chan) \in Nat
                       /\ DOMAIN Tail(chan) = 1 .. Len(chan) - 1
                       /\ \A i \in 1 .. Len(chan) - 1 : Tail(chan)[i] = chan[i + 1]
    <2>1. chan \in Seq(Message)
      BY DEF TypeOK
    <2> QED
      BY <2>1, HeadTailType
  <1>b. chan # <<>> /\ (\E i \in DOMAIN chan : Bad(chan[i])) =>
          Bad(Head(chan)) \/ \E i \in DOMAIN Tail(chan) : Bad(Tail(chan)[i])
    <2>1. SUFFICES ASSUME chan # <<>>, NEW i \in DOMAIN chan, Bad(chan[i])
                   PROVE  Bad(Head(chan)) \/ \E j \in DOMAIN Tail(chan) : Bad(Tail(chan)[j])
      OBVIOUS
    <2>2. CASE i = 1
      BY <1>a, <2>1, <2>2
    <2>3. CASE i # 1
      <3>1. i - 1 \in 1 .. Len(chan) - 1 /\ (i - 1) + 1 = i
        BY <1>a, <2>1, <2>3
      <3> QED
        BY <1>a, <2>1, <3>1
    <2> QED
      BY <2>2, <2>3
  <1>1. CASE ReceiveDiscovered
    <2>1. ~Bad(Head(chan))
      <3>1. Head(chan) \in Message /\ Head(chan).kind = "Discovered"
        BY <1>1, HeadTailType DEF ReceiveDiscovered, TypeOK
      <3>2. Head(chan).results = <<>>
        BY <3>1 DEF Message, Batch
      <3> QED
        BY <3>1, <3>2 DEF Bad, HasBlocking
    <2> QED
      BY <1>1, <1>b, <2>1 DEF ReceiveDiscovered, Blamed, repVars
  <1>2. CASE ReceiveDropped
    BY <1>2 DEF ReceiveDropped, Blamed
  <1>3. CASE ReceiveFinished
    <2>1. Bad(Head(chan)) => HasBlocking(cur'.results)
      BY <1>3 DEF ReceiveFinished, Bad
    <2> QED
      BY <1>3, <1>b, <2>1 DEF ReceiveFinished, Blamed
  <1>4. CASE Fold
    <2>1. cur \in Batch /\ cur.results # <<>> /\ cur.results \in Seq(Result)
      BY <1>4 DEF Fold, TypeOK, Batch
    <2>2. /\ Head(cur.results) = cur.results[1]
          /\ DOMAIN cur.results = 1 .. Len(cur.results) /\ Len(cur.results) \in Nat
          /\ DOMAIN Tail(cur.results) = 1 .. Len(cur.results) - 1
          /\ \A i \in 1 .. Len(cur.results) - 1 : Tail(cur.results)[i] = cur.results[i + 1]
      BY <2>1, HeadTailType
    <2>3. cur'.results = Tail(cur.results)
      BY <1>4, <2>1 DEF Fold, Batch
    <2>4. chan' = chan /\ (verdict = "Fail" => verdict' = "Fail")
          /\ (Blocking(Head(cur.results)) => verdict' = "Fail")
          /\ rep' = (IF Len(cur.results) = 1 THEN "recv" ELSE "fold") /\ rep = "fold"
      BY <1>4 DEF Fold
    <2>5. ASSUME NEW i \in DOMAIN cur.results, Blocking(cur.results[i]) PROVE Blamed'
      <3>1. CASE i = 1
        BY <2>2, <2>4, <2>5, <3>1 DEF Blamed
      <3>2. CASE i # 1
        <4>1. i - 1 \in 1 .. Len(cur.results) - 1 /\ (i - 1) + 1 = i /\ Len(cur.results) # 1
          BY <2>2, <2>5, <3>2
        <4>2. i - 1 \in DOMAIN cur'.results /\ Blocking(cur'.results[i - 1])
          BY <2>2, <2>3, <2>5, <4>1
        <4> QED
          BY <2>4, <4>1, <4>2 DEF Blamed, HasBlocking
      <3> QED
        BY <3>1, <3>2
    <2> QED
      BY <2>4, <2>5 DEF Blamed, HasBlocking
  <1>5. CASE ReporterReturns
    BY <1>5 DEF ReporterReturns, Blamed
  <1>6. CASE ReporterPanics
    BY <1>6 DEF ReporterPanics, Blamed
  <1> QED
    BY <1>1, <1>2, <1>3, <1>4, <1>5, <1>6 DEF ReporterNext

-------------------------------------------------------------------------------
LEMMA ToEffect ==
    ASSUME TypeOK, NEW t \in Targets, NEW pc, To(t, pc)
    PROVE  task'[t] = pc /\ \A s \in Targets \ {t} : task'[s] = task[s]
  BY DEF To, TypeOK

\* What the steps of a target task share.
LEMMA TargetFrame ==
    ASSUME TypeOK, NEW t \in Targets, TargetNext(t) \/ TargetFaults(t)
    PROVE  /\ UNCHANGED <<buckVars, mainVars, repVars, fault>>
           /\ ~Joined(t) /\ task'[t] \notin {"absent", "queued", "refused"}
           /\ \A s \in Targets \ {t} : task'[s] = task[s] /\ action'[s] = action[s]
           /\ chan' = chan \/ \E m \in Message : Send(m)
           /\ tainted' \subseteq tainted \cup {t}
  <1> USE DEF repVars, buckVars, taskVars, mainVars, QuietTask, Joined
  <1>1. /\ UNCHANGED <<buckVars, mainVars, repVars, fault>>
        /\ tainted' \subseteq tainted \cup {t}
    BY DEF TargetNext, TargetFaults, StartTarget, AcquireListing, ListingTimesOut,
       ListingReturns, EmptyShard, SendDiscovered, Announce, JoinActions, AnnounceFailure,
       SendFailure, SendDropped, RejectSpec, UnknownType, TaskPanics, TargetPanics,
       InvalidOverride, Fails, Taint
  <1>2. ~Joined(t)
    BY DEF TargetNext, TargetFaults, StartTarget, AcquireListing, ListingTimesOut,
       ListingReturns, EmptyShard, SendDiscovered, Announce, JoinActions, AnnounceFailure,
       SendFailure, SendDropped, RejectSpec, UnknownType, TaskPanics, TargetPanics,
       InvalidOverride
  <1>3. \E pc \in TaskPc \ {"absent", "queued", "refused"} : To(t, pc)
    BY DEF TargetNext, TargetFaults, StartTarget, AcquireListing, ListingTimesOut,
       ListingReturns, EmptyShard, SendDiscovered, Announce, JoinActions, AnnounceFailure,
       SendFailure, SendDropped, RejectSpec, UnknownType, TaskPanics, TargetPanics,
       InvalidOverride, Fails, TaskPc
  <1>4. \A s \in Targets \ {t} : action'[s] = action[s]
    <2>1. action \in [Targets -> [Blocks -> {"none", "running", "finished", "panicked"}]]
      BY DEF TypeOK
    <2>2. action' = action \/ \E f : action' = [action EXCEPT ![t] = f]
      BY DEF TargetNext, TargetFaults, StartTarget, AcquireListing, ListingTimesOut,
         ListingReturns, EmptyShard, SendDiscovered, Announce, JoinActions, AnnounceFailure,
         SendFailure, SendDropped, RejectSpec, UnknownType, TaskPanics, TargetPanics,
         InvalidOverride
    <2> QED
      BY <2>1, <2>2
  <1>5. chan' = chan \/ \E m \in Message : Send(m)
    BY MessageTypes DEF TargetNext, TargetFaults, StartTarget, AcquireListing, ListingTimesOut,
       ListingReturns, EmptyShard, SendDiscovered, Announce, JoinActions, AnnounceFailure,
       SendFailure, SendDropped, RejectSpec, UnknownType, TaskPanics, TargetPanics,
       InvalidOverride
  <1> QED
    BY <1>1, <1>2, <1>3, <1>4, <1>5, ToEffect

\* A target runs while one of its actions does.
LEMMA TargetRuns ==
    ASSUME TypeOK, Phases, NEW t \in Targets, TargetNext(t) \/ TargetFaults(t),
           NEW b \in Blocks, action'[t][b] = "running"
    PROVE  task'[t] = "running"
  <1>1. action[t][b] = "running" => task[t] = "running"
    BY DEF Phases
  <1>2. CASE Announce(t)
    BY <1>1, <1>2, ToEffect DEF Announce
  <1>3. CASE JoinActions(t)
    BY <1>3 DEF JoinActions
  <1>4. CASE ~Announce(t) /\ ~JoinActions(t)
    BY <1>1, <1>4 DEF TargetNext, TargetFaults, StartTarget, AcquireListing, ListingTimesOut,
       ListingReturns, EmptyShard, SendDiscovered, AnnounceFailure, SendFailure, SendDropped,
       RejectSpec, UnknownType, TaskPanics, TargetPanics, InvalidOverride, QuietTask, taskVars
  <1> QED
    BY <1>2, <1>3, <1>4

\* A target step that has, or finds, a reason to fail the run keeps it or sends it.
LEMMA TargetTaint ==
    ASSUME TypeOK, Phases, TaintTravels, NEW t \in Targets, TargetNext(t) \/ TargetFaults(t),
           t \in tainted'
    PROVE  Blamed' \/ Travelling(t)'
  <1>1. CASE Blamed
    BY <1>1, TargetFrame, BlamedOutside DEF repVars
  <1>2. CASE Fails(t) \/ (To(t, "dropping") /\ Taint(t)) \/ TaskPanics(t)
    BY <1>2, ToEffect DEF Fails, TaskPanics, Travelling
  <1>3. CASE t \in tainted /\ Travelling(t) /\ ~Blamed /\ JoinActions(t)
    BY <1>3, ToEffect DEF JoinActions, Travelling
  <1>4. CASE AnnounceFailure(t)
    BY <1>4, ToEffect DEF AnnounceFailure, Travelling
  <1>5. CASE SendFailure(t)
    <2>1. PICK q \in BOOLEAN : Send(Finished(t, TargetFailure(q)))
      BY <1>5 DEF SendFailure
    <2>2. Finished(t, TargetFailure(q)) \in Message
      BY MessageTypes
    <2>3. Bad(Finished(t, TargetFailure(q)))
      <3>1. DOMAIN TargetFailure(q) = {1} /\ TargetFailure(q)[1].integrity = "MissingTerminalResult"
        BY DEF TargetFailure
      <3>2. Blocking(TargetFailure(q)[1])
        BY <3>1 DEF Blocking, ReportDisposition
      <3> QED
        BY <3>1, <3>2 DEF Bad, HasBlocking, Finished
    <2> QED
      BY <1>5, <2>1, <2>2, <2>3, BadSent DEF SendFailure, repVars
  <1>6. CASE SendDropped(t)
    <2>1. TargetDropped(t) \in Message /\ Bad(TargetDropped(t)) /\ Send(TargetDropped(t))
      BY <1>6, MessageTypes DEF SendDropped, TargetDropped, Bad
    <2> QED
      BY <1>6, <2>1, BadSent DEF SendDropped, repVars
  <1>7. CASE /\ t \notin tainted
             /\ ~(Fails(t) \/ (To(t, "dropping") /\ Taint(t)) \/ TaskPanics(t))
    <2>1. tainted' = tainted
      BY <1>7 DEF TargetNext, TargetFaults, StartTarget, AcquireListing, ListingTimesOut,
         ListingReturns, EmptyShard, SendDiscovered, Announce, JoinActions, AnnounceFailure,
         SendFailure, SendDropped, RejectSpec, UnknownType, TaskPanics, TargetPanics,
         InvalidOverride
    <2> QED
      BY <1>7, <2>1
  <1>8. CASE Travelling(t) /\ t \in tainted
    <2>1. \/ JoinActions(t) \/ AnnounceFailure(t) \/ SendFailure(t) \/ SendDropped(t)
          \/ TaskPanics(t)
      BY <1>8 DEF Travelling, TargetNext, TargetFaults, StartTarget, AcquireListing,
         ListingTimesOut, ListingReturns, EmptyShard, SendDiscovered, Announce,
         RejectSpec, UnknownType, TargetPanics, InvalidOverride
    <2> QED
      BY <1>1, <1>2, <1>3, <1>4, <1>5, <1>6, <1>8, <2>1
  <1> QED
    BY <1>1, <1>2, <1>7, <1>8 DEF TaintTravels

\* What the two steps of an action task share.
LEMMA ActionFrame ==
    ASSUME TypeOK, Phases, TaintTravels, NEW t \in Targets, NEW b \in Blocks,
           ActionFinishes(t, b) \/ ActionPanics(t, b)
    PROVE  /\ UNCHANGED <<buckVars, mainVars, repVars, task, fault>>
           /\ task[t] = "running"
           /\ \A s \in Targets, c \in Blocks :
                /\ action'[s][c] = "running" => action[s][c] = "running"
                /\ action[s][c] = "panicked" => action'[s][c] = "panicked"
           /\ chan' = chan \/ \E m \in Message : Send(m)
           /\ tainted' \subseteq tainted \cup {t}
           /\ t \in tainted' => Blamed' \/ Travelling(t)'
  <1> USE DEF QuietTask
  <1>1. UNCHANGED <<buckVars, mainVars, repVars, task, fault>>
    BY DEF ActionFinishes, ActionPanics
  <1>2. action[t][b] = "running" /\ task[t] = "running"
    BY DEF ActionFinishes, ActionPanics, Phases
  <1>3. action \in [Targets -> [Blocks -> {"none", "running", "finished", "panicked"}]]
    BY DEF TypeOK
  <1>4. \A s \in Targets, c \in Blocks :
           /\ action'[s][c] = "running" => action[s][c] = "running"
           /\ action[s][c] = "panicked" => action'[s][c] = "panicked"
    <2>1. PICK e \in {"finished", "panicked"} : action' = [action EXCEPT ![t][b] = e]
      BY DEF ActionFinishes, ActionPanics
    <2> QED
      BY <2>1, <1>2, <1>3
  <1>5. CASE ActionFinishes(t, b)
    <2>1. PICK rs \in Batches :
            /\ Send(Finished(t, rs))
            /\ tainted' = IF \E i \in DOMAIN rs : MustFail(rs[i])
                          THEN tainted \cup {t} ELSE tainted
      BY <1>5 DEF ActionFinishes
    <2>2. rs \in Seq(Result) \ {<<>>} /\ Finished(t, rs) \in Message
      BY ConstantsAssumption, MessageTypes
    <2>3. (\E i \in DOMAIN rs : MustFail(rs[i])) => Bad(Finished(t, rs))
      <3>1. \A i \in DOMAIN rs : rs[i] \in Result
        BY <2>2
      <3> QED
        BY <3>1, BlockingIsMustFail DEF Bad, HasBlocking, Finished
    <2>4. (\E i \in DOMAIN rs : MustFail(rs[i])) => Blamed'
      BY <2>1, <2>2, <2>3, <1>1, BadSent DEF repVars
    <2>5. t \in tainted => Blamed' \/ Travelling(t)'
      <3>1. CASE Blamed
        BY <3>1, <2>1, <2>2, <1>1, BlamedOutside DEF repVars
      <3>2. CASE Travelling(t)
        BY <3>2, <1>1, <1>2, <1>4 DEF Travelling
      <3> QED
        BY <3>1, <3>2 DEF TaintTravels
    <2> QED
      BY <1>1, <1>2, <1>4, <2>1, <2>2, <2>4, <2>5
  <1>6. CASE ActionPanics(t, b)
    <2>1. action'[t][b] = "panicked" /\ chan' = chan /\ tainted' = tainted \cup {t}
      BY <1>6, <1>3 DEF ActionPanics, Taint
    <2>2. Travelling(t)'
      BY <1>1, <1>2, <2>1 DEF Travelling
    <2> QED
      BY <1>1, <1>2, <1>4, <2>1, <2>2
  <1> QED
    BY <1>5, <1>6

\* The target and action tasks, seen by the others.
LEMMA OtherTargets ==
    ASSUME NEW t \in Targets, NEW s \in Targets \ {t}, task'[s] = task[s],
           \A c \in Blocks : action[s][c] = "panicked" => action'[s][c] = "panicked",
           Travelling(s)
    PROVE  Travelling(s)'
  BY DEF Travelling

LEMMA TaintStep ==
    ASSUME TypeOK, Phases, IntakeOrder, TaintTravels, Next
    PROVE  TaintTravels'
  <1>1. ASSUME NEW t \in Targets, TargetNext(t) \/ TargetFaults(t) PROVE TaintTravels'
    <2>1. Blamed => Blamed'
      BY <1>1, TargetFrame, BlamedOutside DEF repVars
    <2>2. \A s \in tainted \ {t} : Blamed' \/ Travelling(s)'
      BY <1>1, <2>1, TargetFrame, OtherTargets DEF TaintTravels, TypeOK
    <2> QED
      BY <1>1, <2>2, TargetFrame, TargetTaint DEF TaintTravels
  <1>2. ASSUME NEW t \in Targets, NEW b \in Blocks, ActionFinishes(t, b) \/ ActionPanics(t, b)
        PROVE  TaintTravels'
    <2>1. Blamed => Blamed'
      BY <1>2, ActionFrame, BlamedOutside DEF repVars
    <2>2. \A s \in tainted \ {t} : Blamed' \/ Travelling(s)'
      BY <1>2, <2>1, ActionFrame, OtherTargets DEF TaintTravels, TypeOK
    <2> QED
      BY <1>2, <2>2, ActionFrame DEF TaintTravels
  <1>3. CASE ReporterNext \/ ReporterPanics
    <2>1. UNCHANGED <<taskVars, tainted>>
      BY <1>3 DEF ReporterNext, ReceiveDiscovered, ReceiveDropped, ReceiveFinished, Fold,
         ReporterReturns, ReporterPanics, QuietReporter
    <2> QED
      BY <1>3, <2>1, BlamedInside DEF TaintTravels, Travelling, taskVars
  <1>4. CASE RecvSpec
    <2>1. PICK t \in Targets :
            /\ task[t] = "queued"
            /\ \/ To(t, "start") /\ UNCHANGED tainted
               \/ To(t, "dropping") /\ Taint(t)
      <3>1. Head(intake) \in Targets /\ 1 \in DOMAIN intake /\ Head(intake) = intake[1]
        BY <1>4, HeadTailType DEF RecvSpec, TypeOK
      <3>2. task[Head(intake)] = "queued"
        BY <3>1 DEF IntakeOrder
      <3> QED
        BY <1>4, <3>1, <3>2 DEF RecvSpec
    <2>2. UNCHANGED <<repVars, chan, action>>
      BY <1>4 DEF RecvSpec
    <2>3. ~Travelling(t)
      BY <2>1 DEF Travelling
    <2>4. Blamed => Blamed'
      BY <2>2, BlamedOutside DEF repVars
    <2>5. \A s \in tainted \ {t} : Blamed' \/ Travelling(s)'
      BY <2>1, <2>2, <2>4, ToEffect, OtherTargets DEF TaintTravels, TypeOK
    <2>6. t \in tainted' => Blamed' \/ Travelling(t)'
      BY <2>1, <2>3, <2>4, ToEffect DEF TaintTravels, Travelling
    <2> QED
      BY <2>1, <2>5, <2>6 DEF TaintTravels, Taint
  <1>5. CASE (\E t \in Targets : BuckSends(t)) \/ BuckEnds \/ BuckLeaves
    <2>1. /\ UNCHANGED <<repVars, chan, action, tainted>>
          /\ \A s \in Targets : task[s] = "absent" \/ task'[s] = task[s]
      BY <1>5, ToEffect DEF BuckSends, BuckEnds, BuckLeaves, taskVars
    <2>2. Blamed => Blamed'
      BY <2>1, BlamedOutside DEF repVars
    <2>3. \A s \in Targets : Travelling(s) => Travelling(s)'
      BY <2>1 DEF Travelling
    <2> QED
      BY <2>1, <2>2, <2>3 DEF TaintTravels, TypeOK
  <1>6. CASE (MainNext /\ ~RecvSpec) \/ SetupPanics
    <2>1. /\ UNCHANGED <<repVars, taskVars, tainted>>
          /\ chan' = chan \/ \E m \in Message : Send(m)
      BY <1>6, MessageTypes DEF MainNext, SetupPanics, Setup, DrainIntake, RecvEnd, SendMissing,
         JoinTargets, FoldVerdict, EndOfTests, TypeOK
    <2>2. Blamed => Blamed'
      BY <2>1, BlamedOutside DEF repVars
    <2> QED
      BY <2>1, <2>2 DEF TaintTravels, Travelling, taskVars
  <1>7. CASE Rests
    BY <1>7 DEF Rests, vars, repVars, taskVars, TaintTravels, Travelling, Blamed
  <1> QED
    BY <1>1, <1>2, <1>3, <1>4, <1>5, <1>6, <1>7 DEF Next

LEMMA FaultStep ==
    ASSUME TypeOK, Phases, FaultTravels, Next
    PROVE  FaultTravels'
  <1>1. CASE \E t \in Targets : TargetNext(t) \/ TargetFaults(t)
    BY <1>1, TargetFrame, BlamedOutside DEF FaultTravels, repVars, mainVars
  <1>2. CASE \E t \in Targets, b \in Blocks : ActionFinishes(t, b) \/ ActionPanics(t, b)
    <2>1. /\ UNCHANGED <<repVars, mainVars, fault>>
          /\ chan' = chan \/ \E m \in Message : Send(m)
      BY <1>2, MessageTypes, ConstantsAssumption DEF ActionFinishes, ActionPanics, QuietTask
    <2> QED
      BY <2>1, BlamedOutside DEF FaultTravels, repVars, mainVars
  <1>3. CASE ReporterNext \/ ReporterPanics
    <2>1. UNCHANGED mainVars
      BY <1>3 DEF ReporterNext, ReceiveDiscovered, ReceiveDropped, ReceiveFinished, Fold,
         ReporterReturns, ReporterPanics, QuietReporter
    <2>2. fault' => fault \/ Blamed'
      BY <1>3 DEF ReporterNext, ReceiveDiscovered, ReceiveDropped, ReceiveFinished, Fold,
         ReporterReturns, ReporterPanics, Blamed
    <2> QED
      BY <1>3, <2>1, <2>2, BlamedInside DEF FaultTravels, mainVars
  <1>4. CASE SendMissing
    <2>1. PICK t \in missing : Send(TargetDropped(t)) /\ missing' = missing \ {t}
      BY <1>4 DEF SendMissing
    <2>2. TargetDropped(t) \in Message /\ Bad(TargetDropped(t))
      BY <2>1, MessageTypes DEF TargetDropped, Bad, TypeOK
    <2> QED
      BY <1>4, <2>1, <2>2, BadSent DEF SendMissing, FaultTravels, repVars
  <1>5. CASE (MainNext /\ ~SendMissing) \/ SetupPanics
    <2>1. UNCHANGED <<repVars, chan>>
      BY <1>5 DEF MainNext, SetupPanics, Setup, DrainIntake, RecvSpec, RecvEnd, JoinTargets,
         FoldVerdict, EndOfTests
    <2>2. fault' /\ ~Blamed => exit' = SchedulerPanicExit \/ missing' # {}
      <3>a. /\ exit = SchedulerPanicExit => main \in {"returned", "ended"}
            /\ missing # {} => main = "missing"
            /\ fault \in BOOLEAN
        BY DEF Phases, SchedulerPanicExit, NoExit, TypeOK
      <3>1. CASE SetupPanics \/ RecvEnd
        BY <3>1, <3>a DEF SetupPanics, RecvEnd, FaultTravels
      <3>2. CASE FoldVerdict \/ DrainIntake
        BY <3>2, <3>a DEF FoldVerdict, DrainIntake, FaultTravels
      <3>3. CASE Setup \/ RecvSpec \/ JoinTargets \/ EndOfTests
        BY <1>5, <3>3 DEF Setup, RecvSpec, JoinTargets, EndOfTests, FaultTravels
      <3> QED
        BY <1>5, <3>1, <3>2, <3>3 DEF MainNext
    <2> QED
      BY <2>1, <2>2, BlamedOutside DEF FaultTravels, repVars
  <1>6. CASE (\E t \in Targets : BuckSends(t)) \/ BuckEnds \/ BuckLeaves \/ Rests
    <2>1. UNCHANGED <<repVars, chan, mainVars, fault>>
      BY <1>6 DEF BuckSends, BuckEnds, BuckLeaves, Rests, vars
    <2> QED
      BY <2>1, BlamedOutside DEF FaultTravels, repVars, mainVars
  <1> QED
    BY <1>1, <1>2, <1>3, <1>4, <1>5, <1>6 DEF Next

-------------------------------------------------------------------------------
\* The intake after an envelope was sent, and after one was received.
LEMMA IntakeShift ==
    /\ \A e : LET s == Append(intake, e) IN
         intake \in Seq(Targets \cup {EndOfRequests}) =>
           /\ Len(intake) \in Nat /\ DOMAIN intake = 1 .. Len(intake)
           /\ Len(s) = Len(intake) + 1 /\ DOMAIN s = 1 .. Len(intake) + 1
           /\ s[Len(intake) + 1] = e
           /\ \A i \in 1 .. Len(intake) : s[i] = intake[i]
    /\ intake \in Seq(Targets \cup {EndOfRequests}) /\ intake # <<>> =>
         /\ Len(intake) \in Nat /\ DOMAIN intake = 1 .. Len(intake) /\ Len(intake) >= 1
         /\ DOMAIN Tail(intake) = 1 .. Len(intake) - 1
         /\ Len(Tail(intake)) = Len(intake) - 1
         /\ \A i \in 1 .. Len(intake) - 1 : Tail(intake)[i] = intake[i + 1]
         /\ Head(intake) = intake[1]
  OBVIOUS

LEMMA IntakeStep ==
    ASSUME TypeOK, Phases, IntakeOrder, Next
    PROVE  IntakeOrder'
  <1>a. intake \in Seq(Targets \cup {EndOfRequests})
    BY DEF TypeOK
  <1>1. ASSUME NEW t \in Targets, TargetNext(t) \/ TargetFaults(t) PROVE IntakeOrder'
    <2>1. /\ UNCHANGED <<intake, mode, buck>>
          /\ \A s \in Targets : task[s] = "queued" <=> task'[s] = "queued"
      BY <1>1, TargetFrame DEF Joined, buckVars, mainVars
    <2> QED
      BY <2>1 DEF IntakeOrder
  <1>2. CASE \/ \E t \in Targets, b \in Blocks : ActionFinishes(t, b) \/ ActionPanics(t, b)
             \/ ReporterNext \/ ReporterPanics \/ Rests
             \/ Setup \/ SetupPanics \/ SendMissing \/ JoinTargets \/ FoldVerdict \/ EndOfTests
    <2>1. UNCHANGED <<intake, mode, buck, task>>
      BY <1>2 DEF ActionFinishes, ActionPanics, QuietTask, ReporterNext, ReceiveDiscovered,
         ReceiveDropped, ReceiveFinished, Fold, ReporterReturns, ReporterPanics, QuietReporter,
         Rests, Setup, SetupPanics, SendMissing, JoinTargets, FoldVerdict, EndOfTests, vars,
         buckVars, mainVars, taskVars
    <2> QED
      BY <2>1 DEF IntakeOrder
  <1>3. CASE BuckEnds \/ BuckLeaves
    <2>1. \A i \in DOMAIN intake : intake[i] # EndOfRequests
      BY <1>3 DEF BuckEnds, BuckLeaves, IntakeOrder
    <2>2. UNCHANGED <<mode, task>> /\ (BuckEnds => buck' = "ended")
          /\ (intake' = intake \/ (BuckEnds /\ intake' = Append(intake, EndOfRequests)))
      BY <1>3 DEF BuckEnds, BuckLeaves, mainVars, taskVars
    <2>3. CASE intake' = intake
      BY <2>1, <2>2, <2>3 DEF IntakeOrder
    <2>4. CASE BuckEnds /\ intake' = Append(intake, EndOfRequests)
      <3>1. EndOfRequests \notin Targets
        BY ConstantsAssumption
      <3> QED
        BY <2>1, <2>2, <2>4, <1>a, <3>1, IntakeShift DEF IntakeOrder
    <2> QED
      BY <2>2, <2>3, <2>4
  <1>4. ASSUME NEW t \in Targets, BuckSends(t) PROVE IntakeOrder'
    <2>1. \A i \in DOMAIN intake : intake[i] # EndOfRequests /\ intake[i] # t
      BY <1>4 DEF BuckSends, IntakeOrder
    <2>2. \A s \in Targets \ {t} : task'[s] = task[s]
      BY <1>4, ToEffect DEF BuckSends
    <2>3. \/ IntakeOpen /\ task'[t] = "queued" /\ intake' = Append(intake, t)
          \/ task'[t] = "refused" /\ intake' = intake
      BY <1>4, ToEffect DEF BuckSends
    <2>4. UNCHANGED <<mode, buck>> /\ task[t] = "absent"
      BY <1>4 DEF BuckSends, mainVars
    <2>5. CASE task'[t] = "refused" /\ intake' = intake
      BY <2>1, <2>2, <2>4, <2>5, <1>a DEF IntakeOrder
    <2>6. CASE task'[t] = "queued" /\ intake' = Append(intake, t)
      <3>1. t # EndOfRequests
        BY ConstantsAssumption
      <3> QED
        BY <2>1, <2>2, <2>4, <2>6, <3>1, <1>a, IntakeShift DEF IntakeOrder
    <2> QED
      BY <2>3, <2>5, <2>6
  <1>5. CASE RecvSpec
    <2>1. /\ UNCHANGED <<mode, buck>> /\ intake # <<>> /\ intake' = Tail(intake)
          /\ Head(intake) \in Targets
          /\ task'[Head(intake)] \in {"start", "dropping"}
          /\ \A s \in Targets \ {Head(intake)} : task'[s] = task[s]
      BY <1>5, <1>a, HeadTailType, ToEffect DEF RecvSpec
    <2>2. /\ Len(intake) \in Nat /\ DOMAIN intake = 1 .. Len(intake) /\ Len(intake) >= 1
          /\ DOMAIN intake' = 1 .. Len(intake) - 1 /\ Len(intake') = Len(intake) - 1
          /\ \A i \in DOMAIN intake' : i + 1 \in DOMAIN intake /\ intake'[i] = intake[i + 1]
          /\ Head(intake) = intake[1]
      BY <2>1, <1>a, IntakeShift
    <2>3. \A i \in DOMAIN intake' : intake'[i] # Head(intake)
      <3>1. \A i \in DOMAIN intake' : i + 1 # 1 /\ 1 \in DOMAIN intake
        BY <2>2
      <3> QED
        BY <2>2, <3>1 DEF IntakeOrder
    <2>4. ASSUME NEW s \in Targets, task'[s] = "queued", mode \in {"run", "list"}
          PROVE  \E i \in DOMAIN intake' : intake'[i] = s
      <3>1. s # Head(intake) /\ task[s] = "queued"
        BY <2>1, <2>4
      <3>2. PICK i \in DOMAIN intake : intake[i] = s
        BY <2>4, <3>1 DEF IntakeOrder
      <3>3. i - 1 \in DOMAIN intake' /\ intake'[i - 1] = s
        BY <2>2, <3>1, <3>2
      <3> QED
        BY <3>3
    <2>5. ASSUME NEW i \in DOMAIN intake'
          PROVE  /\ intake'[i] \in Targets => task'[intake'[i]] = "queued"
                 /\ intake'[i] = EndOfRequests => i = Len(intake') /\ buck = "ended"
                 /\ \A j \in DOMAIN intake' : intake'[i] = intake'[j] => i = j
      <3>1. i + 1 \in DOMAIN intake /\ intake'[i] = intake[i + 1]
        BY <2>2
      <3>2. intake'[i] \in Targets => task'[intake'[i]] = "queued"
        BY <2>1, <2>3, <3>1 DEF IntakeOrder
      <3>3. intake'[i] = EndOfRequests => i + 1 = Len(intake) /\ buck = "ended"
        BY <3>1 DEF IntakeOrder
      <3>4. \A j \in DOMAIN intake' : intake'[i] = intake'[j] => i + 1 = j + 1
        BY <2>2, <3>1 DEF IntakeOrder
      <3> QED
        BY <2>2, <3>2, <3>3, <3>4
    <2> QED
      BY <2>1, <2>4, <2>5 DEF IntakeOrder
  <1>6. CASE RecvEnd \/ DrainIntake
    <2>1. UNCHANGED <<mode, buck, task>>
      BY <1>6 DEF RecvEnd, DrainIntake, taskVars
    <2>2. CASE intake' = intake
      BY <2>1, <2>2 DEF IntakeOrder
    <2>3. CASE intake # <<>> /\ intake' = Tail(intake)
      <3>1. mode \in {"run", "list"} => Head(intake) = EndOfRequests
        BY <1>6, <2>3 DEF RecvEnd, DrainIntake, IntakeEnds, Phases
      <3> QED
        BY <2>1, <2>3, <3>1, <1>a, IntakeShift, ConstantsAssumption DEF IntakeOrder
    <2>4. CASE DrainIntake /\ intake' = <<>>
      BY <2>1, <2>4 DEF DrainIntake, IntakeOrder, Phases
    <2> QED
      BY <1>6, <2>2, <2>3, <2>4 DEF RecvEnd, DrainIntake, IntakeEnds
  <1> QED
    BY <1>1, <1>2, <1>3, <1>4, <1>5, <1>6 DEF Next, MainNext

-------------------------------------------------------------------------------
LEMMA PhasesStep ==
    ASSUME TypeOK, Phases, IntakeOrder, Next
    PROVE  Phases'
  <1> USE DEF repVars, buckVars, taskVars, mainVars
  <1>1. ASSUME NEW t \in Targets, TargetNext(t) \/ TargetFaults(t) PROVE Phases'
    <2>1. /\ UNCHANGED <<buckVars, mainVars, repVars>> /\ ~Joined(t)
          /\ \A s \in Targets \ {t} : task'[s] = task[s] /\ action'[s] = action[s]
      BY <1>1, TargetFrame
    <2>2. main \in {"intake", "missing"} /\ rep # "returned"
      BY <2>1 DEF Phases
    <2>3. \A b \in Blocks : action'[t][b] = "running" => task'[t] = "running"
      BY <1>1, TargetRuns
    <2>4. \A s \in Targets, b \in Blocks : action'[s][b] = "running" => task'[s] = "running"
      BY <2>1, <2>3 DEF Phases
    <2> QED
      BY <2>1, <2>2, <2>4 DEF Phases
  <1>2. ASSUME NEW t \in Targets, NEW b \in Blocks, ActionFinishes(t, b) \/ ActionPanics(t, b)
        PROVE  Phases'
    <2>1. UNCHANGED <<buckVars, mainVars, repVars, task>>
      BY <1>2 DEF ActionFinishes, ActionPanics, QuietTask
    <2>2. task[t] = "running"
      BY <1>2 DEF ActionFinishes, ActionPanics, Phases
    <2>3. main \in {"intake", "missing"} /\ rep # "returned"
      BY <2>2 DEF Phases, Joined
    <2>4. \A s \in Targets, c \in Blocks : action'[s][c] = "running" => action[s][c] = "running"
      <3>1. PICK e \in {"finished", "panicked"} : action' = [action EXCEPT ![t][b] = e]
        BY <1>2 DEF ActionFinishes, ActionPanics
      <3>2. action[t][b] = "running"
        BY <1>2 DEF ActionFinishes, ActionPanics
      <3>3. action \in [Targets -> [Blocks -> {"none", "running", "finished", "panicked"}]]
        BY DEF TypeOK
      <3> QED
        BY <3>1, <3>2, <3>3
    <2> QED
      BY <2>1, <2>3, <2>4 DEF Phases, Joined
  <1>3. CASE ReporterNext \/ ReporterPanics
    <2>1. UNCHANGED <<buckVars, mainVars, taskVars>>
      BY <1>3 DEF ReporterNext, ReceiveDiscovered, ReceiveDropped, ReceiveFinished, Fold,
         ReporterReturns, ReporterPanics, QuietReporter
    <2>2. /\ rep \in {"recv", "fold"}
          /\ rep' = "returned" => chan' = <<>> /\ main = "closing"
      BY <1>3 DEF ReporterNext, ReceiveDiscovered, ReceiveDropped, ReceiveFinished, Fold,
         ReporterReturns, ReporterPanics
    <2> QED
      BY <2>1, <2>2 DEF Phases, Joined
  <1>4. CASE RecvSpec
    <2>1. PICK t \in Targets : task[t] = "queued" /\ (To(t, "start") \/ To(t, "dropping"))
      <3>1. Head(intake) \in Targets /\ 1 \in DOMAIN intake /\ Head(intake) = intake[1]
        BY <1>4, HeadTailType DEF RecvSpec, TypeOK
      <3> QED
        BY <1>4, <3>1 DEF RecvSpec, IntakeOrder
    <2>2. /\ UNCHANGED <<mode, main, missing, exit, endCalls, buck, action, repVars, chan>>
          /\ main = "intake"
      BY <1>4 DEF RecvSpec
    <2>3. \A s \in Targets, b \in Blocks : action'[s][b] = "running" => task'[s] = "running"
      BY <2>1, <2>2, ToEffect DEF Phases
    <2> QED
      BY <2>2, <2>3 DEF Phases
  <1>5. CASE (\E t \in Targets : BuckSends(t)) \/ BuckEnds \/ BuckLeaves
    <2>1. /\ UNCHANGED <<mainVars, repVars, chan, action>> /\ buck = "sending"
          /\ \A s \in Targets :
               task'[s] = task[s] \/ (task[s] = "absent" /\ task'[s] \in {"queued", "refused"})
      <3>1. CASE BuckEnds \/ BuckLeaves
        BY <3>1 DEF BuckEnds, BuckLeaves
      <3>2. ASSUME NEW t \in Targets, BuckSends(t)
            PROVE  \A s \in Targets :
              task'[s] = task[s] \/ (task[s] = "absent" /\ task'[s] \in {"queued", "refused"})
        BY <3>2, ToEffect DEF BuckSends
      <3>3. CASE \E t \in Targets : BuckSends(t)
        BY <3>2, <3>3 DEF BuckSends
      <3> QED
        BY <1>5, <3>1, <3>3
    <2>2. main \notin {"missing", "closing"}
      BY <2>1 DEF Phases
    <2> QED
      BY <2>1, <2>2 DEF Phases, Joined
  <1>6. CASE RecvEnd
    <2>1. intake' = <<>> /\ buck = "ended"
      <3>1. /\ intake \in Seq(Targets \cup {EndOfRequests}) /\ Head(intake) = EndOfRequests
            /\ intake # <<>> /\ intake' = Tail(intake)
        BY <1>6 DEF RecvEnd, IntakeEnds, TypeOK
      <3>2. 1 \in DOMAIN intake /\ intake[1] = EndOfRequests
        BY <3>1, IntakeShift
      <3>3. Len(intake) = 1 /\ buck = "ended"
        BY <3>2 DEF IntakeOrder
      <3>4. Tail(intake) \in Seq(Targets \cup {EndOfRequests}) /\ Len(Tail(intake)) = 0
        BY <3>1, <3>3, HeadTailType
      <3>5. Tail(intake) = <<>>
        BY <3>4, EmptySeq
      <3> QED
        BY <3>1, <3>3, <3>5
    <2>2. /\ UNCHANGED <<mode, exit, buck, taskVars, repVars, chan>>
          /\ main = "intake" /\ main' = "missing"
      BY <1>6 DEF RecvEnd
    <2> QED
      BY <2>1, <2>2 DEF Phases
  <1>7. CASE Setup \/ SetupPanics
    <2>1. /\ UNCHANGED <<mode, missing, buckVars, taskVars, repVars, chan>>
          /\ main = "setup" /\ main' \in {"drain", "intake", "returned"}
          /\ main' = "drain" => mode \in {"help", "usage"}
          /\ main' = "intake" => mode \notin {"help", "usage"}
          /\ exit' = (IF main' = "returned" THEN SchedulerPanicExit ELSE exit)
      BY <1>7 DEF Setup, SetupPanics
    <2>2. mode \in {"run", "list", "help", "usage"}
      BY ConstantsAssumption DEF TypeOK
    <2> QED
      BY <2>1, <2>2 DEF Phases, Joined, NoExit, NonzeroExit, SchedulerPanicExit
  <1>8. CASE DrainIntake
    <2>1. /\ UNCHANGED <<mode, missing, buck, taskVars, repVars, chan>>
          /\ main = "drain"
          /\ \/ main' = main /\ exit' = exit
             \/ main' = "returned" /\ exit' \in {0, NonzeroExit}
      <3>1. CASE IntakeEnds
        BY <1>8, <3>1 DEF DrainIntake
      <3>2. CASE ~IntakeEnds
        BY <1>8, <3>2 DEF DrainIntake
      <3> QED
        BY <3>1, <3>2
    <2> QED
      BY <2>1 DEF Phases, Joined, NoExit, NonzeroExit
  <1>9. CASE SendMissing
    <2>1. UNCHANGED <<mode, main, exit, buckVars, taskVars, repVars>> /\ main = "missing"
      BY <1>9 DEF SendMissing
    <2> QED
      BY <2>1 DEF Phases
  <1>10. CASE JoinTargets
    BY <1>10 DEF JoinTargets, Phases, Joined
  <1>11. CASE FoldVerdict
    <2>1. exit' \in {0, NonzeroExit}
      BY <1>11 DEF FoldVerdict, ExitCode
    <2> QED
      BY <1>11, <2>1 DEF FoldVerdict, Phases, Joined, NoExit, NonzeroExit
  <1>12. CASE EndOfTests
    BY <1>12 DEF EndOfTests, Phases, Joined
  <1>13. CASE Rests
    BY <1>13 DEF Rests, vars, Phases, Joined
  <1> QED
    BY <1>1, <1>2, <1>3, <1>4, <1>5, <1>6, <1>7, <1>8, <1>9, <1>10, <1>11, <1>12, <1>13
    DEF Next, MainNext

-------------------------------------------------------------------------------
\* The step that returns the exit code is the one that could make it a false
\* green; after it every task is settled and nobody can find a new reason.
LEMMA GreenStep ==
    ASSUME Inv, Next, TypeOK', Phases'
    PROVE  NoFalseGreen'
  <1> USE DEF repVars, buckVars, taskVars, mainVars
  <1> SUFFICES ASSUME exit' = 0, mode' \in {"run", "list"}
               PROVE  /\ tainted' = {} /\ ~fault'
                      /\ \A t \in Targets : task'[t] \in {"absent", "refused", "done"}
    BY DEF NoFalseGreen
  <1>a. main' \in {"returned", "ended"} /\ missing' = {} /\ \A t \in Targets : Joined(t)'
    BY DEF Phases, NoExit
  <1>1. CASE FoldVerdict
    <2>1. /\ rep = "returned" /\ verdict # "Fail" /\ ~AnyTargetPanicked /\ main = "closing"
          /\ UNCHANGED <<mode, tainted, fault, taskVars, missing>>
      BY <1>1 DEF FoldVerdict, ExitCode, NonzeroExit
    <2>2. ~Blamed
      <3>1. chan = <<>>
        BY <2>1 DEF Inv, Phases
      <3>2. DOMAIN <<>> = {}
        OBVIOUS
      <3> QED
        BY <2>1, <3>1, <3>2 DEF Blamed
    <2>3. \A t \in Targets : ~Travelling(t)
      BY <2>1, <1>a DEF Travelling, Joined, AnyTargetPanicked
    <2>4. tainted = {}
      BY <2>2, <2>3 DEF Inv, TypeOK, TaintTravels
    <2>5. ~fault
      <3>1. exit = NoExit /\ missing = {}
        BY <2>1, <1>a DEF Inv, Phases
      <3> QED
        BY <2>2, <3>1 DEF Inv, FaultTravels, NoExit, SchedulerPanicExit
    <2>6. \A t \in Targets : task[t] # "queued"
      <3>1. intake = <<>>
        BY <2>1 DEF Inv, Phases
      <3>2. DOMAIN <<>> = {}
        OBVIOUS
      <3> QED
        BY <2>1, <3>1, <3>2 DEF Inv, IntakeOrder
    <2>7. \A t \in Targets : task[t] # "crashed"
      BY <2>1 DEF AnyTargetPanicked
    <2> QED
      BY <2>1, <2>4, <2>5, <2>6, <2>7, <1>a DEF Joined
  <1>2. CASE ~FoldVerdict
    <2>1. exit = 0 /\ mode = mode'
      <3>1. CASE MainNext \/ SetupPanics
        <4>1. ~Setup /\ ~RecvSpec /\ ~RecvEnd /\ ~SendMissing /\ ~JoinTargets
          BY <1>a DEF Setup, RecvSpec, RecvEnd, SendMissing, JoinTargets
        <4>2. ~SetupPanics
          BY DEF SetupPanics, SchedulerPanicExit
        <4>3. ~DrainIntake
          BY DEF DrainIntake, Inv, Phases
        <4> QED
          BY <1>2, <3>1, <4>1, <4>2, <4>3 DEF MainNext, EndOfTests
      <3>2. CASE ~(MainNext \/ SetupPanics)
        <4>1. UNCHANGED mainVars
          BY <3>2, TargetFrame DEF Next, Inv, BuckEnds, BuckLeaves, BuckSends, ReporterNext,
             ReceiveDiscovered, ReceiveDropped, ReceiveFinished, Fold, ReporterReturns,
             ReporterPanics, QuietReporter, ActionFinishes, ActionPanics, QuietTask, Rests, vars
        <4> QED
          BY <4>1
      <3> QED
        BY <3>1, <3>2
    <2>2. /\ tainted = {} /\ ~fault
          /\ \A t \in Targets : task[t] \in {"absent", "refused", "done"}
      BY <2>1 DEF Inv, NoFalseGreen
    <2>3. /\ main \in {"returned", "ended"} /\ rep \in {"returned", "dead"}
          /\ \A t \in Targets, b \in Blocks : action[t][b] # "running"
      BY <2>1, <2>2 DEF Inv, Phases, NoExit
    <2>4. ~(\E t \in Targets : TargetNext(t) \/ TargetFaults(t))
      BY <2>2, TargetFrame DEF Inv, Joined
    <2>5. /\ ~(\E t \in Targets, b \in Blocks : ActionFinishes(t, b) \/ ActionPanics(t, b))
          /\ ~ReporterNext /\ ~ReporterPanics
      BY <2>3 DEF ActionFinishes, ActionPanics, ReporterNext, ReceiveDiscovered, ReceiveDropped,
         ReceiveFinished, Fold, ReporterReturns, ReporterPanics
    <2>6. ~SetupPanics /\ (MainNext => EndOfTests)
      BY <2>3, <1>2 DEF SetupPanics, MainNext, Setup, DrainIntake, RecvSpec, RecvEnd, SendMissing,
         JoinTargets
    <2>7. CASE EndOfTests \/ BuckEnds \/ BuckLeaves \/ Rests
      BY <2>2, <2>7 DEF EndOfTests, BuckEnds, BuckLeaves, Rests, vars
    <2>8. ASSUME NEW t \in Targets, BuckSends(t)
          PROVE  /\ tainted' = {} /\ ~fault'
                 /\ \A s \in Targets : task'[s] \in {"absent", "refused", "done"}
      <3>1. To(t, "refused") /\ UNCHANGED <<tainted, fault>>
        BY <2>3, <2>8 DEF BuckSends, IntakeOpen
      <3> QED
        BY <2>2, <3>1, ToEffect DEF Inv
    <2> QED
      BY <2>4, <2>5, <2>6, <2>7, <2>8 DEF Next
  <1> QED
    BY <1>1, <1>2

LEMMA InitInv == Init => Inv
  <1> SUFFICES ASSUME Init PROVE Inv
    OBVIOUS
  <1>1. TypeOK
    BY InitType
  <1>2. DOMAIN <<>> = {}
    OBVIOUS
  <1>3. TaintTravels /\ FaultTravels /\ NoFalseGreen
    BY DEF Init, TaintTravels, FaultTravels, NoFalseGreen, NoExit
  <1>4. IntakeOrder
    BY <1>2 DEF Init, IntakeOrder
  <1>5. Phases
    BY DEF Init, Phases, Joined, NoExit, NonzeroExit
  <1> QED
    BY <1>1, <1>3, <1>4, <1>5 DEF Inv

LEMMA InvStep == Inv /\ [Next]_vars => Inv'
  <1> SUFFICES ASSUME Inv, [Next]_vars PROVE Inv'
    OBVIOUS
  <1>1. CASE UNCHANGED vars
    BY <1>1 DEF Inv, vars, repVars, buckVars, taskVars, mainVars, TypeOK, TaintTravels,
       FaultTravels, IntakeOrder, Phases, NoFalseGreen, Blamed, Travelling, Joined
  <1>2. CASE Next
    <2>1. TypeOK'
      BY <1>2, TypeStep DEF Inv
    <2>2. TaintTravels' /\ FaultTravels' /\ IntakeOrder' /\ Phases'
      BY <1>2, TaintStep, FaultStep, IntakeStep, PhasesStep DEF Inv
    <2>3. NoFalseGreen'
      BY <1>2, <2>1, <2>2, GreenStep
    <2> QED
      BY <2>1, <2>2, <2>3 DEF Inv
  <1> QED
    BY <1>1, <1>2

\* A test session that exits with 0 lost no reason to fail: no target was
\* dropped, failed or panicked, no result was blocking, no report rejected, no
\* override target missing, and every accepted spec was carried through.  For
\* any targets, any results of their actions, any limits.
THEOREM SafeGreen == Spec => []NoFalseGreen
  <1>1. Inv => NoFalseGreen
    BY DEF Inv
  <1> QED
    BY <1>1, InvStep, InitInv, PTL DEF Spec

-------------------------------------------------------------------------------
(* What the summary counts.                                                  *)

LEMMA WeightType == ASSUME NEW m \in Message PROVE Weight(m) \in Nat
  BY DEF Weight, Message, Batch

\* Load goes through the messages one by one.
LEMMA LoadSteps ==
    ASSUME NEW s \in Seq(Message)
    PROVE  \E g \in [0 .. Len(s) -> Nat] :
              /\ g[0] = 0 /\ g[Len(s)] = Load(s)
              /\ \A k \in 0 .. Len(s) - 1 : g[k + 1] = g[k] + Weight(s[k + 1])
  <1> DEFINE n == Len(s)
             Sums(it) == it = [t \in SUBSET (1 .. n) |->
                                 IF t = {} THEN 0 ELSE it[t \ {Greatest(t)}] + Weight(s[Greatest(t)])]
             iter == CHOOSE it : Sums(it)
  <1>1. n \in Nat /\ DOMAIN s = 1 .. n /\ \A k \in 1 .. n : s[k] \in Message
    OBVIOUS
  <1>2. Load(s) = iter[1 .. n]
    BY <1>1 DEF Load, SX!FoldLeft, SX!MapThenFoldSet, SX!Max, Greatest
  <1> HIDE DEF n
  <1>3. \E it : Sums(it)
    <2> DEFINE f == [p \in Nat \X (1 .. n) |-> p[1] + Weight(s[p[2]])]
    <2>1. f \in [Nat \X (1 .. n) -> Nat]
      <3>1. \A k \in 1 .. n : Weight(s[k]) \in Nat
        BY <1>1, WeightType
      <3> QED
        BY <3>1
    <2>2. \A a \in Nat, k \in 1 .. n : f[<<a, k>>] = a + Weight(s[k])
      OBVIOUS
    <2> HIDE DEF f
    <2>3. PICK it \in [SUBSET (1 .. n) -> Nat] : Iterates(it, n, 0, f)
      BY <1>1, <2>1, IteratesExist
    <2>4. ASSUME NEW t \in SUBSET (1 .. n), t # {}
          PROVE  f[<<it[t \ {Greatest(t)}], Greatest(t)>>] = it[t \ {Greatest(t)}] + Weight(s[Greatest(t)])
      <3>1. Greatest(t) \in t
        BY <1>1, <2>4, GreatestIsThere
      <3>2. it[t \ {Greatest(t)}] \in Nat
        OBVIOUS
      <3> QED
        BY <2>2, <3>1, <3>2
    <2>5. Sums(it)
      BY <2>3, <2>4 DEF Iterates
    <2> QED
      BY <2>5
  <1>4. Sums(iter)
    BY <1>3
  <1> HIDE DEF iter
  <1> DEFINE g == [k \in 0 .. n |-> iter[1 .. k]]
  <1>5. g[0] = 0
    <2>1. 1 .. 0 = {} /\ {} \in SUBSET (1 .. n)
      OBVIOUS
    <2> QED
      BY <1>1, <1>4, <2>1
  <1>6. ASSUME NEW k \in 0 .. n - 1 PROVE g[k + 1] = g[k] + Weight(s[k + 1])
    <2> DEFINE t == 1 .. k + 1
    <2>2. /\ t \in SUBSET (1 .. n) /\ t # {} /\ Greatest(t) = k + 1 /\ t \ {Greatest(t)} = 1 .. k
      BY <1>1, Leading
    <2> HIDE DEF t
    <2>3. iter[t] = iter[1 .. k] + Weight(s[k + 1])
      BY <1>4, <2>2
    <2>1. iter[1 .. k + 1] = iter[1 .. k] + Weight(s[k + 1])
      BY <2>3 DEF t
    <2> QED
      BY <1>1, <2>1
  <1>7. g[n] = Load(s)
    BY <1>1, <1>2
  <1>8. g \in [0 .. n -> Nat]
    <2> DEFINE T == {k \in Nat : k <= n => g[k] \in Nat}
    <2>1. 0 \in T
      BY <1>5
    <2>2. ASSUME NEW k \in T PROVE k + 1 \in T
      <3>1. k + 1 <= n => Weight(s[k + 1]) \in Nat /\ k \in 0 .. n - 1
        BY <1>1, WeightType
      <3> HIDE DEF g
      <3> QED
        BY <1>1, <1>6, <3>1
    <2>3. T = Nat
      <3> HIDE DEF T
      <3>1. T \in SUBSET Nat
        BY DEF T
      <3> QED
        BY <2>1, <2>2, <3>1, EveryNatural
    <2>4. \A k \in 0 .. n : g[k] \in Nat
      <3> HIDE DEF g
      <3> QED
        BY <1>1, <2>3
    <2> QED
      BY <2>4
  <1> HIDE DEF g
  <1> QED
    BY <1>1, <1>5, <1>6, <1>7, <1>8 DEF n

\* Two sums that take the same steps grow alike.
LEMMA SumsAlike ==
    ASSUME NEW n \in Nat, NEW g \in [0 .. n -> Nat], NEW h \in [0 .. n -> Nat],
           \A k \in 0 .. n - 1 : h[k + 1] - h[k] = g[k + 1] - g[k]
    PROVE  h[n] - h[0] = g[n] - g[0]
  <1> DEFINE P(k) == k <= n => h[k] - h[0] = g[k] - g[0]
             T == {k \in Nat : P(k)}
  <1>1. 0 \in T
    OBVIOUS
  <1>2. ASSUME NEW k \in Nat, P(k) PROVE P(k + 1)
    <2>1. SUFFICES ASSUME k + 1 <= n PROVE h[k + 1] - h[0] = g[k + 1] - g[0]
      OBVIOUS
    <2>2. k \in 0 .. n - 1 /\ k \in 0 .. n /\ k + 1 \in 0 .. n /\ 0 \in 0 .. n
      BY <2>1
    <2> DEFINE a == h[0]
               b == h[k]
               c == h[k + 1]
               x == g[0]
               y == g[k]
               z == g[k + 1]
    <2>3. /\ a \in Nat /\ b \in Nat /\ c \in Nat /\ x \in Nat /\ y \in Nat /\ z \in Nat
          /\ b - a = y - x /\ c - b = z - y
      BY <1>2, <2>1, <2>2
    <2> HIDE DEF a, b, c, x, y, z
    <2>4. c - a = z - x
      BY <2>3
    <2> QED
      BY <2>4 DEF a, c, x, z
  <1>3. T = Nat
    <2> HIDE DEF P
    <2>1. T \in SUBSET Nat /\ \A k \in T : k + 1 \in T
      BY <1>2
    <2> HIDE DEF T
    <2> QED
      BY <1>1, <2>1, EveryNatural
  <1>4. P(n)
    <2> HIDE DEF P
    <2> QED
      BY <1>3
  <1> QED
    BY <1>4

LEMMA LoadType == ASSUME NEW s \in Seq(Message) PROVE Load(s) \in Nat
  <1>1. PICK g \in [0 .. Len(s) -> Nat] : g[Len(s)] = Load(s)
    BY LoadSteps
  <1> QED
    BY <1>1

LEMMA LoadEmpty == Load(<<>>) = 0
  <1>1. <<>> \in Seq(Message) /\ Len(<<>>) = 0
    OBVIOUS
  <1> QED
    BY <1>1, LoadSteps

\* A message that is sent adds its weight.
LEMMA LoadAppend ==
    ASSUME NEW s \in Seq(Message), NEW m \in Message
    PROVE  Load(Append(s, m)) = Load(s) + Weight(m)
  <1> DEFINE a == Append(s, m)
             n == Len(s)
  <1>1. /\ a \in Seq(Message) /\ Len(a) = n + 1 /\ n \in Nat /\ a[n + 1] = m
        /\ \A k \in 1 .. n : a[k] = s[k] /\ s[k] \in Message
    OBVIOUS
  <1>2. PICK g \in [0 .. n -> Nat] :
          /\ g[0] = 0 /\ g[n] = Load(s)
          /\ \A k \in 0 .. n - 1 : g[k + 1] = g[k] + Weight(s[k + 1])
    BY LoadSteps
  <1>3. PICK h \in [0 .. n + 1 -> Nat] :
          /\ h[0] = 0 /\ h[n + 1] = Load(a)
          /\ \A k \in 0 .. n : h[k + 1] = h[k] + Weight(a[k + 1])
    <2> HIDE DEF a, n
    <2>1. PICK h \in [0 .. Len(a) -> Nat] :
            /\ h[0] = 0 /\ h[Len(a)] = Load(a)
            /\ \A k \in 0 .. Len(a) - 1 : h[k + 1] = h[k] + Weight(a[k + 1])
      BY <1>1, LoadSteps
    <2>2. Len(a) - 1 = n
      BY <1>1
    <2> QED
      BY <1>1, <2>1, <2>2
  <1> HIDE DEF a, n
  <1> DEFINE e == [k \in 0 .. n |-> h[k]]
  <1>4. h[n] = g[n]
    <2>1. e \in [0 .. n -> Nat] /\ e[0] = 0 /\ e[n] = h[n] /\ g[0] = 0
      BY <1>1, <1>2, <1>3
    <2>2. ASSUME NEW k \in 0 .. n - 1 PROVE e[k + 1] - e[k] = g[k + 1] - g[k]
      <3>1. k + 1 \in 1 .. n /\ k \in 0 .. n /\ k + 1 \in 0 .. n
        BY <1>1
      <3>2. Weight(s[k + 1]) \in Nat /\ a[k + 1] = s[k + 1]
        BY <1>1, <3>1, WeightType
      <3>3. g[k + 1] = g[k] + Weight(s[k + 1]) /\ e[k + 1] = e[k] + Weight(s[k + 1])
        BY <1>2, <1>3, <3>1, <3>2
      <3>4. g[k] \in Nat /\ e[k] \in Nat
        BY <2>1, <3>1
      <3> HIDE DEF e
      <3>5. g[k + 1] - g[k] = Weight(s[k + 1])
        BY <3>2, <3>3, <3>4
      <3>6. e[k + 1] - e[k] = Weight(s[k + 1])
        BY <3>2, <3>3, <3>4
      <3> QED
        BY <3>5, <3>6
    <2> HIDE DEF e
    <2>4. e[n] - e[0] = g[n] - g[0]
      BY <1>1, <2>1, <2>2, SumsAlike
    <2>5. e[n] \in Nat /\ g[n] \in Nat
      BY <1>1, <2>1
    <2> QED
      BY <2>1, <2>4, <2>5
  <1>5. h[n + 1] = h[n] + Weight(m)
    BY <1>1, <1>3
  <1> QED
    BY <1>2, <1>3, <1>4, <1>5 DEF a

\* A message that is received takes its weight away.
LEMMA LoadTail ==
    ASSUME NEW s \in Seq(Message), s # <<>>
    PROVE  Load(s) = Load(Tail(s)) + Weight(Head(s))
  <1> DEFINE a == Tail(s)
             n == Len(Tail(s))
  <1>1. /\ a \in Seq(Message) /\ n \in Nat /\ Len(s) = n + 1 /\ Head(s) = s[1] /\ Head(s) \in Message
        /\ \A k \in 1 .. n : a[k] = s[k + 1] /\ a[k] \in Message
    BY HeadTailType
  <1>2. PICK g \in [0 .. n -> Nat] :
          /\ g[0] = 0 /\ g[n] = Load(a)
          /\ \A k \in 0 .. n - 1 : g[k + 1] = g[k] + Weight(a[k + 1])
    BY <1>1, LoadSteps
  <1> HIDE DEF a, n
  <1>3. PICK h \in [0 .. n + 1 -> Nat] :
          /\ h[0] = 0 /\ h[n + 1] = Load(s)
          /\ \A k \in 0 .. n : h[k + 1] = h[k] + Weight(s[k + 1])
    <2>1. PICK h \in [0 .. Len(s) -> Nat] :
            /\ h[0] = 0 /\ h[Len(s)] = Load(s)
            /\ \A k \in 0 .. Len(s) - 1 : h[k + 1] = h[k] + Weight(s[k + 1])
      BY LoadSteps
    <2>2. Len(s) - 1 = n
      BY <1>1
    <2> QED
      BY <1>1, <2>1, <2>2
  <1> DEFINE d == Weight(Head(s))
  <1>4. d \in Nat /\ h[1] = d
    <2>1. d \in Nat
      BY <1>1, WeightType
    <2>2. 0 \in 0 .. n /\ h[0 + 1] = h[0] + Weight(s[0 + 1])
      BY <1>1, <1>3
    <2> QED
      BY <1>1, <1>3, <2>1, <2>2
  <1> DEFINE e == [k \in 0 .. n |-> h[k + 1]]
  <1>5. e \in [0 .. n -> Nat] /\ e[0] = d /\ e[n] = Load(s) /\ g[0] = 0
    <2>1. \A k \in 0 .. n : k + 1 \in 0 .. n + 1
      BY <1>1
    <2> QED
      BY <1>1, <1>2, <1>3, <1>4, <2>1
  <1>6. ASSUME NEW k \in 0 .. n - 1 PROVE e[k + 1] - e[k] = g[k + 1] - g[k]
    <2>1. /\ k + 1 \in 1 .. n /\ k + 1 \in 0 .. n /\ k \in 0 .. n
          /\ e[k + 1] = h[(k + 1) + 1] /\ e[k] = h[k + 1]
      BY <1>1
    <2>2. Weight(a[k + 1]) \in Nat /\ a[k + 1] = s[(k + 1) + 1]
      BY <1>1, <2>1, WeightType
    <2>3. g[k + 1] = g[k] + Weight(a[k + 1]) /\ e[k + 1] = e[k] + Weight(a[k + 1])
      BY <1>2, <1>3, <2>1, <2>2
    <2>4. g[k] \in Nat /\ e[k] \in Nat
      BY <1>5, <2>1
    <2> HIDE DEF e
    <2>5. g[k + 1] - g[k] = Weight(a[k + 1])
      BY <2>2, <2>3, <2>4
    <2>6. e[k + 1] - e[k] = Weight(a[k + 1])
      BY <2>2, <2>3, <2>4
    <2> QED
      BY <2>5, <2>6
  <1> HIDE DEF d, e
  <1>7. e[n] - e[0] = g[n] - g[0]
    BY <1>1, <1>5, <1>6, SumsAlike
  <1>8. e[n] \in Nat /\ g[n] \in Nat
    BY <1>1, <1>5
  <1>9. Load(s) = Load(a) + d
    BY <1>2, <1>4, <1>5, <1>7, <1>8
  <1> QED
    BY <1>9 DEF a, d

Held == IF rep = "fold" THEN Len(cur.results) ELSE 0

\* What a step hands to the channel is in the channel then, if somebody reads it.
LEMMA SentCounts ==
    ASSUME TypeOK, NothingLost, NEW m \in Message, Send(m), produced' = produced + Weight(m),
           UNCHANGED repVars
    PROVE  NothingLost'
  <1> SUFFICES ASSUME rep # "dead" PROVE NothingLost'
    BY DEF NothingLost, repVars
  <1>1. chan \in Seq(Message) /\ produced \in Nat /\ tally.total \in Nat /\ chan' = Append(chan, m)
    BY DEF TypeOK, Send
  <1>2. Load(chan') = Load(chan) + Weight(m) /\ Load(chan) \in Nat /\ Weight(m) \in Nat
    BY <1>1, LoadAppend, LoadType, WeightType
  <1>3. produced = tally.total + Load(chan) + Held
    BY DEF NothingLost, Held
  <1>4. Held' = Held /\ tally' = tally
    BY DEF Held, repVars
  <1>5. Held \in Nat
    <2>1. rep = "fold" => cur.results \in Seq(Result)
      BY DEF TypeOK, Batch
    <2> QED
      BY <2>1 DEF Held
  <1>6. produced + Weight(m) = tally.total + (Load(chan) + Weight(m)) + Held
    <2> DEFINE p == produced
               c == tally.total
               l == Load(chan)
               h == Held
               w == Weight(m)
    <2>1. p \in Nat /\ c \in Nat /\ l \in Nat /\ h \in Nat /\ w \in Nat /\ p = c + l + h
      BY <1>1, <1>2, <1>3, <1>5
    <2> HIDE DEF p, c, l, h, w
    <2>2. p + w = c + (l + w) + h
      BY <2>1
    <2> QED
      BY <2>2 DEF p, c, l, h, w
  <1>7. produced' = tally'.total + Load(chan') + Held'
    BY <1>2, <1>4, <1>6
  <1> QED
    BY <1>7 DEF NothingLost, Held

\* The reporter counts what it takes.
LEMMA ReporterCounts ==
    ASSUME TypeOK, NothingLost, ReporterNext \/ ReporterPanics
    PROVE  NothingLost'
  <1> USE DEF QuietReporter
  <1>1. CASE ReporterPanics
    BY <1>1 DEF ReporterPanics, NothingLost
  <1> SUFFICES ASSUME ReporterNext PROVE NothingLost'
    BY <1>1
  <1>2. /\ chan \in Seq(Message) /\ tally.total \in Nat /\ rep # "dead" /\ produced' = produced
        /\ produced = tally.total + Load(chan) + Held
    BY DEF TypeOK, ReporterNext, ReceiveDiscovered, ReceiveDropped, ReceiveFinished, Fold,
       ReporterReturns, NothingLost, Held
  <1>3. chan # <<>> => /\ Load(chan) = Load(Tail(chan)) + Weight(Head(chan)) /\ Load(Tail(chan)) \in Nat
                       /\ Head(chan) \in Message /\ Weight(Head(chan)) \in Nat
    BY <1>2, LoadTail, LoadType, HeadTailType, WeightType
  <1>4. Load(chan) \in Nat
    BY <1>2, LoadType
  <1> SUFFICES produced' = tally'.total + Load(chan') + Held'
    BY DEF NothingLost, Held
  <1>5. CASE ReceiveDiscovered
    <2>1. Weight(Head(chan)) = 0
      BY <1>3, <1>5 DEF ReceiveDiscovered, Weight, Message, Batch
    <2>2. Held = 0 /\ Held' = 0 /\ tally' = tally /\ chan' = Tail(chan) /\ chan # <<>>
      BY <1>5 DEF ReceiveDiscovered, repVars, Held
    <2> QED
      BY <1>2, <1>3, <2>1, <2>2
  <1>6. CASE ReceiveDropped
    <2>1. Weight(Head(chan)) = 1
      BY <1>6 DEF ReceiveDropped, Weight
    <2>2. Held = 0 /\ Held' = 0 /\ tally'.total = tally.total + 1 /\ chan' = Tail(chan) /\ chan # <<>>
      BY <1>6 DEF ReceiveDropped, Held
    <2> QED
      BY <1>2, <1>3, <2>1, <2>2
  <1>7. CASE ReceiveFinished
    <2>1. Weight(Head(chan)) = Held'
      BY <1>7 DEF ReceiveFinished, Weight, Held
    <2>2. Held = 0 /\ tally' = tally /\ chan' = Tail(chan) /\ chan # <<>>
      BY <1>7 DEF ReceiveFinished, Held
    <2> QED
      BY <1>2, <1>3, <2>1, <2>2
  <1>8. CASE Fold
    <2>1. cur \in Batch /\ cur.results # <<>> /\ cur.results \in Seq(Result)
      BY <1>8 DEF Fold, TypeOK, Batch
    <2>2. Len(Tail(cur.results)) = Len(cur.results) - 1 /\ Len(cur.results) \in Nat
          /\ Len(cur.results) >= 1
      BY <2>1, HeadTailType
    <2>3. cur'.results = Tail(cur.results)
      <3>1. cur' = [cur EXCEPT !.results = Tail(cur.results)]
        BY <1>8 DEF Fold
      <3> QED
        BY <2>1, <3>1 DEF Batch
    <2>4. rep' = IF Len(cur.results) = 1 THEN "recv" ELSE "fold"
      BY <1>8 DEF Fold
    <2>5. Held = Len(cur.results) /\ Held' = Len(cur.results) - 1
      <3>1. rep = "fold"
        BY <1>8 DEF Fold
      <3>2. CASE Len(cur.results) = 1
        BY <2>4, <3>1, <3>2 DEF Held
      <3>3. CASE Len(cur.results) # 1
        BY <2>2, <2>3, <2>4, <3>1, <3>3 DEF Held
      <3> QED
        BY <3>2, <3>3
    <2>6. tally'.total = tally.total + 1 /\ chan' = chan
      BY <1>8 DEF Fold
    <2> QED
      BY <1>2, <1>4, <2>2, <2>5, <2>6
  <1>9. CASE ReporterReturns
    BY <1>2, <1>9 DEF ReporterReturns, Held
  <1> QED
    BY <1>5, <1>6, <1>7, <1>8, <1>9 DEF ReporterNext

LEMMA CountStep == TypeOK /\ NothingLost /\ [Next]_vars => NothingLost'
  <1> SUFFICES ASSUME TypeOK, NothingLost, [Next]_vars PROVE NothingLost'
    OBVIOUS
  <1> USE DEF repVars
  <1>1. ASSUME UNCHANGED <<chan, produced>>, UNCHANGED repVars PROVE NothingLost'
    BY <1>1 DEF NothingLost
  <1>2. ASSUME NEW t \in Targets, SendDiscovered(t) PROVE NothingLost'
    <2>1. Discovered(t) \in Message /\ Weight(Discovered(t)) = 0
      BY MessageTypes DEF Weight, Discovered
    <2>2. produced' = produced + 0
      BY <1>2 DEF SendDiscovered, TypeOK
    <2> QED
      BY <1>2, <2>1, <2>2, SentCounts DEF SendDiscovered
  <1>3. ASSUME NEW t \in Targets, SendFailure(t) PROVE NothingLost'
    <2>1. PICK q \in BOOLEAN : Send(Finished(t, TargetFailure(q)))
      BY <1>3 DEF SendFailure
    <2>2. Finished(t, TargetFailure(q)) \in Message /\ Weight(Finished(t, TargetFailure(q))) = 1
      BY MessageTypes DEF Weight, Finished, TargetFailure
    <2> QED
      BY <1>3, <2>1, <2>2, SentCounts DEF SendFailure
  <1>4. ASSUME NEW t \in Targets, TargetDropped(t) \in Message => Send(TargetDropped(t)),
               produced' = produced + 1, UNCHANGED repVars
        PROVE  NothingLost'
    <2>1. TargetDropped(t) \in Message /\ Weight(TargetDropped(t)) = 1
      BY MessageTypes DEF Weight, TargetDropped
    <2> QED
      BY <1>4, <2>1, SentCounts
  <1>5. ASSUME NEW t \in Targets, TargetNext(t) \/ TargetFaults(t) PROVE NothingLost'
    <2>1. CASE SendDropped(t)
      BY <1>4, <2>1 DEF SendDropped
    <2>2. CASE ~SendDiscovered(t) /\ ~SendFailure(t) /\ ~SendDropped(t)
      BY <1>1, <1>5, <2>2 DEF TargetNext, TargetFaults, StartTarget, AcquireListing,
         ListingTimesOut, ListingReturns, EmptyShard, Announce, JoinActions, AnnounceFailure,
         RejectSpec, UnknownType, TaskPanics, TargetPanics, InvalidOverride, QuietTask
    <2> QED
      BY <1>2, <1>3, <2>1, <2>2
  <1>6. ASSUME NEW t \in Targets, NEW b \in Blocks, ActionFinishes(t, b) \/ ActionPanics(t, b)
        PROVE  NothingLost'
    <2>1. CASE ActionPanics(t, b)
      BY <1>1, <2>1 DEF ActionPanics, QuietTask
    <2>2. CASE ActionFinishes(t, b)
      <3>1. PICK rs \in Batches : Send(Finished(t, rs)) /\ produced' = produced + Len(rs)
        BY <2>2 DEF ActionFinishes
      <3>2. Finished(t, rs) \in Message /\ Weight(Finished(t, rs)) = Len(rs)
        BY MessageTypes, ConstantsAssumption DEF Weight, Finished
      <3> QED
        BY <2>2, <3>1, <3>2, SentCounts DEF ActionFinishes
    <2> QED
      BY <1>6, <2>1, <2>2
  <1>7. CASE ReporterNext \/ ReporterPanics
    BY <1>7, ReporterCounts
  <1>8. CASE SendMissing
    <2>1. PICK t \in missing : Send(TargetDropped(t))
      BY <1>8 DEF SendMissing
    <2>2. t \in Targets
      BY DEF TypeOK
    <2> QED
      BY <1>4, <1>8, <2>1, <2>2 DEF SendMissing
  <1>9. CASE (MainNext /\ ~SendMissing) \/ SetupPanics
    BY <1>1, <1>9 DEF MainNext, SetupPanics, Setup, DrainIntake, RecvSpec, RecvEnd, JoinTargets,
       FoldVerdict, EndOfTests
  <1>10. CASE (\E t \in Targets : BuckSends(t)) \/ BuckEnds \/ BuckLeaves \/ Rests \/ UNCHANGED vars
    BY <1>1, <1>10 DEF BuckSends, BuckEnds, BuckLeaves, Rests, vars
  <1> QED
    BY <1>5, <1>6, <1>7, <1>8, <1>9, <1>10 DEF Next

\* While the reporter lives, every result and every drop that a task handed
\* over is in the summary, in the reporter's hands or in the channel, once: for
\* any targets, any batches, any queue bound, in any interleaving of senders.
THEOREM EachIsCounted == Spec => []NothingLost
  <1>1. Init => NothingLost
    BY LoadEmpty DEF Init, NothingLost
  <1> QED
    BY <1>1, InitType, TypeStep, CountStep, PTL DEF Spec
-------------------------------------------------------------------------------
(* A session keeps what SessionPromise promises buck2: every step of Session *)
(* is a step of SessionPromise, or changes nothing buck2 observes.  Inv      *)
(* excludes a false green; this adds what excludes a false red, an           *)
(* unannounced result and a second end.                                      *)

Sick == tainted # {} \/ fault

\* Nothing blames the run, and no task is in trouble, without a reason.
Reasons ==
    /\ Blamed => Sick
    /\ missing # {} => fault
    /\ \A t \in Targets : Travelling(t) => t \in tainted
    /\ exit = SchedulerPanicExit => fault

\* Nothing has been started: help, usage errors, and a setup that is not over or panicked.
Idle == mode \in {"help", "usage"} \/ main = "setup" \/ exit = SchedulerPanicExit

Quiet ==
    /\ Idle => /\ rep = "recv" /\ chan = <<>> /\ verdict = "Pass"
               /\ \A t \in Targets : task[t] \in {"absent", "queued", "refused"}
    /\ Idle /\ exit # SchedulerPanicExit => tainted = {} /\ ~fault

\* What is said of a target, or is on its way to be said, comes after its discovery.
Shown ==
    /\ \A i \in DOMAIN chan : chan[i].kind = "Finished" => chan[i].target \in announced
    /\ rep = "fold" => cur.target \in announced
    /\ \A t \in Targets : task[t] \in {"running", "fail_send"} => t \in announced

\* The end is told once, with the exit code, and nothing is left by then.
Ending ==
    /\ endCalls = IF main = "ended" THEN 1 ELSE 0
    /\ mode \in {"run", "list"} /\ main \in {"returned", "ended"} =>
         exit = SchedulerPanicExit \/ (intake = <<>> /\ exit \in {0, NonzeroExit})
    /\ mode = "help" => exit \in {NoExit, 0}
    /\ mode = "usage" => exit \in {NoExit, NonzeroExit}

RInv == Inv /\ Reasons /\ Quiet /\ Shown /\ Ending /\ NoFalseRed

-------------------------------------------------------------------------------
(* What steps share.                                                         *)

\* A message sent is the only new one in the channel.
LEMMA SendBack ==
    ASSUME TypeOK, NEW m \in Message, Send(m)
    PROVE  \A i \in DOMAIN chan' : chan'[i] = m \/ (i \in DOMAIN chan /\ chan'[i] = chan[i])
  <1>1. chan \in Seq(Message)
    BY DEF TypeOK
  <1>2. CASE chan' = chan
    BY <1>2
  <1>3. CASE chan' = Append(chan, m)
    <2>1. /\ Len(chan) \in Nat /\ DOMAIN chan = 1 .. Len(chan)
          /\ DOMAIN chan' = 1 .. Len(chan) + 1 /\ chan'[Len(chan) + 1] = m
          /\ \A i \in 1 .. Len(chan) : chan'[i] = chan[i]
      BY <1>1, <1>3
    <2>2. \A i \in 1 .. Len(chan) + 1 : i = Len(chan) + 1 \/ i \in 1 .. Len(chan)
      BY <2>1
    <2> QED
      BY <2>1, <2>2
  <1> QED
    BY <1>2, <1>3 DEF Send

\* What is received was in the channel, and so was what stays.
LEMMA ReceiveBack ==
    ASSUME TypeOK, chan # <<>>
    PROVE  /\ Head(chan) \in Message /\ \E i \in DOMAIN chan : chan[i] = Head(chan)
           /\ \A j \in DOMAIN Tail(chan) : \E i \in DOMAIN chan : chan[i] = Tail(chan)[j]
  <1>1. chan \in Seq(Message)
    BY DEF TypeOK
  <1>2. /\ Head(chan) \in Message /\ Head(chan) = chan[1] /\ 1 \in DOMAIN chan
        /\ DOMAIN Tail(chan) = 1 .. Len(chan) - 1 /\ DOMAIN chan = 1 .. Len(chan)
        /\ Len(chan) \in Nat
        /\ \A j \in 1 .. Len(chan) - 1 : Tail(chan)[j] = chan[j + 1]
    BY <1>1, HeadTailType
  <1>3. \A j \in 1 .. Len(chan) - 1 : j + 1 \in 1 .. Len(chan)
    BY <1>2
  <1> QED
    BY <1>2, <1>3

\* A sent message blames the run only if it is bad.
LEMMA BlamedBack ==
    ASSUME TypeOK, NEW m \in Message, Send(m), UNCHANGED <<rep, cur, verdict>>, Blamed'
    PROVE  Blamed \/ Bad(m)
  BY SendBack DEF Blamed

\* What a session grows, it never shrinks.
LEMMA Grows ==
    ASSUME TypeOK, Next
    PROVE  /\ tainted \subseteq tainted' /\ announced \subseteq announced'
           /\ mode' = mode /\ (fault => fault')
  <1> USE DEF QuietTask, QuietReporter, repVars, buckVars, taskVars, mainVars
  <1>1. ASSUME NEW t \in Targets, TargetNext(t) \/ TargetFaults(t)
        PROVE  tainted \subseteq tainted' /\ announced \subseteq announced' /\ UNCHANGED <<mode, fault>>
    BY <1>1 DEF TargetNext, TargetFaults, StartTarget, AcquireListing, ListingTimesOut,
       ListingReturns, EmptyShard, SendDiscovered, Announce, JoinActions, AnnounceFailure,
       SendFailure, SendDropped, RejectSpec, UnknownType, TaskPanics, TargetPanics,
       InvalidOverride, Fails, Taint
  <1>2. CASE \E t \in Targets, b \in Blocks : ActionFinishes(t, b) \/ ActionPanics(t, b)
    BY <1>2 DEF ActionFinishes, ActionPanics, Taint
  <1>3. CASE ReporterNext \/ ReporterPanics
    <2>1. UNCHANGED <<tainted, announced, mode>>
      BY <1>3 DEF ReporterNext, ReceiveDiscovered, ReceiveDropped, ReceiveFinished, Fold,
         ReporterReturns, ReporterPanics
    <2>2. CASE Fold
      <3>1. \E rejected \in BOOLEAN : fault' = (fault \/ rejected)
        BY <2>2 DEF Fold
      <3> QED
        BY <2>1, <3>1
    <2>3. CASE ReporterPanics
      BY <2>1, <2>3 DEF ReporterPanics
    <2>4. CASE ReceiveDiscovered \/ ReceiveDropped \/ ReceiveFinished \/ ReporterReturns
      BY <2>1, <2>4 DEF ReceiveDiscovered, ReceiveDropped, ReceiveFinished, ReporterReturns
    <2> QED
      BY <1>3, <2>2, <2>3, <2>4 DEF ReporterNext
  <1>4. CASE MainNext \/ SetupPanics
    <2>1. tainted \subseteq tainted' /\ UNCHANGED <<announced, mode>>
      BY <1>4 DEF MainNext, SetupPanics, Setup, DrainIntake, RecvSpec, RecvEnd, SendMissing,
         JoinTargets, FoldVerdict, EndOfTests, Taint
    <2>2. CASE RecvEnd
      <3>1. fault' = (fault \/ missing' # {})
        BY <2>2 DEF RecvEnd
      <3> QED
        BY <2>1, <3>1
    <2>3. CASE SetupPanics
      BY <2>1, <2>3 DEF SetupPanics
    <2>4. CASE MainNext /\ ~RecvEnd
      BY <2>1, <2>4 DEF MainNext, Setup, DrainIntake, RecvSpec, SendMissing, JoinTargets,
         FoldVerdict, EndOfTests
    <2> QED
      BY <1>4, <2>2, <2>3, <2>4
  <1>5. CASE (\E t \in Targets : BuckSends(t)) \/ BuckEnds \/ BuckLeaves \/ Rests
    BY <1>5 DEF BuckSends, BuckEnds, BuckLeaves, Rests, vars
  <1> QED
    BY <1>1, <1>2, <1>3, <1>4, <1>5 DEF Next

\* Where nothing was started, or the exit code is known, little can happen.
LEMMA OverSteps ==
    ASSUME Inv, Quiet, Idle \/ main \in {"returned", "ended"}, Next
    PROVE  \/ Setup \/ SetupPanics \/ DrainIntake \/ EndOfTests
           \/ (\E t \in Targets : BuckSends(t)) \/ BuckEnds \/ BuckLeaves \/ Rests
  <1>1. TypeOK /\ Phases
    BY DEF Inv
  <1>2. main \notin {"intake", "missing", "closing"}
    BY <1>1 DEF Idle, Phases, NoExit, SchedulerPanicExit
  <1>3. \A t \in Targets : Joined(t)
    BY <1>1, <1>2 DEF Phases
  <1>4. ~(\E t \in Targets : TargetNext(t) \/ TargetFaults(t))
    BY <1>1, <1>3, TargetFrame
  <1>5. ~(\E t \in Targets, b \in Blocks : ActionFinishes(t, b) \/ ActionPanics(t, b))
    BY <1>1, <1>3 DEF ActionFinishes, ActionPanics, Phases, Joined
  <1>6. (rep = "recv" /\ chan = <<>>) \/ rep \in {"returned", "dead"}
    <2>1. CASE Idle
      BY <2>1 DEF Quiet
    <2>2. CASE ~Idle
      <3>1. exit \in {0, NonzeroExit} /\ mode \in {"run", "list"}
        BY <1>1, <2>2, ConstantsAssumption DEF Idle, Phases, TypeOK
      <3> QED
        BY <1>1, <3>1 DEF Phases
    <2> QED
      BY <2>1, <2>2
  <1>7. ~ReporterNext /\ ~ReporterPanics
    BY <1>2, <1>6 DEF ReporterNext, ReceiveDiscovered, ReceiveDropped, ReceiveFinished, Fold,
       ReporterReturns, ReporterPanics
  <1>8. ~RecvSpec /\ ~RecvEnd /\ ~SendMissing /\ ~JoinTargets /\ ~FoldVerdict
    BY <1>2 DEF RecvSpec, RecvEnd, SendMissing, JoinTargets, FoldVerdict
  <1> QED
    BY <1>4, <1>5, <1>7, <1>8 DEF Next, MainNext

-------------------------------------------------------------------------------
(* The parts of the invariant.                                               *)

LEMMA QuietStep ==
    ASSUME Inv, Quiet, Next
    PROVE  Quiet'
  <1>1. TypeOK /\ Phases /\ mode' = mode
    BY Grows DEF Inv
  <1>2. CASE ~Idle
    <2>1. ~Idle'
      <3>1. main' # "setup"
        BY <1>2, TargetFrame, <1>1 DEF Idle, Next, MainNext, SetupPanics, Setup, DrainIntake, RecvSpec,
           RecvEnd, SendMissing, JoinTargets, FoldVerdict, EndOfTests, BuckEnds, BuckLeaves, BuckSends,
           ReporterNext, ReceiveDiscovered, ReceiveDropped, ReceiveFinished, Fold, ReporterReturns,
           ReporterPanics, QuietReporter, ActionFinishes, ActionPanics, QuietTask, Rests, vars, mainVars
      <3>2. exit' # SchedulerPanicExit
        BY <1>2, TargetFrame, <1>1 DEF Idle, Next, MainNext, SetupPanics, Setup, DrainIntake, RecvSpec,
           RecvEnd, SendMissing, JoinTargets, FoldVerdict, EndOfTests, BuckEnds, BuckLeaves, BuckSends,
           ReporterNext, ReceiveDiscovered, ReceiveDropped, ReceiveFinished, Fold, ReporterReturns,
           ReporterPanics, QuietReporter, ActionFinishes, ActionPanics, QuietTask, Rests, vars, mainVars,
           ExitCode, NonzeroExit, SchedulerPanicExit
      <3> QED
        BY <1>1, <1>2, <3>1, <3>2 DEF Idle
    <2> QED
      BY <2>1 DEF Quiet
  <1>3. CASE Idle
    <2>1. \/ Setup \/ SetupPanics \/ DrainIntake \/ EndOfTests
          \/ (\E t \in Targets : BuckSends(t)) \/ BuckEnds \/ BuckLeaves \/ Rests
      BY <1>3, OverSteps
    <2>2. /\ UNCHANGED <<rep, chan, verdict, tainted>>
          /\ \A t \in Targets : task'[t] = task[t] \/ task'[t] \in {"queued", "refused"}
      BY <2>1, <1>1, ToEffect DEF Setup, SetupPanics, DrainIntake, EndOfTests, BuckSends, BuckEnds,
         BuckLeaves, Rests, vars, repVars, taskVars
    <2>3. exit' # SchedulerPanicExit => exit # SchedulerPanicExit /\ UNCHANGED fault
      BY <2>1, <1>1, ConstantsAssumption DEF Setup, SetupPanics, DrainIntake, EndOfTests, BuckSends,
         BuckEnds, BuckLeaves, Rests, vars, mainVars, NoExit, Phases, SchedulerPanicExit
    <2> QED
      BY <1>3, <2>2, <2>3 DEF Quiet
  <1> QED
    BY <1>2, <1>3

\* A target task that speaks of results has been announced.
LEMMA ShownStep ==
    ASSUME Inv, Shown, Next
    PROVE  Shown'
  <1>a. TypeOK /\ announced \subseteq announced'
    BY Grows DEF Inv
  <1>1. ASSUME NEW t \in Targets, TargetNext(t) \/ TargetFaults(t) PROVE Shown'
    <2>1. UNCHANGED <<rep, cur>> /\ \A s \in Targets \ {t} : task'[s] = task[s]
      BY <1>1, <1>a, TargetFrame DEF repVars
    <2>2. task'[t] \in {"running", "fail_send"} => t \in announced'
      BY <1>1, <1>a, ToEffect DEF TargetNext, TargetFaults, StartTarget, AcquireListing,
         ListingTimesOut, ListingReturns, EmptyShard, SendDiscovered, Announce, JoinActions,
         AnnounceFailure, SendFailure, SendDropped, RejectSpec, UnknownType, TaskPanics,
         TargetPanics, InvalidOverride, Fails
    <2>3. \A i \in DOMAIN chan' : chan'[i].kind = "Finished" => chan'[i].target \in announced'
      <3>1. CASE SendDiscovered(t) \/ SendDropped(t)
        <4>1. PICK m \in {Discovered(t), TargetDropped(t)} : Send(m)
          BY <3>1 DEF SendDiscovered, SendDropped
        <4>2. m \in Message /\ m.kind # "Finished"
          <5>1. m \in Message
            BY <4>1, MessageTypes
          <5>2. m.kind # "Finished"
            BY <4>1 DEF Discovered, TargetDropped
          <5> QED
            BY <5>1, <5>2
        <4> QED
          BY <1>a, <4>1, <4>2, SendBack DEF Shown
      <3>2. CASE SendFailure(t)
        <4>1. PICK q \in BOOLEAN : Send(Finished(t, TargetFailure(q)))
          BY <3>2 DEF SendFailure
        <4>2. Finished(t, TargetFailure(q)) \in Message /\ Finished(t, TargetFailure(q)).target = t
          BY <4>1, MessageTypes DEF Finished
        <4>3. t \in announced
          BY <3>2 DEF SendFailure, Shown
        <4> QED
          BY <1>a, <4>1, <4>2, <4>3, SendBack DEF Shown
      <3>3. CASE ~SendDiscovered(t) /\ ~SendDropped(t) /\ ~SendFailure(t)
        <4>1. chan' = chan
          BY <1>1, <3>3 DEF TargetNext, TargetFaults, StartTarget, AcquireListing,
             ListingTimesOut, ListingReturns, EmptyShard, Announce, JoinActions,
             AnnounceFailure, RejectSpec, UnknownType, TaskPanics, TargetPanics,
             InvalidOverride, QuietTask
        <4> QED
          BY <1>a, <4>1 DEF Shown
      <3> QED
        BY <3>1, <3>2, <3>3
    <2> QED
      BY <1>a, <2>1, <2>2, <2>3 DEF Shown
  <1>2. ASSUME NEW t \in Targets, NEW b \in Blocks, ActionFinishes(t, b) \/ ActionPanics(t, b)
        PROVE  Shown'
    <2>1. UNCHANGED <<rep, cur, task>> /\ task[t] = "running"
      BY <1>2, ActionFrame DEF Inv, repVars
    <2>2. CASE ActionFinishes(t, b)
      <3>1. PICK rs \in Batches : Send(Finished(t, rs))
        BY <2>2 DEF ActionFinishes
      <3>2. Finished(t, rs) \in Message /\ Finished(t, rs).target = t
        BY MessageTypes, ConstantsAssumption DEF Finished
      <3>3. t \in announced
        BY <2>1 DEF Shown
      <3> QED
        BY <1>a, <2>1, <3>1, <3>2, <3>3, SendBack DEF Shown
    <2>3. CASE ActionPanics(t, b)
      BY <1>a, <2>1, <2>3 DEF ActionPanics, QuietTask, Shown
    <2> QED
      BY <1>2, <2>2, <2>3
  <1>3. CASE ReporterNext \/ ReporterPanics
    <2>1. UNCHANGED task
      BY <1>3 DEF ReporterNext, ReceiveDiscovered, ReceiveDropped, ReceiveFinished, Fold,
         ReporterReturns, ReporterPanics, QuietReporter, taskVars
    <2>2. CASE ReceiveDiscovered \/ ReceiveDropped
      BY <1>a, <2>1, <2>2, ReceiveBack DEF ReceiveDiscovered, ReceiveDropped, repVars, Shown
    <2>3. CASE ReceiveFinished
      BY <1>a, <2>1, <2>3, ReceiveBack DEF ReceiveFinished, Shown
    <2>4. CASE Fold
      <3>1. cur'.target = cur.target /\ chan' = chan /\ rep = "fold"
        BY <1>a, <2>4 DEF Fold, TypeOK, Batch
      <3> QED
        BY <1>a, <2>1, <3>1 DEF Shown
    <2>5. CASE ReporterReturns
      BY <1>a, <2>1, <2>5 DEF ReporterReturns, Shown
    <2>6. CASE ReporterPanics
      <3>1. DOMAIN <<>> = {}
        OBVIOUS
      <3> QED
        BY <1>a, <2>1, <2>6, <3>1 DEF ReporterPanics, Shown
    <2> QED
      BY <1>3, <2>2, <2>3, <2>4, <2>5, <2>6 DEF ReporterNext
  <1>4. CASE SendMissing
    <2>1. PICK t \in missing : Send(TargetDropped(t))
      BY <1>4 DEF SendMissing
    <2>2. TargetDropped(t) \in Message /\ TargetDropped(t).kind # "Finished"
      BY <1>a, <2>1, MessageTypes DEF TargetDropped, TypeOK
    <2>3. UNCHANGED <<rep, cur, task>>
      BY <1>4 DEF SendMissing, repVars, taskVars
    <2> QED
      BY <1>a, <2>1, <2>2, <2>3, SendBack DEF Shown
  <1>5. CASE (MainNext /\ ~SendMissing) \/ SetupPanics
    <2>1. UNCHANGED <<rep, cur, chan>>
      BY <1>5 DEF MainNext, SetupPanics, Setup, DrainIntake, RecvSpec, RecvEnd, JoinTargets,
         FoldVerdict, EndOfTests, repVars
    <2>2. \A s \in Targets : task'[s] = task[s] \/ task'[s] \in {"start", "dropping"}
      <3>1. RecvSpec => Head(intake) \in Targets
        BY <1>a, HeadTailType DEF RecvSpec, TypeOK
      <3> QED
        BY <1>a, <1>5, <3>1, ToEffect DEF MainNext, SetupPanics, Setup, DrainIntake, RecvSpec,
           RecvEnd, JoinTargets, FoldVerdict, EndOfTests, taskVars
    <2> QED
      BY <1>a, <2>1, <2>2 DEF Shown
  <1>6. CASE (\E t \in Targets : BuckSends(t)) \/ BuckEnds \/ BuckLeaves \/ Rests
    <2>1. /\ UNCHANGED <<rep, cur, chan>>
          /\ \A s \in Targets : task'[s] = task[s] \/ task'[s] \in {"queued", "refused"}
      BY <1>a, <1>6, ToEffect DEF BuckSends, BuckEnds, BuckLeaves, Rests, vars, repVars, taskVars
    <2> QED
      BY <1>a, <2>1 DEF Shown
  <1> QED
    BY <1>1, <1>2, <1>3, <1>4, <1>5, <1>6 DEF Next

\* A target step that sets out to fail the run has, or finds, a reason to.
LEMMA TargetReasons ==
    ASSUME Inv, Reasons, NEW t \in Targets, TargetNext(t) \/ TargetFaults(t)
    PROVE  /\ Blamed' => Sick'
           /\ \A s \in Targets : Travelling(s)' => s \in tainted'
  <1>a. TypeOK /\ Phases /\ UNCHANGED <<rep, cur, verdict, fault>> /\ tainted \subseteq tainted'
    <2>1. Next
      BY DEF Next
    <2> QED
      BY <2>1, Grows, TargetFrame DEF Inv, repVars
  <1>1. Travelling(t)' => t \in tainted'
    <2>1. CASE Announce(t)
      <3>1. task'[t] \in {"running", "done"}
        BY <1>a, <2>1, ToEffect DEF Announce
      <3>2. task'[t] = "running" => \A b \in Blocks : action'[t][b] # "panicked"
        <4>1. action \in [Targets -> [Blocks -> {"none", "running", "finished", "panicked"}]]
          BY <1>a DEF TypeOK
        <4>2. task'[t] = "running" => \E n \in 1 .. MaxActions[t] : action' =
                [action EXCEPT ![t] = [b \in Blocks |-> IF b <= n THEN "running" ELSE "none"]]
          BY <1>a, <2>1, ToEffect DEF Announce
        <4> QED
          BY <4>1, <4>2
      <3> QED
        BY <3>1, <3>2 DEF Travelling
    <2>2. CASE JoinActions(t)
      <3>1. (\E b \in Blocks : action[t][b] = "panicked") => t \in tainted
        BY <2>2 DEF JoinActions, Reasons, Travelling
      <3>2. task'[t] = IF \E b \in Blocks : action[t][b] = "panicked" THEN "failing" ELSE "done"
        BY <1>a, <2>2, ToEffect DEF JoinActions
      <3> QED
        BY <1>a, <3>1, <3>2 DEF Travelling
    <2>3. CASE AnnounceFailure(t)
      BY <1>a, <2>3 DEF AnnounceFailure, Reasons, Travelling
    <2>4. CASE SendDiscovered(t) \/ SendFailure(t) \/ SendDropped(t)
      <3>1. task'[t] \in {"announcing", "done"}
        BY <1>a, <2>4, ToEffect DEF SendDiscovered, SendFailure, SendDropped
      <3> QED
        BY <3>1 DEF Travelling
    <2>5. CASE /\ ~Announce(t) /\ ~JoinActions(t) /\ ~AnnounceFailure(t)
               /\ ~SendDiscovered(t) /\ ~SendFailure(t) /\ ~SendDropped(t)
      <3>1. \/ t \in tainted'
            \/ task'[t] \in {"want_listing", "listing", "listed", "done"}
        BY <1>a, <2>5, ToEffect DEF TargetNext, TargetFaults, StartTarget, AcquireListing,
           ListingTimesOut, ListingReturns, EmptyShard, RejectSpec, UnknownType, TaskPanics,
           TargetPanics, InvalidOverride, Fails, Taint
      <3> QED
        BY <3>1 DEF Travelling
    <2> QED
      BY <2>1, <2>2, <2>3, <2>4, <2>5
  <1>2. \A s \in Targets \ {t} : Travelling(s)' => s \in tainted'
    BY <1>a, TargetFrame DEF Travelling, Reasons
  <1>3. Blamed' => Sick'
    <2>1. CASE SendDiscovered(t)
      <3>1. Send(Discovered(t)) /\ Discovered(t) \in Message
        BY <2>1, MessageTypes DEF SendDiscovered
      <3>2. ~Bad(Discovered(t))
        <4>1. DOMAIN <<>> = {}
          OBVIOUS
        <4> QED
          BY <4>1 DEF Bad, Discovered, HasBlocking
      <3> QED
        BY <1>a, <3>1, <3>2, BlamedBack DEF Reasons, Sick
    <2>2. CASE SendFailure(t) \/ SendDropped(t)
      <3>1. t \in tainted
        BY <2>2 DEF SendFailure, SendDropped, Reasons, Travelling
      <3> QED
        BY <1>a, <3>1 DEF Sick
    <2>3. CASE ~SendDiscovered(t) /\ ~SendDropped(t) /\ ~SendFailure(t)
      <3>1. chan' = chan
        BY <2>3 DEF TargetNext, TargetFaults, StartTarget, AcquireListing,
           ListingTimesOut, ListingReturns, EmptyShard, Announce, JoinActions,
           AnnounceFailure, RejectSpec, UnknownType, TaskPanics, TargetPanics,
           InvalidOverride, QuietTask
      <3> QED
        BY <1>a, <3>1 DEF Blamed, Reasons, Sick
    <2> QED
      BY <2>1, <2>2, <2>3
  <1> QED
    BY <1>1, <1>2, <1>3

\* So does an action: what it sends blames the run only for a result that must fail it.
LEMMA ActionReasons ==
    ASSUME Inv, Reasons, NEW t \in Targets, NEW b \in Blocks,
           ActionFinishes(t, b) \/ ActionPanics(t, b)
    PROVE  /\ Blamed' => Sick'
           /\ \A s \in Targets : Travelling(s)' => s \in tainted'
  <1>a. /\ TypeOK /\ UNCHANGED <<rep, cur, verdict, fault, task>> /\ task[t] = "running"
        /\ tainted \subseteq tainted'
    BY ActionFrame DEF Inv, repVars, ActionFinishes, ActionPanics, Taint
  <1>b. action \in [Targets -> [Blocks -> {"none", "running", "finished", "panicked"}]]
    BY <1>a DEF TypeOK
  <1>1. CASE ActionFinishes(t, b)
    <2>1. PICK rs \in Batches :
            /\ Send(Finished(t, rs))
            /\ tainted' = IF \E i \in DOMAIN rs : MustFail(rs[i])
                          THEN tainted \cup {t} ELSE tainted
      BY <1>1 DEF ActionFinishes
    <2>2. rs \in Seq(Result) \ {<<>>} /\ Finished(t, rs) \in Message
      BY ConstantsAssumption, MessageTypes
    <2>3. Bad(Finished(t, rs)) => t \in tainted'
      <3>1. \A i \in DOMAIN rs : rs[i] \in Result
        BY <2>2
      <3>2. Bad(Finished(t, rs)) => \E i \in DOMAIN rs : MustFail(rs[i])
        BY <3>1, BlockingIsMustFail DEF Bad, HasBlocking, Finished
      <3> QED
        BY <2>1, <3>2
    <2>4. Blamed' => Sick'
      BY <1>a, <2>1, <2>2, <2>3, BlamedBack DEF Reasons, Sick
    <2>5. action' = [action EXCEPT ![t][b] = "finished"]
      BY <1>1 DEF ActionFinishes
    <2>6. \A s \in Targets, c \in Blocks : action'[s][c] = "panicked" => action[s][c] = "panicked"
      BY <1>b, <2>5
    <2>7. \A s \in Targets : Travelling(s)' => s \in tainted'
      BY <1>a, <2>6 DEF Travelling, Reasons
    <2> QED
      BY <2>4, <2>7
  <1>2. CASE ActionPanics(t, b)
    <2>1. action' = [action EXCEPT ![t][b] = "panicked"] /\ t \in tainted' /\ chan' = chan
      BY <1>2 DEF ActionPanics, Taint, QuietTask
    <2>2. \A s \in Targets \ {t} : action'[s] = action[s]
      BY <1>b, <2>1
    <2>3. \A s \in Targets : Travelling(s)' => s \in tainted'
      BY <1>a, <2>1, <2>2 DEF Travelling, Reasons
    <2> QED
      BY <2>1, <2>3 DEF Sick
  <1> QED
    BY <1>1, <1>2

\* The reporter turns its verdict for what it was sent, or for a report rejected.
LEMMA ReporterReasons ==
    ASSUME Inv, Reasons, ReporterNext \/ ReporterPanics
    PROVE  Blamed' => Sick'
  <1>a. TypeOK /\ UNCHANGED tainted /\ (fault => fault')
    <2>1. Next
      BY DEF Next
    <2>2. UNCHANGED tainted
      BY DEF ReporterNext, ReceiveDiscovered, ReceiveDropped, ReceiveFinished, Fold,
         ReporterReturns, ReporterPanics, QuietReporter
    <2> QED
      BY <2>1, <2>2, Grows DEF Inv
  <1>b. Sick => Sick'
    BY <1>a DEF Sick
  <1>1. CASE ReceiveDiscovered
    BY <1>1, <1>a, <1>b, ReceiveBack DEF ReceiveDiscovered, repVars, Blamed, Reasons
  <1>2. CASE ReceiveDropped
    <2>1. Bad(Head(chan))
      BY <1>2 DEF ReceiveDropped, Bad
    <2> QED
      BY <1>2, <1>a, <1>b, <2>1, ReceiveBack DEF ReceiveDropped, Blamed, Reasons
  <1>3. CASE ReceiveFinished
    <2>1. HasBlocking(cur'.results) => Bad(Head(chan))
      BY <1>3 DEF ReceiveFinished, Bad
    <2>2. Bad(Head(chan)) => Blamed
      BY <1>3, <1>a, ReceiveBack DEF ReceiveFinished, Blamed
    <2>3. Blamed' => Blamed
      BY <1>3, <1>a, <2>1, <2>2, ReceiveBack DEF ReceiveFinished, Blamed
    <2> QED
      BY <1>b, <2>3 DEF Reasons
  <1>4. CASE Fold
    <2>1. cur \in Batch /\ cur.results # <<>> /\ cur.results \in Seq(Result) /\ rep = "fold"
      BY <1>4, <1>a DEF Fold, TypeOK, Batch
    <2>2. /\ Head(cur.results) = cur.results[1] /\ 1 \in DOMAIN cur.results
          /\ \A i \in DOMAIN Tail(cur.results) :
               i + 1 \in DOMAIN cur.results /\ Tail(cur.results)[i] = cur.results[i + 1]
      BY <2>1, HeadTailType
    <2>3. cur'.results = Tail(cur.results) /\ chan' = chan
      BY <1>4, <2>1 DEF Fold, Batch
    <2>4. \E rejected \in BOOLEAN :
            /\ verdict' = IF Blocking(Head(cur.results)) \/ rejected THEN "Fail" ELSE verdict
            /\ fault' = (fault \/ rejected)
      BY <1>4 DEF Fold
    <2>5. HasBlocking(cur'.results) \/ Blocking(Head(cur.results)) => HasBlocking(cur.results)
      BY <2>2, <2>3 DEF HasBlocking
    <2>6. rep' # "dead"
      BY <1>4 DEF Fold
    <2>7. Blamed' => Blamed \/ fault'
      BY <2>1, <2>3, <2>4, <2>5, <2>6 DEF Blamed
    <2> QED
      BY <1>b, <2>7 DEF Reasons, Sick
  <1>5. CASE ReporterReturns
    BY <1>5, <1>b DEF ReporterReturns, Blamed, Reasons
  <1>6. CASE ReporterPanics
    BY <1>6 DEF ReporterPanics, Sick
  <1> QED
    BY <1>1, <1>2, <1>3, <1>4, <1>5, <1>6 DEF ReporterNext

LEMMA ReasonsStep ==
    ASSUME Inv, Reasons, Next
    PROVE  Reasons'
  <1>a. TypeOK /\ tainted \subseteq tainted' /\ (fault => fault')
    BY Grows DEF Inv
  <1>b. Sick => Sick'
    BY <1>a DEF Sick
  <1>1. ASSUME NEW t \in Targets, TargetNext(t) \/ TargetFaults(t) PROVE Reasons'
    <2>1. UNCHANGED <<missing, exit>>
      BY <1>1, <1>a, TargetFrame DEF mainVars
    <2> QED
      BY <1>1, <1>a, <2>1, TargetReasons DEF Reasons
  <1>2. ASSUME NEW t \in Targets, NEW b \in Blocks, ActionFinishes(t, b) \/ ActionPanics(t, b)
        PROVE  Reasons'
    <2>1. UNCHANGED <<missing, exit>>
      BY <1>2, ActionFrame DEF Inv, mainVars
    <2> QED
      BY <1>2, <1>a, <2>1, ActionReasons DEF Reasons
  <1>3. CASE ReporterNext \/ ReporterPanics
    <2>1. UNCHANGED <<missing, exit, task, action>>
      BY <1>3 DEF ReporterNext, ReceiveDiscovered, ReceiveDropped, ReceiveFinished, Fold,
         ReporterReturns, ReporterPanics, QuietReporter, taskVars, mainVars
    <2>2. \A s \in Targets : Travelling(s)' => Travelling(s)
      BY <2>1 DEF Travelling
    <2> QED
      BY <1>3, <1>a, <2>1, <2>2, ReporterReasons DEF Reasons
  <1>4. CASE SendMissing
    <2>1. missing # {} /\ missing' \subseteq missing /\ UNCHANGED <<exit, task, action, fault>>
      BY <1>4 DEF SendMissing, taskVars
    <2>2. \A s \in Targets : Travelling(s)' => Travelling(s)
      BY <2>1 DEF Travelling
    <2> QED
      BY <1>a, <2>1, <2>2 DEF Reasons, Sick
  <1>5. CASE RecvSpec
    <2>1. UNCHANGED <<rep, cur, verdict, chan, missing, exit, action, fault>>
      BY <1>5 DEF RecvSpec, repVars
    <2>2. Head(intake) \in Targets
      BY <1>5, <1>a, HeadTailType DEF RecvSpec, TypeOK
    <2>3. /\ \A s \in Targets \ {Head(intake)} : task'[s] = task[s]
          /\ task'[Head(intake)] = "start" \/ Head(intake) \in tainted'
      BY <1>5, <1>a, <2>2, ToEffect DEF RecvSpec, Taint
    <2>4. \A s \in Targets : Travelling(s)' => s \in tainted'
      BY <1>a, <2>1, <2>3 DEF Travelling, Reasons
    <2> QED
      BY <1>a, <1>b, <2>1, <2>4 DEF Blamed, Reasons
  <1>6. CASE RecvEnd
    <2>1. UNCHANGED <<rep, cur, verdict, chan, exit, task, action>>
      BY <1>6 DEF RecvEnd, repVars, taskVars
    <2>2. missing' # {} => fault'
      BY <1>6 DEF RecvEnd
    <2> QED
      BY <1>a, <1>b, <2>1, <2>2 DEF Blamed, Reasons, Travelling
  <1>7. CASE SetupPanics \/ (MainNext /\ ~SendMissing /\ ~RecvSpec /\ ~RecvEnd)
    <2>1. UNCHANGED <<rep, cur, verdict, chan, task, action, missing>>
      BY <1>7 DEF MainNext, SetupPanics, Setup, DrainIntake, JoinTargets, FoldVerdict, EndOfTests,
         repVars, taskVars
    <2>2. exit' = SchedulerPanicExit => fault' \/ exit = SchedulerPanicExit
      BY <1>7 DEF MainNext, SetupPanics, Setup, DrainIntake, JoinTargets, FoldVerdict, EndOfTests,
         ExitCode, NonzeroExit, SchedulerPanicExit
    <2> QED
      BY <1>a, <1>b, <2>1, <2>2 DEF Blamed, Reasons, Travelling
  <1>8. CASE (\E t \in Targets : BuckSends(t)) \/ BuckEnds \/ BuckLeaves \/ Rests
    <2>1. /\ UNCHANGED <<rep, cur, verdict, chan, missing, exit, action>>
          /\ \A s \in Targets : task'[s] = task[s] \/ task'[s] \in {"queued", "refused"}
      BY <1>a, <1>8, ToEffect DEF BuckSends, BuckEnds, BuckLeaves, Rests, vars, repVars, taskVars,
         mainVars
    <2>2. \A s \in Targets : Travelling(s)' => Travelling(s)
      BY <2>1 DEF Travelling
    <2> QED
      BY <1>a, <1>b, <2>1, <2>2 DEF Blamed, Reasons
  <1> QED
    BY <1>1, <1>2, <1>3, <1>4, <1>5, <1>6, <1>7, <1>8 DEF Next

\* The exit code of a run is failure only for a reason the reporter, or a crash, had.
LEMMA RedStep ==
    ASSUME Inv, Reasons, NoFalseRed, Next
    PROVE  NoFalseRed'
  <1>a. TypeOK /\ Phases /\ mode' = mode /\ (Sick => Sick')
    BY Grows DEF Inv, Sick
  <1>1. CASE exit' = exit
    BY <1>1, <1>a DEF NoFalseRed, Sick
  <1>2. CASE exit' # exit
    <2>1. DrainIntake \/ FoldVerdict \/ SetupPanics
      BY <1>2, <1>a, TargetFrame DEF Next, MainNext, Setup, RecvSpec, RecvEnd,
         SendMissing, JoinTargets, EndOfTests, BuckEnds, BuckLeaves, BuckSends, ReporterNext,
         ReceiveDiscovered, ReceiveDropped, ReceiveFinished, Fold, ReporterReturns,
         ReporterPanics, QuietReporter, ActionFinishes, ActionPanics, QuietTask, Rests, vars,
         mainVars
    <2>2. CASE DrainIntake
      BY <1>a, <2>2 DEF DrainIntake, Phases, NoFalseRed
    <2>3. CASE SetupPanics
      BY <2>3 DEF SetupPanics, NoFalseRed
    <2>4. CASE FoldVerdict
      <3>1. exit' = NonzeroExit => rep = "dead" \/ verdict = "Fail" \/ AnyTargetPanicked
        BY <2>4 DEF FoldVerdict, ExitCode, NonzeroExit
      <3>2. AnyTargetPanicked => tainted # {}
        BY DEF AnyTargetPanicked, Reasons, Travelling
      <3>3. exit' = NonzeroExit => Sick
        BY <3>1, <3>2 DEF Reasons, Blamed, Sick
      <3> QED
        BY <1>a, <3>3 DEF NoFalseRed, Sick
    <2> QED
      BY <2>1, <2>2, <2>3, <2>4
  <1> QED
    BY <1>1, <1>2

\* Only the main task moves the end of the session.
LEMMA MainFrame ==
    ASSUME TypeOK, Next
    PROVE  \/ UNCHANGED <<main, exit, endCalls>>
           \/ MainNext \/ SetupPanics
  BY TargetFrame DEF Next, BuckEnds, BuckLeaves, BuckSends, ReporterNext,
     ReceiveDiscovered, ReceiveDropped, ReceiveFinished, Fold, ReporterReturns,
     ReporterPanics, QuietReporter, ActionFinishes, ActionPanics, QuietTask, Rests, vars, mainVars

\* A closed intake grows no more.
LEMMA IntakeClosed ==
    ASSUME TypeOK, Next, main \in {"returned", "ended"}
    PROVE  intake' = intake
  BY TargetFrame DEF Next, MainNext, SetupPanics, Setup, DrainIntake, RecvSpec, RecvEnd,
     SendMissing, JoinTargets, FoldVerdict, EndOfTests, BuckEnds, BuckLeaves, BuckSends,
     ReporterNext, ReceiveDiscovered, ReceiveDropped, ReceiveFinished, Fold, ReporterReturns,
     ReporterPanics, QuietReporter, ActionFinishes, ActionPanics, QuietTask, Rests, vars, buckVars,
     IntakeOpen

LEMMA EndingStep ==
    ASSUME Inv, Ending, Next
    PROVE  Ending'
  <1>a. TypeOK /\ Phases /\ mode' = mode
    BY Grows DEF Inv
  <1>1. CASE UNCHANGED <<main, exit, endCalls>>
    <2>1. main \in {"returned", "ended"} => intake' = intake
      BY <1>a, IntakeClosed
    <2> QED
      BY <1>1, <1>a, <2>1 DEF Ending
  <1>2. CASE Setup \/ RecvSpec \/ RecvEnd \/ SendMissing \/ JoinTargets
    <2>1. /\ UNCHANGED <<exit, endCalls>>
          /\ main # "ended" /\ main' \in {"drain", "intake", "missing", "closing"}
      BY <1>2, <1>a DEF Setup, RecvSpec, RecvEnd, SendMissing, JoinTargets
    <2> QED
      BY <1>a, <2>1 DEF Ending
  <1>3. CASE SetupPanics
    BY <1>3, <1>a DEF SetupPanics, Ending
  <1>4. CASE DrainIntake
    <2>1. /\ mode \in {"help", "usage"} /\ endCalls' = endCalls
          /\ main = "drain" /\ main' \in {"drain", "returned"}
          /\ exit' \in {exit, IF mode = "help" THEN 0 ELSE NonzeroExit}
      BY <1>4, <1>a DEF DrainIntake, Phases
    <2> QED
      BY <1>a, <2>1 DEF Ending
  <1>5. CASE FoldVerdict
    <2>1. /\ mode \in {"run", "list"} /\ endCalls' = endCalls /\ intake' = intake
          /\ intake = <<>> /\ main = "closing" /\ main' = "returned"
          /\ exit' \in {0, NonzeroExit}
      BY <1>5, <1>a DEF FoldVerdict, Phases, ExitCode, buckVars
    <2> QED
      BY <1>a, <2>1 DEF Ending
  <1>6. CASE EndOfTests
    <2>1. /\ endCalls' = endCalls + 1 /\ UNCHANGED <<exit, intake>>
          /\ main = "returned" /\ main' = "ended"
      BY <1>6 DEF EndOfTests, buckVars
    <2> QED
      BY <1>a, <2>1 DEF Ending
  <1> QED
    BY <1>1, <1>2, <1>3, <1>4, <1>5, <1>6, <1>a, MainFrame DEF MainNext

LEMMA RInvInit == Init => RInv
  <1> SUFFICES ASSUME Init PROVE RInv
    OBVIOUS
  <1>1. Inv
    BY InitInv
  <1>2. DOMAIN <<>> = {}
    OBVIOUS
  <1>3. mode \in {"run", "list", "help", "usage"}
    BY ConstantsAssumption DEF Init
  <1>4. Reasons /\ NoFalseRed
    BY <1>2 DEF Init, Reasons, Blamed, Travelling, NoFalseRed, NoExit, NonzeroExit,
       SchedulerPanicExit
  <1>5. Quiet /\ Shown
    BY <1>2 DEF Init, Quiet, Shown
  <1>6. Ending
    BY <1>3 DEF Init, Ending
  <1> QED
    BY <1>1, <1>4, <1>5, <1>6 DEF RInv

LEMMA RInvStep == RInv /\ [Next]_vars => RInv'
  <1> SUFFICES ASSUME RInv, [Next]_vars PROVE RInv'
    OBVIOUS
  <1>1. Inv'
    BY InvStep DEF RInv
  <1>2. CASE UNCHANGED vars
    BY <1>1, <1>2 DEF RInv, vars, repVars, buckVars, taskVars, mainVars, Reasons, Blamed,
       Travelling, Sick, Quiet, Idle, Shown, Ending, NoFalseRed
  <1>3. CASE Next
    BY <1>1, <1>3, ReasonsStep, QuietStep, ShownStep, EndingStep, RedStep DEF RInv
  <1> QED
    BY <1>2, <1>3

LEMMA Invariance == Spec => []RInv
  BY RInvInit, RInvStep, PTL DEF Spec

\* A run of tests exits with failure only when a target, or the session itself,
\* gave a reason to: no green run is turned red by the reporter, a late
\* announcement or an override that did arrive.
THEOREM RedForAReason == Spec => []NoFalseRed
  <1>1. RInv => NoFalseRed
    BY DEF RInv
  <1> QED
    BY <1>1, Invariance, PTL

-------------------------------------------------------------------------------
(* What buck2 observes.                                                      *)

\* A step reports at most one result, of a target announced before.
LEMMA ReportStep ==
    ASSUME RInv, Next
    PROVE  reported' = reported \/ \E t \in announced : reported' = [reported EXCEPT ![t] = @ + 1]
  <1>a. TypeOK /\ Shown
    BY DEF RInv, Inv
  <1>1. CASE Fold
    BY <1>1, <1>a DEF Fold, Shown
  <1>2. CASE ~Fold
    BY <1>2, <1>a, TargetFrame DEF Next, MainNext, SetupPanics, Setup, DrainIntake, RecvSpec,
       RecvEnd, SendMissing, JoinTargets, FoldVerdict, EndOfTests, BuckEnds, BuckLeaves,
       BuckSends, ReporterNext, ReceiveDiscovered, ReceiveDropped, ReceiveFinished,
       ReporterReturns, ReporterPanics, ActionFinishes, ActionPanics, QuietTask, Rests, vars,
       repVars
  <1> QED
    BY <1>1, <1>2

\* A step moves the task of one target at most.
LEMMA OneTask ==
    ASSUME TypeOK, Next
    PROVE  task' = task \/ \E t \in Targets : \A s \in Targets \ {t} : task'[s] = task[s]
  <1>1. CASE \E t \in Targets : TargetNext(t) \/ TargetFaults(t) \/ BuckSends(t)
    BY <1>1, TargetFrame, ToEffect DEF BuckSends
  <1>2. CASE RecvSpec
    <2>1. Head(intake) \in Targets
      BY <1>2, HeadTailType DEF RecvSpec, TypeOK
    <2> QED
      BY <1>2, <2>1, ToEffect DEF RecvSpec
  <1>3. CASE ~RecvSpec /\ ~(\E t \in Targets : TargetNext(t) \/ TargetFaults(t) \/ BuckSends(t))
    BY <1>3 DEF Next, MainNext, SetupPanics, Setup, DrainIntake, RecvEnd, SendMissing, JoinTargets,
       FoldVerdict, EndOfTests, BuckEnds, BuckLeaves, ReporterNext, ReceiveDiscovered,
       ReceiveDropped, ReceiveFinished, Fold, ReporterReturns, ReporterPanics, QuietReporter,
       ActionFinishes, ActionPanics, QuietTask, Rests, vars, taskVars
  <1> QED
    BY <1>1, <1>2, <1>3

\* After the end nothing that buck2 observes moves.
LEMMA AfterEnd ==
    ASSUME RInv, endCalls # 0, Next
    PROVE  /\ UNCHANGED <<mode, endCalls, exit, announced, reported, chan, verdict, tainted, fault>>
           /\ \A t \in Targets :
                task'[t] = task[t] \/ (task[t] = "absent" /\ task'[t] = "refused")
  <1>1. main = "ended" /\ TypeOK /\ Inv /\ Quiet
    BY DEF RInv, Inv, Ending
  <1>2. (\E t \in Targets : BuckSends(t)) \/ BuckEnds \/ BuckLeaves \/ Rests
    BY <1>1, OverSteps DEF Setup, SetupPanics, DrainIntake, EndOfTests
  <1>3. CASE \E t \in Targets : BuckSends(t)
    BY <1>1, <1>3, ToEffect DEF BuckSends, IntakeOpen, mainVars, repVars
  <1>4. CASE BuckEnds \/ BuckLeaves \/ Rests
    BY <1>4 DEF BuckEnds, BuckLeaves, Rests, vars, mainVars, taskVars, repVars
  <1> QED
    BY <1>2, <1>3, <1>4

\* The end comes from EndOfTests alone.
LEMMA EndStep ==
    ASSUME TypeOK, Next, endCalls' # endCalls
    PROVE  EndOfTests
  BY MainFrame DEF MainNext, SetupPanics, Setup, DrainIntake, RecvSpec, RecvEnd, SendMissing,
     JoinTargets, FoldVerdict

\* The reporter tells buck2 of a test only after its target's discovery was told.
THEOREM DiscoveredFirst == Spec => DiscoveryFirst
  <1>1. RInv /\ [Next]_vars => [\A t \in Targets : reported'[t] # reported[t] => t \in announced]_vars
    <2> SUFFICES ASSUME RInv, Next, NEW t \in Targets, reported'[t] # reported[t]
                 PROVE  t \in announced
      BY DEF vars
    <2>1. reported \in [Targets -> Nat]
      BY DEF RInv, Inv, TypeOK
    <2> QED
      BY <2>1, ReportStep
  <1> QED
    BY <1>1, Invariance, PTL DEF Spec, DiscoveryFirst

\* buck2 is told the end once, when nothing is left in the report channel of a
\* living reporter, and nothing it observes moves after it.
THEOREM EndToldLast == Spec => EndIsLast
  <1>1. RInv /\ [Next]_vars =>
          [/\ endCalls' # endCalls => endCalls = 0 /\ exit # NoExit
           /\ endCalls' # endCalls /\ exit # SchedulerPanicExit =>
                (rep # "dead" => chan = <<>>)
           /\ endCalls > 0 => UNCHANGED <<announced, reported, chan, verdict, exit>>]_vars
    <2> SUFFICES ASSUME RInv, Next
                 PROVE  /\ endCalls' # endCalls => endCalls = 0 /\ exit # NoExit
                        /\ endCalls' # endCalls /\ exit # SchedulerPanicExit =>
                             (rep # "dead" => chan = <<>>)
                        /\ endCalls > 0 => UNCHANGED <<announced, reported, chan, verdict, exit>>
      BY DEF vars
    <2>1. TypeOK /\ Phases /\ Quiet /\ Ending
      BY DEF RInv, Inv
    <2>2. endCalls' # endCalls => main = "returned"
      BY <2>1, EndStep DEF EndOfTests
    <2>3. endCalls' # endCalls => endCalls = 0 /\ exit # NoExit
      BY <2>1, <2>2 DEF Ending, Phases
    <2>4. endCalls' # endCalls /\ exit # SchedulerPanicExit => (rep # "dead" => chan = <<>>)
      <3>1. mode \in {"run", "list", "help", "usage"}
        BY <2>1, ConstantsAssumption DEF TypeOK
      <3>2. CASE mode \in {"help", "usage"}
        BY <2>1, <3>2 DEF Quiet, Idle
      <3>3. CASE mode \in {"run", "list"}
        BY <2>1, <2>2, <3>3 DEF Ending, Phases
      <3> QED
        BY <3>1, <3>2, <3>3
    <2>5. endCalls > 0 => UNCHANGED <<announced, reported, chan, verdict, exit>>
      BY AfterEnd
    <2> QED
      BY <2>3, <2>4, <2>5
  <1> QED
    BY <1>1, Invariance, PTL DEF Spec, EndIsLast

-------------------------------------------------------------------------------
(* The refinement.                                                           *)

Owed == IF mode \in {"run", "list"}
        THEN {t \in Targets : task[t] \notin {"absent", "refused", "done", "crashed"}}
        ELSE {}

\* The set owed loses or gains one target at a time.
LEMMA OwedStep ==
    ASSUME TypeOK, Next
    PROVE  Owed' = Owed \/ \E t \in Targets : Owed' = Owed \cup {t} \/ Owed' = Owed \ {t}
  <1>a. mode' = mode
    BY Grows
  <1>1. CASE mode \notin {"run", "list"} \/ task' = task
    BY <1>a, <1>1 DEF Owed
  <1>2. CASE mode \in {"run", "list"} /\ task' # task
    <2>1. PICK t \in Targets : \A s \in Targets \ {t} : task'[s] = task[s]
      BY <1>2, OneTask
    <2>2. CASE t \in Owed'
      <3>1. Owed' = Owed \cup {t}
        BY <1>a, <1>2, <2>1, <2>2 DEF Owed
      <3> QED
        BY <3>1
    <2>3. CASE t \notin Owed'
      <3>1. Owed' = Owed \ {t}
        BY <1>a, <1>2, <2>1, <2>3 DEF Owed
      <3> QED
        BY <3>1
    <2> QED
      BY <2>2, <2>3
  <1> QED
    BY <1>1, <1>2

\* The exit code of a session that is about to tell it fits what happened.
LEMMA CloseIsRight ==
    ASSUME RInv, EndOfTests
    PROVE  \/ exit = 0 /\ ~Sick /\ mode # "usage" /\ Owed = {}
           \/ exit = NonzeroExit /\ (Sick \/ mode = "usage") /\ Owed = {}
           \/ exit = SchedulerPanicExit /\ Sick
  <1>1. /\ TypeOK /\ Phases /\ IntakeOrder /\ NoFalseGreen /\ NoFalseRed /\ Reasons /\ Quiet /\ Ending
        /\ main = "returned" /\ exit # NoExit
    BY DEF RInv, Inv, EndOfTests, Phases
  <1>2. mode \in {"run", "list", "help", "usage"}
    BY <1>1, ConstantsAssumption DEF TypeOK
  <1>3. CASE exit = SchedulerPanicExit
    BY <1>1, <1>3 DEF Reasons, Sick
  <1>4. CASE exit # SchedulerPanicExit /\ mode \in {"run", "list"}
    <2>1. intake = <<>> /\ exit \in {0, NonzeroExit}
      BY <1>1, <1>4 DEF Ending
    <2>2. \A t \in Targets : task[t] # "queued"
      <3>1. DOMAIN <<>> = {}
        OBVIOUS
      <3> QED
        BY <1>1, <1>4, <2>1, <3>1 DEF IntakeOrder
    <2>3. Owed = {}
      BY <1>1, <2>2 DEF Owed, Phases, Joined
    <2>4. exit = 0 => ~Sick
      BY <1>1, <1>4 DEF NoFalseGreen, Sick
    <2>5. exit = NonzeroExit => Sick
      BY <1>1, <1>4 DEF NoFalseRed, Sick
    <2> QED
      BY <1>4, <2>1, <2>3, <2>4, <2>5
  <1>5. CASE exit # SchedulerPanicExit /\ mode = "help"
    BY <1>1, <1>5 DEF Ending, Quiet, Idle, Owed, Sick
  <1>6. CASE exit # SchedulerPanicExit /\ mode = "usage"
    BY <1>1, <1>6 DEF Ending, Owed
  <1> QED
    BY <1>2, <1>3, <1>4, <1>5, <1>6

LEMMA PromiseInit == Init => Promise!Init
  BY DEF Init, Promise!Init, NoExit

\* Every step keeps the promise, or is none that buck2 observes.
LEMMA PromiseStep == RInv /\ RInv' /\ [Next]_vars => [Promise!Next]_(Promise!vars)
  <1> SUFFICES ASSUME RInv, RInv', [Next]_vars PROVE [Promise!Next]_(Promise!vars)
    OBVIOUS
  <1>1. CASE UNCHANGED vars
    BY <1>1 DEF vars, mainVars, taskVars, repVars, Promise!vars
  <1>2. CASE Next /\ endCalls # 0
    <2>1. /\ UNCHANGED <<mode, endCalls, exit, announced, reported, tainted, fault>>
          /\ \A t \in Targets :
               task'[t] = task[t] \/ (task[t] = "absent" /\ task'[t] = "refused")
      BY <1>2, AfterEnd
    <2> QED
      BY <2>1 DEF Promise!vars
  <1>3. CASE EndOfTests /\ endCalls = 0
    <2>1. /\ UNCHANGED <<mode, exit, announced, reported, task, tainted, fault>> /\ endCalls' = 1
      BY <1>3 DEF EndOfTests, taskVars, repVars
    <2>2. \/ exit = 0 /\ ~Sick /\ mode # "usage" /\ Owed = {}
          \/ exit = NonzeroExit /\ (Sick \/ mode = "usage") /\ Owed = {}
          \/ exit = SchedulerPanicExit /\ Sick
      BY <1>3, CloseIsRight
    <2>3. Promise!Close
      BY <1>3, <2>1, <2>2 DEF Promise!Close, Sick, Owed
    <2> QED
      BY <2>3 DEF Promise!Next
  <1>4. CASE Next /\ endCalls = 0 /\ ~EndOfTests
    <2>1. endCalls' = 0
      BY <1>4, EndStep DEF RInv, Inv
    <2>2. announced \subseteq announced' /\ mode' = mode /\ (Sick => Sick')
      BY <1>4, Grows DEF RInv, Inv, Sick
    <2>3. reported' = reported \/ \E t \in announced : reported' = [reported EXCEPT ![t] = @ + 1]
      BY <1>4, ReportStep
    <2>4. Owed' = Owed \/ \E t \in Targets : Owed' = Owed \cup {t} \/ Owed' = Owed \ {t}
      BY <1>4, OwedStep DEF RInv, Inv
    <2>5. Promise!Work
      BY <1>4, <2>1, <2>2, <2>3, <2>4 DEF Promise!Work, Sick, Owed
    <2> QED
      BY <2>5 DEF Promise!Next
  <1> QED
    BY <1>1, <1>2, <1>3, <1>4

\* Every session keeps what SessionPromise promises buck2: announced before
\* told, one exit code, told when nothing is owed, and green exactly when the
\* session is well.
THEOREM PromiseKept == Spec => ImplementsPromise
  <1>1. Spec => Promise!Spec
    BY PromiseInit, PromiseStep, Invariance, PTL DEF Spec, Promise!Spec
  <1> QED
    BY <1>1 DEF ImplementsPromise
===============================================================================
