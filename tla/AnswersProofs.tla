----------------------------- MODULE AnswersProofs -----------------------------
(***************************************************************************)
(* Proofs about Supervisor and Answers, for any number of signals, failed  *)
(* commands and tests.                                                     *)
(*                                                                         *)
(* The inductive invariant of the supervisor ties every process, file and  *)
(* cgroup to the variable that names it, and every way of losing that tie  *)
(* (a signal between a fork or the making of a cgroup and its record, a    *)
(* command that failed, a cleanup cut short) to what is told of it.  What run_group  *)
(* makes of the markers is a fold over their sequence: its facts are       *)
(* proved by induction on its length, which is to say that there is no     *)
(* least length at which they fail.                                        *)
(***************************************************************************)
EXTENDS Answers, FoldProofs

-------------------------------------------------------------------------------
(* The inductive invariant of the supervisor.                                *)

\* The commands before the test is forked, those after it was waited for, and those after the
\* watchdog was.
Unforked == {"begin", "create", "name", "make_files", "fork_child"}
Waited == {"handshake", "stop_timer", "reap_watchdog", "report", "empty", "finish"}
Reaped == {"report", "empty", "finish"}

\* The commands of the cleanup after the one that deals with x.
Past(x) ==
    CASE x = "timer"    -> {"clean_watchdog", "clean_child", "clean_files", "clean_logical", "clean_action",
                            "clean_supervisor"}
      [] x = "watchdog" -> {"clean_child", "clean_files", "clean_logical", "clean_action", "clean_supervisor"}
      [] x = "child"    -> {"clean_files", "clean_logical", "clean_action", "clean_supervisor"}
      [] x \in Files    -> {"clean_logical", "clean_action", "clean_supervisor"}
      [] x = "logical"  -> {"clean_action", "clean_supervisor"}
      [] x = "action"   -> {"clean_supervisor"}
      [] x = "supervisor" -> {}

Quiet == ~Told("setup")
Undisturbed == signals = 0 /\ faults = 0
AtExit == pc \in {"exit", "exited"}
Asleep == watchdog \in {"none", "gone"}

\* The traps are there until a cleanup begins, and only a second signal ends a cleanup.
TrapsInv ==
    /\ cleaning <=> pc \notin Setup \cup Work
    /\ ~cleaning => traps = {"EXIT", "signals"}
    /\ signals = 0 => "signals" \in traps /\ ~history.cut
    /\ history.cut => pc \in {"exit", "exited", "killed"}
    /\ pc = "killed" => history.cut

\* Every failure is told, and without one, or a signal that met a process unnamed, none is.
TroubleInv ==
    /\ faults > 0 => ~Quiet
    /\ ~Quiet => faults > 0 \/ history.blind
    /\ history.blind => signals > 0 \/ faults > 0
    /\ history.unnamed => signals > 0 /\ cleaning

\* What has not begun or is over, by the command at hand.
PlaceInv ==
    /\ pc \in Unforked => child = "none" /\ "child" \notin named
    /\ pc \in Unforked \cup {"record_child", "fork_watchdog"} =>
          watchdog = "none" /\ "watchdog" \notin named
    /\ pc \in {"fork_child", "record_child", "fork_watchdog", "record_watchdog", "wait_child"} =>
          Files \subseteq named
    /\ pc \in Waited => child = "gone" /\ "child" \notin named
    /\ pc \in Reaped => watchdog = "gone" /\ named \cap Pids = {}
    /\ pc = "begin" => named = {} /\ cgroups = {}
    /\ Undisturbed /\ cleaning => child = "gone" /\ watchdog = "gone" /\ named \cap Pids = {}

\* The timer, and the files the watchdog writes, by where the watchdog stands.
TimerInv ==
    /\ watchdog \in {"none", "forked"} => timer = "none"
    /\ watchdog \in {"mark", "kill"} => timer = "gone"
    /\ timer = "sleeping" => watchdog \in {"started", "stored", "waiting"} \/ history.blind
    /\ "handshake" \in files => watchdog \notin {"none", "forked", "started", "stored"}
    /\ "marker" \in files => watchdog \in {"kill", "gone"}

\* What lives is named, and so is every file that exists or will, unless a signal came before.
NamedInv ==
    ~history.blind =>
        /\ child \in {"none", "gone"} \/ pc = "record_child" \/ "child" \in named
        /\ Asleep \/ pc = "record_watchdog" \/ "watchdog" \in named
        /\ files \subseteq named
        /\ ~Asleep => "marker" \in named
        /\ watchdog \in {"forked", "started", "stored"} => "handshake" \in named

\* A cleanup unsets what it has dealt with, so that nothing is named at a regular end.
CleanedInv ==
    /\ \A x \in Pids \cup Files \cup Cgroups : pc \in Past(x) => x \notin named
    /\ AtExit /\ Quiet /\ ~history.cut => named = {}

\* The cgroups that exist are those named, but for the one just made, and what runs in one
\* keeps it there.
CgroupInv ==
    /\ Quiet /\ ~history.unnamed /\ pc # "name" => cgroups = named \cap Cgroups
    /\ Quiet /\ pc = "name" => cgroups = (named \cap Cgroups) \cup TestCgroup
    /\ pc = "name" => TestCgroup \subseteq cgroups
    /\ ~config.remote => cgroups = {} /\ named \cap Cgroups = {}
    /\ helper \/ child = "running" => TestCgroup \subseteq cgroups
    /\ pc \in (Setup \cup Work) \ {"begin", "create", "name", "finish"} => TestCgroup \subseteq named \cap cgroups
    /\ pc = "finish" /\ ~config.logical => TestCgroup \subseteq named
    /\ faults = 0 /\ ~history.blind /\ child = "joining" => TestCgroup \subseteq cgroups
    /\ config.remote /\ (pc = "finish" \/ (cleaning /\ Undisturbed)) => ~helper

\* On a remote worker everything runs in the supervisor's cgroup, whose removal is a check.
SupervisorInv ==
    config.remote =>
        /\ ~cleaning /\ pc # "begin" => "supervisor" \in named
        /\ cleaning /\ ~AtExit /\ pc # "killed" /\ "supervisor" \notin named =>
              child \in {"none", "gone"} /\ Asleep /\ timer # "sleeping"
        /\ AtExit /\ Quiet /\ ~history.cut => Empties

\* Something ended the test, and if the watchdog did, its marker is there until it is told.
KillerInv ==
    /\ history.killer # "none" => child \notin {"none", "joining", "running"}
    /\ Quiet /\ child \in {"passed", "failed"} => history.killer # "none"
    /\ Quiet /\ pc \in Waited => history.killer # "none"
    /\ Undisturbed /\ cleaning => history.killer # "none"
    /\ watchdog = "kill" /\ ~cleaning => "marker" \in files
    /\ history.killer = "watchdog" /\ ~cleaning /\ pc \notin {"empty", "finish"} => "marker" \in files
    /\ history.killer = "watchdog" /\ (pc \in {"empty", "finish"} \/ (Undisturbed /\ cleaning)) =>
          Told("timeout")

\* An OOM kill is told, and nothing else is told as one.
OomInv ==
    /\ history.killer = "oom" => oom
    /\ oom => config.remote
    /\ Told("oom") => oom
    /\ oom /\ config.logical /\ pc = "finish" => Told("oom")
    /\ oom /\ Undisturbed /\ cleaning => Told("oom")

\* A timeout is told only if the timer ran out by itself.
DeadlineInv ==
    /\ Told("timeout") => history.expired
    /\ ~cleaning /\ ("marker" \in files \/ watchdog \in {"mark", "kill"}) => history.expired
    /\ ~cleaning /\ timer \in {"ended", "gone"} => history.expired \/ child = "gone"

Tied ==
    /\ TrapsInv /\ TroubleInv /\ PlaceInv /\ TimerInv /\ NamedInv /\ CleanedInv /\ CgroupInv
    /\ SupervisorInv /\ KillerInv /\ OomInv /\ DeadlineInv

-------------------------------------------------------------------------------
(* What a step adds to stderr.                                               *)

Markers == {"timeout", "oom", "setup"}

\* A marker is told once it is appended, and no other with it.
LEMMA Telling ==
    ASSUME TypeOK, NEW x \in Markers
    PROVE  /\ printed' = printed => (Told(x)' <=> Told(x))
           /\ \A m \in Markers : printed' = Append(printed, m) => (Told(x)' <=> Told(x) \/ x = m)
  <1>1. printed \in Seq(Markers)
    BY DEF TypeOK, Markers
  <1>2. ASSUME NEW m \in Markers, printed' = Append(printed, m)
        PROVE  Told(x)' <=> Told(x) \/ x = m
    <2>1. /\ DOMAIN printed = 1 .. Len(printed) /\ Len(printed) \in Nat
          /\ DOMAIN printed' = 1 .. Len(printed) + 1
          /\ printed'[Len(printed) + 1] = m
          /\ \A i \in 1 .. Len(printed) : printed'[i] = printed[i]
      BY <1>1, <1>2
    <2>2. Told(x) => Told(x)'
      BY <2>1 DEF Told
    <2>3. x = m => Told(x)'
      BY <2>1 DEF Told
    <2>4. Told(x)' /\ x # m => Told(x)
      BY <2>1 DEF Told
    <2> QED
      BY <2>2, <2>3, <2>4
  <1> QED
    BY <1>2 DEF Told

\* The same for each of the three.
LEMMA Tellings ==
    TypeOK =>
        /\ printed' = printed =>
              /\ Told("setup")' <=> Told("setup")
              /\ Told("timeout")' <=> Told("timeout")
              /\ Told("oom")' <=> Told("oom")
        /\ \A m \in Markers : printed' = Append(printed, m) =>
              /\ Told("setup")' <=> Told("setup") \/ m = "setup"
              /\ Told("timeout")' <=> Told("timeout") \/ m = "timeout"
              /\ Told("oom")' <=> Told("oom") \/ m = "oom"
  <1> SUFFICES ASSUME TypeOK
               PROVE  \A x \in Markers :
                        /\ printed' = printed => (Told(x)' <=> Told(x))
                        /\ \A m \in Markers : printed' = Append(printed, m) => (Told(x)' <=> Told(x) \/ m = x)
    BY DEF Markers
  <1> QED
    BY Telling

-------------------------------------------------------------------------------
(* The invariant holds at first and is kept by every step.                   *)

LEMMA SupervisorInit == Init => TypeOK /\ Tied
  <1> SUFFICES ASSUME Init PROVE TypeOK /\ Tied
    OBVIOUS
  <1>1. TypeOK
    <2>1. printed \in Seq({"timeout", "oom", "setup"})
      BY DEF Init
    <2>2. history \in [expired : BOOLEAN, killer : {"none", "watchdog", "itself", "oom"},
                       blind : BOOLEAN, unnamed : BOOLEAN, cut : BOOLEAN]
      BY DEF Init
    <2>3. config \in Config /\ signals \in 0..MaxSignals /\ faults \in 0..MaxFaults /\ pc \in Setup
      BY LimitsAssumption DEF Init, Setup
    <2>4. cleaning \in BOOLEAN /\ helper \in BOOLEAN /\ oom \in BOOLEAN
      BY DEF Init
    <2>5. /\ named = {} /\ traps = {"EXIT", "signals"} /\ status = "none" /\ child = "none"
          /\ watchdog = "none" /\ timer = "none" /\ files = {} /\ cgroups = {}
      BY DEF Init
    <2> QED
      BY <2>1, <2>2, <2>3, <2>4, <2>5 DEF TypeOK
  <1>2. ~Told("setup") /\ ~Told("timeout") /\ ~Told("oom")
    BY DEF Init, Told
  <1> QED
    BY <1>1, <1>2 DEF Init, TypeOK, Tied, TrapsInv, TroubleInv, PlaceInv, TimerInv, NamedInv, CleanedInv,
       CgroupInv, SupervisorInv, KillerInv, OomInv, DeadlineInv, Unforked, Waited, Reaped, Past,
       Quiet, Undisturbed, AtExit, Asleep, Setup, Work, Cleaning, Pids, Files, Cgroups

\* Type correctness, one group of variables after the other.
LEMMA TypeStep == ASSUME TypeOK, Next PROVE TypeOK'
  <1> USE DEF TypeOK, vars, shell, tests, alarm, TestCgroup, Goto, Fail, Faulty, Sound, Setup, Work, Cleaning, Pids, Files, Cgroups, Config, Ended, Unrecorded, Unnamed, WatchdogOnly, TestOnly, Empties
  <1>1. (config \in Config /\ pc \in Setup \cup Work \cup Cleaning \cup {"exited", "killed"})'
    BY DEF Next, SupervisorStep, WatchdogStep, Create, Remove, KillCgroup, Begin, Name, MakeFiles,
       Fork, Record, WaitChild, ReadHandshake, StopTimer, ReapWatchdog, Report, Empty, Finish,
       CleanTimer, CleanWatchdog, CleanChild, CleanFiles, CleanCgroups, CleanSupervisor, Exit,
       WatchdogStarts, WritesHandshake, TimerReaped, Marks, Kills, Expires, Joins, TestEnds,
       OomKill, Signal
  <1>2. (named \subseteq Pids \cup Files \cup Cgroups)'
    BY DEF Next, SupervisorStep, WatchdogStep, Create, Remove, KillCgroup, Begin, Name, MakeFiles,
       Fork, Record, WaitChild, ReadHandshake, StopTimer, ReapWatchdog, Report, Empty, Finish,
       CleanTimer, CleanWatchdog, CleanChild, CleanFiles, CleanCgroups, CleanSupervisor, Exit,
       WatchdogStarts, WritesHandshake, TimerReaped, Marks, Kills, Expires, Joins, TestEnds,
       OomKill, Signal
  <1>3. (files \subseteq Files)'
    BY DEF Next, SupervisorStep, WatchdogStep, Create, Remove, KillCgroup, Begin, Name, MakeFiles,
       Fork, Record, WaitChild, ReadHandshake, StopTimer, ReapWatchdog, Report, Empty, Finish,
       CleanTimer, CleanWatchdog, CleanChild, CleanFiles, CleanCgroups, CleanSupervisor, Exit,
       WatchdogStarts, WritesHandshake, TimerReaped, Marks, Kills, Expires, Joins, TestEnds,
       OomKill, Signal
  <1>4. (cgroups \subseteq Cgroups)'
    BY DEF Next, SupervisorStep, WatchdogStep, Create, Remove, KillCgroup, Begin, Name, MakeFiles,
       Fork, Record, WaitChild, ReadHandshake, StopTimer, ReapWatchdog, Report, Empty, Finish,
       CleanTimer, CleanWatchdog, CleanChild, CleanFiles, CleanCgroups, CleanSupervisor, Exit,
       WatchdogStarts, WritesHandshake, TimerReaped, Marks, Kills, Expires, Joins, TestEnds,
       OomKill, Signal
  <1>5. (traps \subseteq {"EXIT", "signals"})'
    BY DEF Next, SupervisorStep, WatchdogStep, Create, Remove, KillCgroup, Begin, Name, MakeFiles,
       Fork, Record, WaitChild, ReadHandshake, StopTimer, ReapWatchdog, Report, Empty, Finish,
       CleanTimer, CleanWatchdog, CleanChild, CleanFiles, CleanCgroups, CleanSupervisor, Exit,
       WatchdogStarts, WritesHandshake, TimerReaped, Marks, Kills, Expires, Joins, TestEnds,
       OomKill, Signal
  <1>6. (cleaning \in BOOLEAN /\ oom \in BOOLEAN)'
    <2>1. (cleaning' = cleaning \/ cleaning' = TRUE) /\ (oom' = oom \/ oom' = TRUE)
      BY DEF Next, SupervisorStep, WatchdogStep, Create, Remove, KillCgroup, Begin, Name, MakeFiles,
         Fork, Record, WaitChild, ReadHandshake, StopTimer, ReapWatchdog, Report, Empty,
         Finish, CleanTimer, CleanWatchdog, CleanChild, CleanFiles, CleanCgroups,
         CleanSupervisor, Exit, WatchdogStarts, WritesHandshake, TimerReaped, Marks, Kills,
         Expires, Joins, TestEnds, OomKill, Signal
    <2> QED
      BY <2>1
  <1>7. (helper \in BOOLEAN)'
    <2>1. \/ helper' = helper \/ helper' = FALSE \/ helper' \in BOOLEAN
          \/ helper' = (helper /\ ~config.remote)
      BY DEF Next, SupervisorStep, WatchdogStep, Create, Remove, KillCgroup, Begin, Name, MakeFiles,
         Fork, Record, WaitChild, ReadHandshake, StopTimer, ReapWatchdog, Report, Empty,
         Finish, CleanTimer, CleanWatchdog, CleanChild, CleanFiles, CleanCgroups,
         CleanSupervisor, Exit, WatchdogStarts, WritesHandshake, TimerReaped, Marks, Kills,
         Expires, Joins, TestEnds, OomKill, Signal
    <2>2. (helper /\ ~config.remote) \in BOOLEAN
      OBVIOUS
    <2> QED
      BY <2>1, <2>2
  <1>8. (status \in {"none", "passed", "failed", "timed_out", "signalled", "setup_failed"})'
    BY DEF Next, SupervisorStep, WatchdogStep, Create, Remove, KillCgroup, Begin, Name, MakeFiles,
       Fork, Record, WaitChild, ReadHandshake, StopTimer, ReapWatchdog, Report, Empty, Finish,
       CleanTimer, CleanWatchdog, CleanChild, CleanFiles, CleanCgroups, CleanSupervisor, Exit,
       WatchdogStarts, WritesHandshake, TimerReaped, Marks, Kills, Expires, Joins, TestEnds,
       OomKill, Signal
  <1>9. (child \in {"none", "joining", "running", "passed", "failed", "gone"})'
    BY DEF Next, SupervisorStep, WatchdogStep, Create, Remove, KillCgroup, Begin, Name, MakeFiles,
       Fork, Record, WaitChild, ReadHandshake, StopTimer, ReapWatchdog, Report, Empty, Finish,
       CleanTimer, CleanWatchdog, CleanChild, CleanFiles, CleanCgroups, CleanSupervisor, Exit,
       WatchdogStarts, WritesHandshake, TimerReaped, Marks, Kills, Expires, Joins, TestEnds,
       OomKill, Signal
  <1>10. /\ (watchdog \in {"none", "forked", "started", "stored", "waiting", "mark", "kill", "gone"})'
         /\ (timer \in {"none", "sleeping", "ended", "gone"})'
    BY DEF Next, SupervisorStep, WatchdogStep, Create, Remove, KillCgroup, Begin, Name, MakeFiles,
       Fork, Record, WaitChild, ReadHandshake, StopTimer, ReapWatchdog, Report, Empty, Finish,
       CleanTimer, CleanWatchdog, CleanChild, CleanFiles, CleanCgroups, CleanSupervisor, Exit,
       WatchdogStarts, WritesHandshake, TimerReaped, Marks, Kills, Expires, Joins, TestEnds,
       OomKill, Signal
  <1>11. (signals \in 0..MaxSignals /\ faults \in 0..MaxFaults)'
    BY LimitsAssumption DEF Next, SupervisorStep, WatchdogStep, Create, Remove, KillCgroup,
       Begin, Name, MakeFiles, Fork, Record, WaitChild, ReadHandshake, StopTimer, ReapWatchdog,
       Report, Empty, Finish, CleanTimer, CleanWatchdog, CleanChild, CleanFiles, CleanCgroups,
       CleanSupervisor, Exit, WatchdogStarts, WritesHandshake, TimerReaped, Marks, Kills,
       Expires, Joins, TestEnds, OomKill, Signal
  <1>12. (printed \in Seq({"timeout", "oom", "setup"}))'
    <2>1. \A m \in {"timeout", "oom", "setup"} : Append(printed, m) \in Seq({"timeout", "oom", "setup"})
      OBVIOUS
    <2>2. printed' = printed \/ \E m \in {"timeout", "oom", "setup"} : printed' = Append(printed, m)
      BY DEF Next, SupervisorStep, WatchdogStep, Create, Remove, KillCgroup, Begin,
         Name, MakeFiles, Fork, Record, WaitChild, ReadHandshake, StopTimer, ReapWatchdog, Report,
         Empty, Finish, CleanTimer, CleanWatchdog, CleanChild, CleanFiles, CleanCgroups,
         CleanSupervisor, Exit, WatchdogStarts, WritesHandshake, TimerReaped, Marks, Kills,
         Expires, Joins, TestEnds, OomKill, Signal
    <2> QED
      BY <2>1, <2>2
  <1>13. (history \in [expired : BOOLEAN, killer : {"none", "watchdog", "itself", "oom"},
                        blind : BOOLEAN, unnamed : BOOLEAN, cut : BOOLEAN])'
    <2>1. CASE CleanWatchdog
      <3>1. (history.blind \/ watchdog = "started") \in BOOLEAN
        OBVIOUS
      <3>2. history' = history \/ history' = [history EXCEPT !.blind = (history.blind \/ watchdog = "started")]
        BY <2>1 DEF CleanWatchdog
      <3> QED
        BY <3>1, <3>2
    <2>2. CASE Signal
      <3>1. history' = [history EXCEPT !.blind = (history.blind \/ Unrecorded),
                                       !.unnamed = (history.unnamed \/ Unnamed),
                                       !.cut = (history.cut \/ cleaning)]
        BY <2>2 DEF Signal
      <3>2. /\ (history.blind \/ Unrecorded) \in BOOLEAN /\ (history.cut \/ cleaning) \in BOOLEAN
            /\ (history.unnamed \/ Unnamed) \in BOOLEAN
        OBVIOUS
      <3> QED
        BY <3>1, <3>2
    <2>3. CASE ~CleanWatchdog /\ ~Signal
      <3>1. \/ history' = history
            \/ history' = [history EXCEPT !.expired = TRUE]
            \/ \E k \in {"watchdog", "itself", "oom"} : history' = [history EXCEPT !.killer = k]
        BY <2>3 DEF Next, SupervisorStep, WatchdogStep, Create, Remove, KillCgroup, Begin, Name,
           MakeFiles, Fork, Record, WaitChild, ReadHandshake, StopTimer, ReapWatchdog, Report,
           Empty, Finish, CleanTimer, CleanChild, CleanFiles, CleanCgroups, CleanSupervisor,
           Exit, WatchdogStarts, WritesHandshake, TimerReaped, Marks, Kills, Expires, Joins,
           TestEnds, OomKill
      <3>2. CASE history' = [history EXCEPT !.expired = TRUE]
        BY <3>2
      <3>3. CASE \E k \in {"watchdog", "itself", "oom"} : history' = [history EXCEPT !.killer = k]
        BY <3>3
      <3> QED
        BY <3>1, <3>2, <3>3
    <2> QED
      BY <2>1, <2>2, <2>3
  <1> QED
    BY <1>1, <1>2, <1>3, <1>4, <1>5, <1>6, <1>7, <1>8, <1>9, <1>10, <1>11, <1>12, <1>13

\* One step of the proof for every action.
LEMMA TiedStep == ASSUME TypeOK, Tied, Next PROVE Tied'
  <1> USE Tellings DEF Markers, Tied, TypeOK, TrapsInv, TroubleInv, PlaceInv, TimerInv, NamedInv,
          CleanedInv, CgroupInv, SupervisorInv, KillerInv, OomInv, DeadlineInv, Unforked, Waited,
          Reaped, Past, Quiet, Undisturbed, AtExit, Asleep,
          vars, shell, tests, alarm, TestCgroup, Goto, Fail, Faulty, Sound, Setup, Work,
          Cleaning, Pids, Files, Cgroups, Config, Ended, Unrecorded, Unnamed, WatchdogOnly, TestOnly,
          Empties
  <1>1. ASSUME Begin, UNCHANGED <<config, signals>> PROVE Tied'
    BY <1>1 DEF Begin
  <1>29. ASSUME Create, UNCHANGED <<config, signals>> PROVE Tied'
    <2>1. CASE Goto("name") /\ Sound /\ cgroups' = cgroups \cup TestCgroup
      <3>1. /\ pc = "create" /\ pc' = "name" /\ cgroups' = cgroups \cup TestCgroup
            /\ UNCHANGED <<named, traps, cleaning, status, printed, tests, alarm, files, faults,
                           history, config, signals>>
        BY <1>29, <2>1 DEF Create
      <3>2. TrapsInv' /\ TroubleInv' /\ PlaceInv'
        BY <3>1
      <3>3. TimerInv' /\ NamedInv' /\ CleanedInv'
        BY <3>1
      <3>4. CgroupInv'
        BY <3>1
      <3>5. SupervisorInv' /\ KillerInv' /\ OomInv' /\ DeadlineInv'
        BY <3>1
      <3> QED
        BY <3>2, <3>3, <3>4, <3>5
    <2>2. CASE Faulty /\ UNCHANGED cgroups
      BY <1>29, <2>2 DEF Create
    <2> QED
      BY <1>29, <2>1, <2>2 DEF Create
  <1>30. ASSUME Name, UNCHANGED <<config, signals>> PROVE Tied'
    BY <1>30 DEF Name
  <1>2. ASSUME MakeFiles, UNCHANGED <<config, signals>> PROVE Tied'
    BY <1>2 DEF MakeFiles
  <1>3. ASSUME Fork, UNCHANGED <<config, signals>> PROVE Tied'
    <2>1. TrapsInv' /\ TroubleInv'
      BY <1>3 DEF Fork
    <2>2. PlaceInv' /\ TimerInv'
      BY <1>3 DEF Fork
    <2>3. NamedInv' /\ CleanedInv'
      BY <1>3 DEF Fork
    <2>4. CgroupInv'
      BY <1>3 DEF Fork
    <2>5. SupervisorInv'
      BY <1>3 DEF Fork
    <2>7. KillerInv'
      <3>1. /\ pc \in {"fork_child", "fork_watchdog"} /\ ~cleaning /\ history.killer # "watchdog"
            /\ pc = "fork_child" => history.killer = "none"
        BY <1>3 DEF Fork
      <3>2. UNCHANGED <<history, printed, faults, signals, files, cleaning>>
        BY <1>3 DEF Fork
      <3> QED
        BY <1>3, <3>1, <3>2 DEF Fork
    <2>6. OomInv' /\ DeadlineInv'
      BY <1>3 DEF Fork
    <2> QED
      BY <2>1, <2>2, <2>3, <2>4, <2>5, <2>6, <2>7
  <1>4. ASSUME Record, UNCHANGED <<config, signals>> PROVE Tied'
    BY <1>4 DEF Record
  <1>5. ASSUME WaitChild, UNCHANGED <<config, signals>> PROVE Tied'
    BY <1>5 DEF WaitChild
  <1>6. ASSUME ReadHandshake, UNCHANGED <<config, signals>> PROVE Tied'
    BY <1>6 DEF ReadHandshake
  <1>7. ASSUME StopTimer, UNCHANGED <<config, signals>> PROVE Tied'
    BY <1>7 DEF StopTimer
  <1>8. ASSUME ReapWatchdog, UNCHANGED <<config, signals>> PROVE Tied'
    BY <1>8 DEF ReapWatchdog
  <1>9. ASSUME Report, UNCHANGED <<config, signals>> PROVE Tied'
    BY <1>9 DEF Report
  <1>10. ASSUME Empty, UNCHANGED <<config, signals>> PROVE Tied'
    BY <1>10 DEF Empty, KillCgroup
  <1>11. ASSUME Finish, UNCHANGED <<config, signals>> PROVE Tied'
    BY <1>11 DEF Finish
  <1>12. ASSUME CleanTimer, UNCHANGED <<config, signals>> PROVE Tied'
    BY <1>12 DEF CleanTimer
  <1>13. ASSUME CleanWatchdog, UNCHANGED <<config, signals>> PROVE Tied'
    <2>1. CASE "watchdog" \in named
      <3>1. history' = [history EXCEPT !.blind = (history.blind \/ watchdog = "started")]
        BY <1>13, <2>1 DEF CleanWatchdog
      <3>2. /\ history'.blind <=> history.blind \/ watchdog = "started"
            /\ history'.expired = history.expired /\ history'.killer = history.killer /\ history'.cut = history.cut
            /\ history'.unnamed = history.unnamed
        BY <3>1
      <3> QED
        BY <1>13, <2>1, <3>1, <3>2 DEF CleanWatchdog
    <2>2. CASE "watchdog" \notin named
      BY <1>13, <2>2 DEF CleanWatchdog
    <2> QED
      BY <2>1, <2>2
  <1>14. ASSUME CleanChild, UNCHANGED <<config, signals>> PROVE Tied'
    BY <1>14 DEF CleanChild
  <1>15. ASSUME CleanFiles, UNCHANGED <<config, signals>> PROVE Tied'
    BY <1>15 DEF CleanFiles
  <1>16. ASSUME CleanCgroups, UNCHANGED <<config, signals>> PROVE Tied'
    BY <1>16 DEF CleanCgroups, Remove, KillCgroup
  <1>17. ASSUME CleanSupervisor, UNCHANGED <<config, signals>> PROVE Tied'
    <2>1. CASE "supervisor" \notin named /\ Goto("exit") /\ Sound /\ UNCHANGED <<cgroups, named>>
      BY <1>17, <2>1 DEF CleanSupervisor
    <2>2. CASE /\ "supervisor" \in named /\ Empties /\ Goto("exit") /\ Sound
               /\ cgroups' = cgroups \ {"supervisor"} /\ named' = named \ {"supervisor"}
      BY <1>17, <2>2 DEF CleanSupervisor
    <2>3. CASE "supervisor" \in named /\ ~Empties /\ Fail /\ Sound /\ UNCHANGED <<cgroups, named>>
      BY <1>17, <2>3 DEF CleanSupervisor
    <2>4. CASE "supervisor" \in named /\ Faulty /\ UNCHANGED <<cgroups, named>>
      BY <1>17, <2>4 DEF CleanSupervisor
    <2> QED
      BY <1>17, <2>1, <2>2, <2>3, <2>4 DEF CleanSupervisor
  <1>18. ASSUME Exit, UNCHANGED <<config, signals>> PROVE Tied'
    BY <1>18 DEF Exit
  <1>19. ASSUME WatchdogStarts PROVE Tied'
    BY <1>19 DEF WatchdogStarts
  <1>20. ASSUME WritesHandshake PROVE Tied'
    BY <1>20 DEF WritesHandshake
  <1>21. ASSUME TimerReaped PROVE Tied'
    BY <1>21 DEF TimerReaped
  <1>22. ASSUME Marks PROVE Tied'
    BY <1>22 DEF Marks
  <1>23. ASSUME Kills PROVE Tied'
    BY <1>23 DEF Kills
  <1>24. ASSUME Expires PROVE Tied'
    BY <1>24 DEF Expires
  <1>25. ASSUME Joins PROVE Tied'
    BY <1>25 DEF Joins
  <1>26. ASSUME TestEnds PROVE Tied'
    BY <1>26 DEF TestEnds
  <1>27. ASSUME OomKill PROVE Tied'
    BY <1>27 DEF OomKill
  <1>28. ASSUME Signal PROVE Tied'
    <2>1. /\ history'.blind <=> history.blind \/ Unrecorded
          /\ history'.cut <=> history.cut \/ cleaning
          /\ history'.unnamed <=> history.unnamed \/ Unnamed
          /\ history'.expired = history.expired /\ history'.killer = history.killer
      BY <1>28 DEF Signal
    <2>2. CASE "signals" \notin traps
      BY <1>28, <2>1, <2>2 DEF Signal
    <2>3. CASE "signals" \in traps /\ cleaning
      BY <1>28, <2>1, <2>3 DEF Signal
    <2>4. CASE "signals" \in traps /\ ~cleaning
      BY <1>28, <2>1, <2>4 DEF Signal
    <2> QED
      BY <2>2, <2>3, <2>4
  <1> QED
    BY <1>1, <1>2, <1>3, <1>4, <1>5, <1>6, <1>7, <1>8, <1>9, <1>10, <1>11, <1>12, <1>13, <1>14,
       <1>15, <1>16, <1>17, <1>18, <1>19, <1>20, <1>21, <1>22, <1>23, <1>24, <1>25, <1>26,
       <1>27, <1>28, <1>29, <1>30 DEF Next, SupervisorStep, WatchdogStep

-------------------------------------------------------------------------------
(* The fold over the markers.                                                *)

\* iter is the function that FoldLeft chooses, of the marker positions up to n.
IteratesApply(iter, n, base, s) ==
    iter = [t \in SUBSET (1 .. n) |-> IF t = {} THEN base ELSE Apply(iter[t \ {Greatest(t)}], s[Greatest(t)])]

\* There is such a function, of any number of positions.
LEMMA MarkersIterate == \A base, s : \A n \in Nat : \E iter : IteratesApply(iter, n, base, s)
  <1> SUFFICES ASSUME NEW base, NEW s
               PROVE  \A n \in Nat : \E iter : IteratesApply(iter, n, base, s)
    OBVIOUS
  <1> DEFINE T == {n \in Nat : \E iter : IteratesApply(iter, n, base, s)}
  <1>1. 0 \in T
    <2>1. IteratesApply([t \in SUBSET (1 .. 0) |-> base], 0, base, s)
      <3>1. \A t \in SUBSET (1 .. 0) : t = {}
        OBVIOUS
      <3> QED
        BY <3>1 DEF IteratesApply
    <2> QED
      BY <2>1
  <1>2. ASSUME NEW k \in T PROVE k + 1 \in T
    <2>1. PICK iter : IteratesApply(iter, k, base, s)
      OBVIOUS
    <2> DEFINE n == k + 1
               next == [t \in SUBSET (1 .. n) |-> IF n \in t THEN Apply(iter[t \ {n}], s[n]) ELSE iter[t]]
    <2>2. k \in Nat /\ n \in Nat
      OBVIOUS
    <2>3. ASSUME NEW t \in SUBSET (1 .. n), n \in t
          PROVE  next[t] = Apply(next[t \ {Greatest(t)}], s[Greatest(t)])
      <3>1. Greatest(t) = n
        BY <2>2, <2>3, GreatestOne
      <3>2. t \ {n} \in SUBSET (1 .. n) /\ n \notin t \ {n}
        OBVIOUS
      <3> HIDE DEF n
      <3> QED
        BY <2>3, <3>1, <3>2
    <2>4. ASSUME NEW t \in SUBSET (1 .. n), n \notin t
          PROVE  next[t] = IF t = {} THEN base ELSE Apply(next[t \ {Greatest(t)}], s[Greatest(t)])
      <3>1. t \in SUBSET (1 .. k) /\ t \ {Greatest(t)} \in SUBSET (1 .. n) /\ n \notin t \ {Greatest(t)}
        <4>1. \A y \in t : y \in 1 .. k
          BY <2>2, <2>4
        <4> QED
          BY <2>4, <4>1
      <3>2. iter[t] = IF t = {} THEN base ELSE Apply(iter[t \ {Greatest(t)}], s[Greatest(t)])
        BY <2>1, <3>1 DEF IteratesApply
      <3> HIDE DEF n
      <3> QED
        BY <2>4, <3>1, <3>2
    <2>5. IteratesApply(next, n, base, s)
      <3> HIDE DEF n
      <3> QED
        BY <2>3, <2>4 DEF IteratesApply
    <2> QED
      BY <2>2, <2>5
  <1>3. T = Nat
    <2> HIDE DEF T
    <2>1. T \in SUBSET Nat
      BY DEF T
    <2> QED
      BY <1>1, <1>2, <2>1, EveryNatural
  <1> QED
    BY <1>3

\* ApplyAll goes through the markers one by one.
LEMMA FoldSteps ==
    ASSUME NEW n \in Nat, NEW s, DOMAIN s = 1 .. n, NEW base
    PROVE  \E g : /\ g[0] = base
                  /\ \A k \in 0 .. n - 1 : g[k + 1] = Apply(g[k], s[k + 1])
                  /\ ApplyAll(base, s) = g[n]
  <1> DEFINE iter == CHOOSE iter : IteratesApply(iter, n, base, s)
             g == [k \in 0 .. n |-> iter[1 .. k]]
  <1>1. IteratesApply(iter, n, base, s)
    BY MarkersIterate
  <1>2. ApplyAll(base, s) = iter[1 .. n]
    BY DEF ApplyAll, SX!FoldLeft, SX!MapThenFoldSet, SX!Max, IteratesApply, Greatest
  <1> HIDE DEF iter
  <1>3. g[0] = base
    <2>1. 1 .. 0 = {} /\ {} \in SUBSET (1 .. n)
      OBVIOUS
    <2> QED
      BY <1>1, <2>1 DEF IteratesApply
  <1>4. ASSUME NEW k \in 0 .. n - 1 PROVE g[k + 1] = Apply(g[k], s[k + 1])
    <2> DEFINE t == 1 .. k + 1
    <2>1. t \in SUBSET (1 .. n) /\ t # {} /\ Greatest(t) = k + 1 /\ t \ {Greatest(t)} = 1 .. k
      BY Leading
    <2> HIDE DEF t
    <2>2. iter[t] = Apply(iter[1 .. k], s[k + 1])
      BY <1>1, <2>1 DEF IteratesApply
    <2> QED
      BY <2>2 DEF t
  <1>5. g[n] = iter[1 .. n]
    OBVIOUS
  <1> HIDE DEF g
  <1> QED
    BY <1>2, <1>3, <1>4, <1>5

-------------------------------------------------------------------------------
(* What the markers make of an action that buck2 has a result for.           *)

\* A marker is among the first k.
ToldBy(k, m) == \E i \in 1 .. k : printed[i] = m

Observed(obs, raw, killed) == [kind |-> "observed", obs |-> obs, raw |-> raw, oom |-> killed]

\* Every name asked for has the verdict of a marker that was told.
FromMarker(k, obs) ==
    \/ obs = [n \in action.names |-> "Timeout"] /\ ToldBy(k, "timeout")
    \/ obs = [n \in action.names |-> "Fail"] /\ ToldBy(k, "oom")

\* The first k markers leave the group observed; said: the verdicts the harness printed.
Stands(k, o, raw, said) ==
    /\ ~ToldBy(k, "setup") /\ (ToldBy(k, "timeout") => config.logical)
    /\ \E obs : \E killed \in BOOLEAN :
          /\ o = Observed(obs, raw, killed)
          /\ killed <=> ~config.logical /\ ToldBy(k, "oom")
          /\ IF config.logical /\ (ToldBy(k, "timeout") \/ ToldBy(k, "oom"))
             THEN FromMarker(k, obs) ELSE obs = said

\* What the first k markers make of it: the group failed of the first one that fails groups, or
\* it is still observed.
After(k, o, raw, said) ==
    \/ o = Failed("InfraFailure", FALSE) /\ ToldBy(k, "setup")
    \/ o = Failed("Timeout", TRUE) /\ ~config.logical /\ ToldBy(k, "timeout")
    \/ Stands(k, o, raw, said)

\* An action of a logical test or of a whole unit has one name.
Shaped == action \in Actions /\ (config.logical \/ action.whole => Cardinality(action.names) = 1)

\* One more marker.
LEMMA MarkerStep ==
    ASSUME TypeOK, Shaped, NEW k \in Nat, NEW m \in Markers, m = printed[k + 1],
           NEW o, NEW raw, NEW said, After(k, o, raw, said)
    PROVE  After(k + 1, Apply(o, Parsed(m)), raw, said)
  <1>1. \A x : ToldBy(k + 1, x) <=> ToldBy(k, x) \/ x = m
    BY DEF ToldBy
  <1>2. config.logical \in BOOLEAN
    BY DEF TypeOK, Config
  <1>3. ~Impossible(Parsed(m))
    BY <1>2 DEF Impossible, Parsed, Shaped, Markers
  <1>4. CASE ~Stands(k, o, raw, said)
    <2>1. o.kind = "failed"
      BY <1>4 DEF After, Failed
    <2>2. Apply(o, Parsed(m)) = o
      BY <2>1 DEF Apply
    <2> QED
      BY <1>1, <1>4, <2>2 DEF After
  <1>5. CASE Stands(k, o, raw, said)
    <2>7. PICK obs : \E killed \in BOOLEAN :
             /\ o = Observed(obs, raw, killed)
             /\ killed <=> ~config.logical /\ ToldBy(k, "oom")
             /\ IF config.logical /\ (ToldBy(k, "timeout") \/ ToldBy(k, "oom"))
                THEN FromMarker(k, obs) ELSE obs = said
      BY <1>5 DEF Stands
    <2>1. PICK killed \in BOOLEAN :
             /\ o = Observed(obs, raw, killed)
             /\ killed <=> ~config.logical /\ ToldBy(k, "oom")
             /\ IF config.logical /\ (ToldBy(k, "timeout") \/ ToldBy(k, "oom"))
                THEN FromMarker(k, obs) ELSE obs = said
      BY <2>7
    <2>2. ~ToldBy(k, "setup") /\ (ToldBy(k, "timeout") => config.logical) /\ o.kind # "failed"
      BY <1>5, <2>1 DEF Stands, Observed
    <2>3. CASE m = "setup"
      <3>1. Apply(o, Parsed(m)) = Failed("InfraFailure", FALSE)
        BY <1>3, <2>2, <2>3 DEF Apply, Parsed
      <3> QED
        BY <1>1, <2>3, <3>1 DEF After
    <2>4. CASE m = "timeout" /\ ~config.logical
      <3>1. Apply(o, Parsed(m)) = Failed("Timeout", TRUE)
        BY <1>3, <2>2, <2>4 DEF Apply, Parsed
      <3> QED
        BY <1>1, <2>4, <3>1 DEF After
    <2>5. CASE m = "oom" /\ ~config.logical
      <3>1. Apply(o, Parsed(m)) = [o EXCEPT !.oom = TRUE]
        BY <1>3, <2>2, <2>5 DEF Apply, Parsed
      <3>2. [o EXCEPT !.oom = TRUE] = Observed(obs, raw, TRUE)
        <4>1. \A b : [o EXCEPT !.oom = b] = Observed(obs, raw, b)
          BY <2>1 DEF Observed
        <4> QED
          BY <4>1
      <3>3. ToldBy(k + 1, "oom") /\ ~ToldBy(k + 1, "setup") /\ ~ToldBy(k + 1, "timeout")
        BY <1>1, <2>2, <2>5
      <3> QED
        BY <2>1, <2>5, <3>1, <3>2, <3>3 DEF After, Stands
    <2>6. CASE m # "setup" /\ config.logical
      <3> DEFINE v == IF m = "timeout" THEN "Timeout" ELSE "Fail"
                 all == [n \in action.names |-> v]
      <3>1. Apply(o, Parsed(m)) = [o EXCEPT !.obs = all]
        BY <1>3, <2>2, <2>6 DEF Apply, Parsed, Markers
      <3>2. [o EXCEPT !.obs = all] = Observed(all, raw, killed)
        BY <2>1 DEF Observed
      <3>3. /\ ~ToldBy(k + 1, "setup") /\ (ToldBy(k + 1, "timeout") \/ ToldBy(k + 1, "oom"))
            /\ killed <=> ~config.logical /\ ToldBy(k + 1, "oom")
        BY <1>1, <2>1, <2>2, <2>6 DEF Markers
      <3>4. FromMarker(k + 1, all)
        BY <1>1, <2>6 DEF FromMarker, Markers
      <3> HIDE DEF all
      <3> QED
        BY <2>6, <3>1, <3>2, <3>3, <3>4 DEF After, Stands
    <2> QED
      BY <2>3, <2>4, <2>5, <2>6 DEF Markers
  <1> QED
    BY <1>4, <1>5

\* All of them.
LEMMA MarkersApplied ==
    ASSUME TypeOK, Shaped, NEW raw, NEW said
    PROVE  After(Len(printed), ApplyAll(Observed(said, raw, FALSE),
                                        [i \in DOMAIN printed |-> Parsed(printed[i])]), raw, said)
  <1> DEFINE s == [i \in DOMAIN printed |-> Parsed(printed[i])]
             base == Observed(said, raw, FALSE)
  <1>1. Len(printed) \in Nat /\ DOMAIN printed = 1 .. Len(printed) /\ DOMAIN s = 1 .. Len(printed)
    BY DEF TypeOK
  <1>2. PICK g : /\ g[0] = base
                 /\ \A k \in 0 .. Len(printed) - 1 : g[k + 1] = Apply(g[k], s[k + 1])
                 /\ ApplyAll(base, s) = g[Len(printed)]
    <2> HIDE DEF s, base
    <2> QED
      BY <1>1, FoldSteps
  <1> DEFINE T == {k \in Nat : k <= Len(printed) => After(k, g[k], raw, said)}
  <1>3. 0 \in T
    <2>1. \A x : ~ToldBy(0, x)
      BY DEF ToldBy
    <2> QED
      BY <1>2, <2>1 DEF After, Stands
  <1>4. ASSUME NEW k \in T PROVE k + 1 \in T
    <2> SUFFICES ASSUME k + 1 <= Len(printed) PROVE After(k + 1, g[k + 1], raw, said)
      OBVIOUS
    <2>1. k \in Nat /\ k \in 0 .. Len(printed) - 1 /\ k + 1 \in DOMAIN printed /\ After(k, g[k], raw, said)
      BY <1>1
    <2>2. g[k + 1] = Apply(g[k], Parsed(printed[k + 1]))
      BY <1>2, <2>1
    <2>3. printed[k + 1] \in Markers
      BY <2>1 DEF TypeOK, Markers
    <2> QED
      BY <2>1, <2>2, <2>3, MarkerStep
  <1>5. T = Nat
    <2>1. T \in SUBSET Nat
      OBVIOUS
    <2> HIDE DEF T
    <2> QED
      BY <1>3, <1>4, <2>1, EveryNatural
  <1>6. After(Len(printed), g[Len(printed)], raw, said)
    BY <1>1, <1>5
  <1> HIDE DEF s, base
  <1>7. After(Len(printed), ApplyAll(base, s), raw, said)
    BY <1>2, <1>6
  <1> QED
    BY <1>7 DEF s, base

-------------------------------------------------------------------------------
(* The invariant of an action and its answer.                                *)

\* How the process of a result ended.
Raw(r) == IF r.status = "absent" THEN "exitN" ELSE r.status

\* The outcome of the group, by the answer.
Answered ==
    \/ reply.kind = "result" /\ After(Len(printed), outcome, Raw(reply), lines)
    \/ reply.kind = "error" /\ outcome = Failed("Fatal", FALSE)
    \/ reply.kind = "absent" /\ outcome = Failed("InfraFailure", FALSE)
    \/ reply.kind = "cancelled" /\ (outcome = Failed("Omitted", FALSE) \/ outcome = [kind |-> "again"])

AnswersIInv ==
    /\ TypeOK /\ Tied /\ Shaped
    /\ reply = NoReply => outcome = NoOutcome
    /\ reply # NoReply => reply \in Replies /\ lines \in LinesPrinted /\ Answered

LEMMA AnswersInit == AInit => AnswersIInv
  BY SupervisorInit DEF AInit, AnswersIInv, Shaped, NoReply, NoOutcome

LEMMA OutcomeAnswers ==
    ASSUME TypeOK, Shaped, NEW r \in Replies, NEW said
    PROVE  LET o == GroupOutcome(r, said)
           IN \/ r.kind = "result" /\ After(Len(printed), o, Raw(r), said)
              \/ r.kind = "error" /\ o = Failed("Fatal", FALSE)
              \/ r.kind = "absent" /\ o = Failed("InfraFailure", FALSE)
              \/ r.kind = "cancelled" /\ (o = Failed("Omitted", FALSE) \/ o = [kind |-> "again"])
  <1> DEFINE o == GroupOutcome(r, said)
  <1>1. CASE r.kind = "result"
    <2>1. Decode(r) = [kind |-> "completed", raw |-> Raw(r)]
      BY <1>1 DEF Decode, Raw
    <2>2. o = ApplyAll(Observed(said, Raw(r), FALSE), [i \in DOMAIN printed |-> Parsed(printed[i])])
      BY <1>1, <2>1 DEF GroupOutcome, Observed
    <2>3. After(Len(printed), o, Raw(r), said)
      BY <2>2, MarkersApplied
    <2> QED
      BY <1>1, <2>3
  <1>2. CASE r.kind = "error"
    BY <1>2 DEF GroupOutcome
  <1>3. CASE r.kind = "absent"
    <2>1. Decode(r) = [kind |-> "malformed"]
      BY <1>3 DEF Decode
    <2> QED
      BY <1>3, <2>1 DEF GroupOutcome
  <1>4. CASE r.kind = "cancelled"
    <2>1. CASE r.reason = "queue_timeout"
      <3>1. Decode(r) = [kind |-> "queue_timeout"]
        BY <1>4, <2>1 DEF Decode
      <3>2. o = [kind |-> "again"]
        BY <1>4, <3>1 DEF GroupOutcome
      <3> QED
        BY <1>4, <3>2
    <2>2. CASE r.reason # "queue_timeout"
      <3>1. Decode(r) = [kind |-> "unspecified"]
        BY <1>4, <2>2 DEF Decode
      <3>2. o = Failed("Omitted", FALSE)
        BY <1>4, <3>1 DEF GroupOutcome
      <3> QED
        BY <1>4, <3>2
    <2> QED
      BY <2>1, <2>2
  <1>5. r.kind \in {"result", "error", "absent", "cancelled"}
    BY DEF Replies, Result
  <1> QED
    BY <1>1, <1>2, <1>3, <1>4, <1>5

\* The supervisor has not moved.
LEMMA Unmoved == AnswersIInv /\ UNCHANGED <<vars, action>> => TypeOK' /\ Tied' /\ Shaped'
  BY DEF vars, shell, tests, alarm, AnswersIInv, TypeOK, Tied, TrapsInv, TroubleInv, PlaceInv,
     TimerInv, NamedInv, CleanedInv, CgroupInv, SupervisorInv, KillerInv, OomInv, DeadlineInv,
     Shaped, Quiet, Undisturbed, AtExit, Asleep, Told, Empties, TestCgroup

LEMMA AnswersStep == AnswersIInv /\ [ANext]_avars => AnswersIInv'
  <1> SUFFICES ASSUME AnswersIInv, [ANext]_avars PROVE AnswersIInv'
    OBVIOUS
  <1>1. CASE Unanswered(Next)
    <2>1. Next /\ reply = NoReply /\ UNCHANGED <<action, lines, reply, outcome>>
      BY <1>1 DEF Unanswered
    <2>2. config' = config
      BY <2>1 DEF Next, SupervisorStep, WatchdogStep, WatchdogStarts, WritesHandshake, TimerReaped, Marks,
         Kills, Expires, Joins, TestEnds, OomKill, Signal, WatchdogOnly, TestOnly
    <2>3. TypeOK' /\ Tied'
      BY <2>1, TypeStep, TiedStep DEF AnswersIInv
    <2> QED
      BY <2>1, <2>2, <2>3 DEF AnswersIInv, Shaped, Actions
  <1>2. CASE Answer
    <2>1. UNCHANGED <<vars, action>> /\ reply' \in Replies /\ lines' \in LinesPrinted
          /\ outcome' = GroupOutcome(reply', lines')
      BY <1>2 DEF Answer
    <2>2. TypeOK' /\ Tied' /\ Shaped'
      BY <2>1, Unmoved
    <2>3. reply' \in Replies' /\ lines' \in LinesPrinted'
      BY <2>1 DEF Replies, LinesPrinted, Ended, vars, shell, tests
    <2>4. Answered'
      <3>1. \/ reply'.kind = "result" /\ After(Len(printed), outcome', Raw(reply'), lines')
            \/ reply'.kind = "error" /\ outcome' = Failed("Fatal", FALSE)
            \/ reply'.kind = "absent" /\ outcome' = Failed("InfraFailure", FALSE)
            \/ reply'.kind = "cancelled"
               /\ (outcome' = Failed("Omitted", FALSE) \/ outcome' = [kind |-> "again"])
        BY <2>1, OutcomeAnswers DEF AnswersIInv
      <3>2. printed' = printed /\ config' = config /\ action' = action
        BY <2>1 DEF vars, shell
      <3> QED
        BY <3>1, <3>2 DEF Answered, After, Stands, FromMarker, ToldBy, Raw, Failed, Observed
    <2>5. reply' # NoReply
      BY <2>1 DEF Replies, Result, NoReply
    <2> QED
      BY <2>2, <2>3, <2>4, <2>5 DEF AnswersIInv, NoReply
  <1>3. CASE UNCHANGED avars
    <2>1. UNCHANGED <<vars, action>> /\ UNCHANGED <<lines, reply, outcome>>
      BY <1>3 DEF avars
    <2>2. TypeOK' /\ Tied' /\ Shaped'
      BY <2>1, Unmoved
    <2> QED
      BY <2>1, <2>2 DEF AnswersIInv, Answered, After, Stands, FromMarker, ToldBy, Raw, Failed, Observed,
         Replies, LinesPrinted, Ended, Result, NoReply, NoOutcome, vars, shell, tests
  <1> QED
    BY <1>1, <1>2, <1>3 DEF ANext

LEMMA AnswersInv == ASpec => []AnswersIInv
  <1>1. AInit /\ [][ANext]_avars => []AnswersIInv
    BY AnswersInit, AnswersStep, PTL
  <1> QED
    BY <1>1 DEF ASpec

-------------------------------------------------------------------------------
(* What follows.                                                             *)

\* Nothing is left by a supervisor that no signal met at a bad moment and of which no command failed.
LEMMA LeavesNothing == TypeOK /\ Tied => NothingLeft
  <1> SUFFICES ASSUME TypeOK, Tied, Ended, faults = 0, ~history.blind, ~history.unnamed,
                      ~history.cut
               PROVE  Left = {}
    BY DEF NothingLeft
  <1>1. Quiet /\ pc = "exited" /\ named = {}
    BY DEF Tied, TroubleInv, TrapsInv, CleanedInv, Ended, AtExit, Quiet
  <1>2. cgroups = {} /\ files = {}
    BY <1>1 DEF Tied, CgroupInv, NamedInv
  <1>3. child \notin {"joining", "running"} /\ watchdog \in {"none", "gone"} /\ timer # "sleeping"
    BY <1>1 DEF Tied, NamedInv, TimerInv, Asleep
  <1>4. ~(helper /\ config.remote)
    BY <1>2 DEF Tied, CgroupInv, TestCgroup
  <1> QED
    BY <1>2, <1>3, <1>4 DEF Left

\* On a remote worker no process and no cgroup is left unless a setup failure was told.
LEMMA RemoteLeaves ==
    TypeOK /\ Tied /\ pc = "exited" /\ config.remote /\ Quiet /\ ~history.cut /\ ~history.unnamed
        => Left \subseteq Files
  <1> SUFFICES ASSUME TypeOK, Tied, pc = "exited", config.remote, Quiet, ~history.cut,
                      ~history.unnamed
               PROVE  Left \subseteq Files
    OBVIOUS
  <1>1. named = {} /\ Empties
    BY DEF Tied, CleanedInv, SupervisorInv, AtExit
  <1>2. cgroups = {}
    BY <1>1 DEF Tied, CgroupInv
  <1>3. ~helper /\ child # "running"
    BY <1>2 DEF Tied, CgroupInv, TestCgroup
  <1> QED
    BY <1>1, <1>2, <1>3 DEF Left, Empties, TypeOK, Files

LEMMA ToldByAll == TypeOK => \A m : ToldBy(Len(printed), m) <=> Told(m)
  BY DEF TypeOK, ToldBy, Told

LEMMA LinesSaid ==
    ASSUME TypeOK, Shaped, lines \in LinesPrinted
    PROVE  /\ \A n \in DOMAIN lines : lines[n] \in {"Pass", "Fail"}
           /\ action.whole => DOMAIN lines = {}
  <1>1. DOMAIN <<>> = {}
    OBVIOUS
  <1>2. CASE action.whole \/ child \in {"none", "joining"}
    BY <1>1, <1>2 DEF LinesPrinted
  <1>3. CASE ~(action.whole \/ child \in {"none", "joining"})
    <2>1. PICK T \in SUBSET action.names : lines \in [T -> {"Pass", "Fail"}]
      BY <1>3 DEF LinesPrinted
    <2> QED
      BY <1>3, <2>1
  <1> QED
    BY <1>2, <1>3

\* The verdict of a name whose group failed.
LEMMA FailedVerdict ==
    ASSUME NEW s, NEW c, outcome = Failed(s, c), NEW n
    PROVE  /\ Verdict(n) = [status |-> s, integrity |-> IF c THEN "Complete" ELSE "MissingTerminalResult"]
           /\ Verdict(n).status = s
  BY DEF Verdict, Failed

\* The verdicts of a group that is observed: a marker's, or else what the harness printed.
LEMMA StandingVerdict ==
    ASSUME AnswersIInv, Stands(Len(printed), outcome, Raw(reply), lines), NEW n \in action.names
    PROVE  \/ /\ config.logical /\ Told("timeout")
              /\ Verdict(n) = [status |-> "Timeout", integrity |-> "Complete"]
              /\ Verdict(n).status = "Timeout"
           \/ /\ Told("oom")
              /\ Verdict(n).status \in {"Fail", "Fatal"}
           \/ /\ ~Told("timeout") /\ ~Told("oom")
              /\ Verdict(n) = Observation(n, lines, Raw(reply), FALSE, action.whole,
                                          Cardinality(action.names) = 1)
  <1>1. TypeOK /\ config.logical \in BOOLEAN
    BY DEF AnswersIInv, TypeOK, Config
  <1>2. PICK obs : \E killed \in BOOLEAN :
           /\ outcome = Observed(obs, Raw(reply), killed)
           /\ killed <=> ~config.logical /\ Told("oom")
           /\ IF config.logical /\ (Told("timeout") \/ Told("oom"))
              THEN FromMarker(Len(printed), obs) ELSE obs = lines
    BY <1>1, ToldByAll DEF Stands
  <1>3. PICK killed \in BOOLEAN :
           /\ outcome = Observed(obs, Raw(reply), killed)
           /\ killed <=> ~config.logical /\ Told("oom")
           /\ IF config.logical /\ (Told("timeout") \/ Told("oom"))
              THEN FromMarker(Len(printed), obs) ELSE obs = lines
    BY <1>2
  <1>4. Verdict(n) = Observation(n, obs, Raw(reply), killed, action.whole, Cardinality(action.names) = 1)
    BY <1>3 DEF Verdict, Observed
  <1>5. Told("timeout") => config.logical
    BY <1>1, ToldByAll DEF Stands
  <1>6. CASE killed
    <2>1. Told("oom")
      BY <1>3, <1>6
    <2> QED
      BY <2>1, <1>4, <1>6 DEF Observation
  <1>7. CASE ~killed /\ (Told("timeout") \/ Told("oom"))
    <2>1. config.logical /\ FromMarker(Len(printed), obs)
      BY <1>1, <1>3, <1>5, <1>7
    <2>2. CASE obs = [m \in action.names |-> "Timeout"] /\ Told("timeout")
      BY <1>4, <1>7, <2>1, <2>2 DEF Observation
    <2>3. CASE obs = [m \in action.names |-> "Fail"] /\ Told("oom")
      BY <1>4, <1>7, <2>3 DEF Observation
    <2> QED
      BY <1>1, <2>1, <2>2, <2>3, ToldByAll DEF FromMarker
  <1>8. CASE ~killed /\ ~Told("timeout") /\ ~Told("oom")
    <2>1. obs = lines
      BY <1>3, <1>8
    <2>2. CASE killed = FALSE
      BY <1>4, <1>8, <2>1, <2>2
    <2> QED
      BY <1>8, <2>2
  <1> QED
    BY <1>6, <1>7, <1>8

\* What the attempt makes of a name, by what was answered and told.
LEMMA VerdictsComeFrom ==
    ASSUME AnswersIInv, Judged, NEW n \in action.names
    PROVE  /\ reply # NoReply /\ reply \in Replies /\ lines \in LinesPrinted
           /\ \/ /\ reply.kind = "absent" \/ (reply.kind = "result" /\ Told("setup"))
                 /\ Verdict(n) = [status |-> "InfraFailure", integrity |-> "MissingTerminalResult"]
                 /\ Verdict(n).status = "InfraFailure"
              \/ reply.kind = "error" /\ Verdict(n).status = "Fatal"
              \/ reply.kind = "cancelled" /\ Verdict(n).status = "Omitted"
              \/ /\ reply.kind = "result" /\ ~config.logical /\ Told("timeout")
                 /\ Verdict(n) = [status |-> "Timeout", integrity |-> "Complete"]
                 /\ Verdict(n).status = "Timeout"
              \/ /\ reply.kind = "result" /\ Quiet /\ (Told("timeout") => config.logical)
                 /\ Stands(Len(printed), outcome, Raw(reply), lines)
  <1>1. reply # NoReply /\ reply \in Replies /\ lines \in LinesPrinted /\ Answered /\ TypeOK
    BY DEF AnswersIInv, Judged, NoOutcome
  <1>2. CASE reply.kind = "result" /\ After(Len(printed), outcome, Raw(reply), lines)
    <2>1. CASE outcome = Failed("InfraFailure", FALSE) /\ ToldBy(Len(printed), "setup")
      BY <1>1, <1>2, <2>1, FailedVerdict, ToldByAll
    <2>2. CASE outcome = Failed("Timeout", TRUE) /\ ~config.logical /\ ToldBy(Len(printed), "timeout")
      BY <1>1, <1>2, <2>2, FailedVerdict, ToldByAll
    <2>3. CASE Stands(Len(printed), outcome, Raw(reply), lines)
      <3>1. Quiet /\ (Told("timeout") => config.logical)
        BY <1>1, <2>3, ToldByAll DEF Stands, Quiet
      <3> QED
        BY <1>1, <1>2, <2>3, <3>1
    <2> QED
      BY <1>2, <2>1, <2>2, <2>3 DEF After
  <1>3. CASE reply.kind = "error" /\ outcome = Failed("Fatal", FALSE)
    BY <1>1, <1>3 DEF Verdict, Failed
  <1>4. CASE reply.kind = "absent" /\ outcome = Failed("InfraFailure", FALSE)
    BY <1>1, <1>4, FailedVerdict
  <1>5. CASE reply.kind = "cancelled" /\ outcome = Failed("Omitted", FALSE)
    BY <1>1, <1>5 DEF Verdict, Failed
  <1>6. outcome # [kind |-> "again"]
    BY DEF Judged
  <1> QED
    BY <1>1, <1>2, <1>3, <1>4, <1>5, <1>6 DEF Answered

\* What an absent name comes to.
LEMMA AbsentNames ==
    ASSUME AnswersIInv, reply \in Replies, reply.kind = "result"
    PROVE  /\ Raw(reply) \in ProcessOutcome
           /\ Raw(reply) \in {"timedout", "exit0"} => reply = Result(Raw(reply))
           /\ LET v == AbsentNameVerdict(Raw(reply), action.whole, Cardinality(action.names) = 1)
              IN /\ v \in {"Timeout", "Pass", "Fatal", "Fail"}
                 /\ v = "Pass" => Raw(reply) = "exit0" /\ action.whole
                 /\ v = "Timeout" => Raw(reply) = "timedout"
  <1>1. reply \in {Result("timedout"), Result("exit0"), Result("exitN"), Result("absent")}
    BY DEF Replies, Result
  <1>2. Raw(reply) \in {"timedout", "exit0", "exitN"}
    BY <1>1 DEF Raw, Result
  <1>3. action.whole \in BOOLEAN
    BY DEF AnswersIInv, Shaped, Actions
  <1> QED
    BY <1>1, <1>2, <1>3 DEF Raw, Result, AbsentNameVerdict, ProcessOutcome

\* Where a pass comes from: no marker that says anything of the test was told.
LEMMA PassComesFrom ==
    ASSUME AnswersIInv, Judged, NEW n \in action.names, Verdict(n).status = "Pass"
    PROVE  /\ reply.kind = "result" /\ Quiet /\ ~Told("timeout") /\ ~Told("oom")
           /\ IF action.whole THEN reply = Result("exit0") ELSE n \in DOMAIN lines /\ lines[n] = "Pass"
  <1>1. /\ reply \in Replies /\ lines \in LinesPrinted /\ reply.kind = "result" /\ Quiet
        /\ Stands(Len(printed), outcome, Raw(reply), lines) /\ TypeOK /\ Shaped
    BY VerdictsComeFrom DEF AnswersIInv
  <1>2. /\ ~Told("timeout") /\ ~Told("oom")
        /\ Verdict(n) = Observation(n, lines, Raw(reply), FALSE, action.whole,
                                    Cardinality(action.names) = 1)
    BY <1>1, StandingVerdict
  <1>3. CASE n \in DOMAIN lines
    BY <1>1, <1>2, <1>3, LinesSaid DEF Observation
  <1>4. CASE n \notin DOMAIN lines
    <2>1. AbsentNameVerdict(Raw(reply), action.whole, Cardinality(action.names) = 1) = "Pass"
      BY <1>2, <1>4 DEF Observation
    <2> QED
      BY <1>1, <1>2, <2>1, AbsentNames
  <1> QED
    BY <1>3, <1>4

-------------------------------------------------------------------------------
(* The theorems.                                                             *)

\* Every variable keeps its type, whatever the shells, the kernel, the test and buck2 do
\* (Supervisor and Answers).
THEOREM Types == ASpec => []TypeOK
  <1>1. AnswersIInv => TypeOK
    BY DEF AnswersIInv
  <1> QED
    BY AnswersInv, <1>1, PTL

\* The supervisor leaves nothing it made once it is gone, for any number of signals that met
\* neither a process or cgroup it had not recorded yet nor a cleanup: every process, file and
\* cgroup is then one that a cleanup knows.
THEOREM NoLeftovers == ASpec => []NothingLeft
  <1>1. AnswersIInv => NothingLeft
    BY LeavesNothing DEF AnswersIInv
  <1> QED
    BY AnswersInv, <1>1, PTL

\* A pass is what the harness reported, or what its whole unit exited with; the test ended by
\* itself, and on a remote worker nothing of it is left.
THEOREM PassesAreEarned == ASpec => []PassIsEarned
  <1>1. AnswersIInv => PassIsEarned
    <2> SUFFICES ASSUME AnswersIInv, Judged, NEW n \in action.names, Verdict(n).status = "Pass"
                 PROVE  /\ IF action.whole THEN reply = Result("exit0")
                           ELSE n \in DOMAIN lines /\ lines[n] = "Pass"
                        /\ RanToItsEnd /\ signals = 0 =>
                              /\ history.killer = "itself" /\ ~oom
                              /\ config.remote => Left \subseteq Files
      BY DEF PassIsEarned
    <2>1. /\ reply.kind = "result" /\ Quiet /\ ~Told("timeout") /\ ~Told("oom")
          /\ IF action.whole THEN reply = Result("exit0") ELSE n \in DOMAIN lines /\ lines[n] = "Pass"
      BY PassComesFrom
    <2>2. ASSUME RanToItsEnd, signals = 0
          PROVE  history.killer = "itself" /\ ~oom /\ (config.remote => Left \subseteq Files)
      <3>1. TypeOK /\ Tied
        BY DEF AnswersIInv
      <3>2. Undisturbed
        BY <2>1, <2>2, <3>1 DEF Tied, TroubleInv, Undisturbed, TypeOK
      <3>3. pc = "exited" /\ ~history.cut /\ cleaning
        BY <2>2, <3>1 DEF RanToItsEnd, Ended, Tied, TrapsInv, Setup, Work
      <3>4. ~oom
        BY <2>1, <3>1, <3>2, <3>3 DEF Tied, OomInv
      <3>5. history.killer = "itself"
        BY <2>1, <3>1, <3>2, <3>3, <3>4 DEF Tied, KillerInv, OomInv, TypeOK
      <3>6. config.remote => Left \subseteq Files
        BY <2>1, <2>2, <3>1, <3>3, RemoteLeaves DEF Tied, TroubleInv, TypeOK
      <3> QED
        BY <3>4, <3>5, <3>6
    <2> QED
      BY <2>1, <2>2
  <1> QED
    BY AnswersInv, <1>1, PTL

\* A test killed at its deadline is told as a complete timeout, and no test is told as one before
\* a deadline passed.
THEOREM TimeoutsTold == ASpec => []TimeoutsAreTold
  <1>1. AnswersIInv => TimeoutsAreTold
    <2> SUFFICES ASSUME AnswersIInv, Judged, NEW n \in action.names
                 PROVE  /\ RanToItsEnd /\ history.killer = "watchdog" /\ ~oom /\ faults = 0 /\ signals = 0 =>
                              Verdict(n) = [status |-> "Timeout", integrity |-> "Complete"]
                        /\ Verdict(n).status = "Timeout" => history.expired \/ reply = Result("timedout")
      BY DEF TimeoutsAreTold
    <2>1. TypeOK /\ Tied /\ Shaped
      BY DEF AnswersIInv
    <2>2. ASSUME RanToItsEnd, history.killer = "watchdog", ~oom, faults = 0, signals = 0
          PROVE  Verdict(n) = [status |-> "Timeout", integrity |-> "Complete"]
      <3>1. Undisturbed /\ Quiet /\ pc = "exited" /\ cleaning
        BY <2>1, <2>2 DEF RanToItsEnd, Ended, Tied, TrapsInv, TroubleInv, Undisturbed, Setup, Work
      <3>2. Told("timeout") /\ ~Told("oom") /\ reply.kind = "result"
        BY <2>1, <2>2, <3>1 DEF Tied, KillerInv, OomInv, RanToItsEnd
      <3> QED
        BY <3>1, <3>2, VerdictsComeFrom, StandingVerdict DEF Quiet
    <2>3. ASSUME Verdict(n).status = "Timeout"
          PROVE  history.expired \/ reply = Result("timedout")
      <3>1. CASE Told("timeout")
        BY <2>1, <3>1 DEF Tied, DeadlineInv
      <3>2. CASE ~Told("timeout")
        <4>1. /\ reply \in Replies /\ lines \in LinesPrinted /\ reply.kind = "result"
              /\ Stands(Len(printed), outcome, Raw(reply), lines)
          BY <2>3, <3>2, VerdictsComeFrom
        <4>2. Verdict(n) = Observation(n, lines, Raw(reply), FALSE, action.whole,
                                       Cardinality(action.names) = 1)
          BY <2>3, <3>2, <4>1, StandingVerdict
        <4>3. n \notin DOMAIN lines
          BY <2>1, <2>3, <4>1, <4>2, LinesSaid DEF Observation
        <4>4. AbsentNameVerdict(Raw(reply), action.whole, Cardinality(action.names) = 1) = "Timeout"
          BY <2>3, <4>2, <4>3 DEF Observation
        <4> QED
          BY <4>1, <4>4, AbsentNames
      <3> QED
        BY <3>1, <3>2
    <2> QED
      BY <2>2, <2>3
  <1> QED
    BY AnswersInv, <1>1, PTL

\* An infrastructure failure has an infrastructure reason, and a process or cgroup left on a
\* remote worker is never silent, unless a signal cut a cleanup short or met the test's cgroup
\* before it was named.
THEOREM InfraTold == ASpec => []InfraIsTold
  <1>1. AnswersIInv => InfraIsTold
    <2> SUFFICES ASSUME AnswersIInv, Judged, NEW n \in action.names
                 PROVE  /\ Verdict(n).status = "InfraFailure" =>
                              faults > 0 \/ signals > 0 \/ reply.kind = "absent"
                        /\ /\ RanToItsEnd /\ pc = "exited" /\ config.remote /\ ~(Left \subseteq Files)
                           /\ ~history.cut /\ ~history.unnamed
                           =>
                              \/ Verdict(n) = [status |-> "InfraFailure",
                                               integrity |-> "MissingTerminalResult"]
                              \/ ~config.logical /\ Told("timeout") /\ Verdict(n).status = "Timeout"
      BY DEF InfraIsTold
    <2>1. TypeOK /\ Tied /\ Shaped
      BY DEF AnswersIInv
    <2>2. ASSUME Verdict(n).status = "InfraFailure"
          PROVE  faults > 0 \/ signals > 0 \/ reply.kind = "absent"
      <3>1. CASE reply.kind = "result" /\ Told("setup")
        BY <2>1, <3>1 DEF Tied, TroubleInv, Quiet
      <3>2. CASE Stands(Len(printed), outcome, Raw(reply), lines) /\ reply.kind = "result"
        <4>1. reply \in Replies /\ lines \in LinesPrinted
          BY VerdictsComeFrom
        <4>2. Verdict(n) = Observation(n, lines, Raw(reply), FALSE, action.whole,
                                       Cardinality(action.names) = 1)
          BY <2>2, <3>2, StandingVerdict
        <4>3. n \notin DOMAIN lines
          BY <2>1, <2>2, <4>1, <4>2, LinesSaid DEF Observation
        <4>4. AbsentNameVerdict(Raw(reply), action.whole, Cardinality(action.names) = 1) = "InfraFailure"
          BY <2>2, <4>2, <4>3 DEF Observation
        <4> QED
          BY <3>2, <4>1, <4>4, AbsentNames
      <3> QED
        BY <2>2, <3>1, <3>2, VerdictsComeFrom
    <2>3. ASSUME RanToItsEnd, pc = "exited", config.remote, ~(Left \subseteq Files), ~history.cut,
                 ~history.unnamed
          PROVE  \/ Verdict(n) = [status |-> "InfraFailure", integrity |-> "MissingTerminalResult"]
                 \/ ~config.logical /\ Told("timeout") /\ Verdict(n).status = "Timeout"
      <3>1. ~Quiet /\ reply.kind = "result"
        BY <2>1, <2>3, RemoteLeaves DEF RanToItsEnd
      <3> QED
        BY <3>1, VerdictsComeFrom
    <2> QED
      BY <2>2, <2>3
  <1> QED
    BY AnswersInv, <1>1, PTL
===============================================================================
