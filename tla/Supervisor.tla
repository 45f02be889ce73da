------------------------------- MODULE Supervisor ------------------------------
(***************************************************************************)
(* resource_supervisor.sh: the shell that every listing and test action    *)
(* runs under, with the one logical command execution.rs gives it.  The    *)
(* supervisor forks the test and a watchdog, whose timer kills the test    *)
(* at its deadline; on a remote Linux worker the test runs in a cgroup of  *)
(* its own, and the cgroup's kill and OOM counters are used instead of the *)
(* test's pid.  Signals are delivered between two commands of the shell.   *)
(*                                                                         *)
(* A command that fails is taken to fail before it has an effect, and a    *)
(* process that is sent TERM to end, or to be killed, within the second    *)
(* quokka_stop_pid allows.                                                 *)
(* Left out: the controllers a cgroup delegates and the values written to  *)
(* its files (a failure of any of it is a fault), the polls of the wait    *)
(* loops, and pids used again by another process.                          *)
(***************************************************************************)
EXTENDS Naturals, Sequences, FiniteSets

CONSTANTS
    MaxSignals,   \* HUP, INT or TERM sent to the supervisor
    MaxFaults     \* commands of the supervisor or its watchdog that fail

ASSUME LimitsAssumption == MaxSignals \in Nat /\ MaxFaults \in Nat

\* remote: quokka_remote_linux_worker; logical: the granularity is logical-test.
Config == [remote : BOOLEAN, logical : BOOLEAN]

Pids == {"timer", "watchdog", "child"}
Files == {"marker", "handshake"}
Cgroups == {"supervisor", "action", "logical"}

Setup == {"begin", "create", "name", "make_files", "fork_child", "record_child",
          "fork_watchdog", "record_watchdog"}
Work == {"wait_child", "handshake", "stop_timer", "reap_watchdog", "report", "empty", "finish"}
Cleaning == {"clean_timer", "clean_watchdog", "clean_child", "clean_files", "clean_logical",
             "clean_action", "clean_supervisor", "exit"}

VARIABLES
    config,     \* where it runs and the granularity, constant
    pc,         \* the supervisor's next command, "exited" or "killed"
    named,      \* its quokka_ variables that are set: pids, files and cgroups
    traps,      \* its traps that are set, of "EXIT" and "signals"
    cleaning,   \* quokka_cleanup_running
    status,     \* the status it will exit with
    printed,    \* the resource markers on stderr, in order
    child,      \* the test process; joining: forked and not in its cgroup yet
    helper,     \* a process the test started and left is alive
    watchdog,   \* the watchdog subshell's next command
    timer,      \* the watchdog's sleep; ended: a zombie until the watchdog waits for it
    files,      \* the files that exist
    cgroups,    \* the cgroups that exist
    oom,        \* the cgroup's OOM counters have moved
    signals, faults,    \* how many there were
    history     \* expired: the timer ran out; killer: what ended the test; blind: a signal met
                \* a process whose pid was not stored yet; unnamed: one met a cgroup that no
                \* variable names yet; cut: one met a cleanup

shell == <<named, traps, cleaning, status, printed>>
tests == <<child, helper, oom>>
alarm == <<watchdog, timer>>
vars == <<config, pc, shell, tests, alarm, files, cgroups, signals, faults, history>>

Init ==
    /\ config \in Config
    /\ pc = "begin" /\ named = {} /\ traps = {"EXIT", "signals"} /\ cleaning = FALSE
    /\ status = "none" /\ printed = <<>>
    /\ child = "none" /\ helper = FALSE /\ watchdog = "none" /\ timer = "none"
    /\ files = {} /\ cgroups = {} /\ oom = FALSE
    /\ signals = 0 /\ faults = 0
    /\ history = [expired |-> FALSE, killer |-> "none", blind |-> FALSE,
                  unnamed |-> FALSE, cut |-> FALSE]

\* The cgroup the test joins, if any.
TestCgroup == IF ~config.remote THEN {} ELSE IF config.logical THEN {"logical"} ELSE {"action"}

Ended == pc \in {"exited", "killed"}

-------------------------------------------------------------------------------
(* Ways out of the supervisor's commands.                                    *)

Goto(place) == pc' = place /\ UNCHANGED <<traps, cleaning, status, printed>>

\* quokka_fail, and the EXIT trap that its exit runs, which a cleanup does not enter again.
Fail ==
    /\ status' = "setup_failed" /\ printed' = Append(printed, "setup")
    /\ IF "EXIT" \in traps /\ ~cleaning
       THEN pc' = "clean_timer" /\ traps' = traps \ {"EXIT"} /\ cleaning' = TRUE
       ELSE pc' = "exit" /\ UNCHANGED <<traps, cleaning>>

\* The command at hand fails.
Faulty == faults < MaxFaults /\ faults' = faults + 1 /\ Fail /\ UNCHANGED history

Sound == UNCHANGED <<faults, history>>

-------------------------------------------------------------------------------
(* Setting up: quokka_begin_action and the first half of quokka_run_logical. *)

\* quokka_resolve_cgroup_parent, on a remote worker: the supervisor's own cgroup has its name
\* at once.
Begin ==
    /\ pc = "begin"
    /\ \/ ~config.remote /\ Goto("make_files") /\ Sound /\ UNCHANGED <<cgroups, named>>
       \/ config.remote /\ Faulty /\ UNCHANGED <<cgroups, named>>
       \/ /\ config.remote /\ (Faulty \/ (Goto("create") /\ Sound))
          /\ cgroups' = cgroups \cup {"supervisor"} /\ named' = named \cup {"supervisor"}
    /\ UNCHANGED <<tests, alarm, files>>

\* quokka_create_cgroup makes the cgroup of the action or of the logical test.
Create ==
    /\ pc = "create"
    /\ \/ Goto("name") /\ Sound /\ cgroups' = cgroups \cup TestCgroup
       \/ Faulty /\ UNCHANGED cgroups
    /\ UNCHANGED <<named, tests, alarm, files>>

\* Its files are written, then its caller's variable is set to it, then its counters are read.
Name ==
    /\ pc = "name"
    /\ \/ named' = named \cup TestCgroup /\ (Faulty \/ (Goto("make_files") /\ Sound))
       \/ Faulty /\ UNCHANGED named
    /\ UNCHANGED <<tests, alarm, files, cgroups>>

\* The names of both files are reserved with mktemp and the files removed again.
MakeFiles ==
    /\ pc = "make_files"
    /\ \/ Goto("fork_child") /\ Sound /\ named' = named \cup Files
       \/ Faulty /\ UNCHANGED named
       \/ Faulty /\ named' = named \cup {"marker"}
    /\ UNCHANGED <<tests, alarm, files, cgroups>>

\* quokka_run_child, where a test outside a cgroup runs at once, and the watchdog's fork.
Fork ==
    /\ \/ /\ pc = "fork_child" /\ Goto("record_child") /\ UNCHANGED watchdog
          /\ child' = IF TestCgroup = {} THEN "running" ELSE "joining"
       \/ /\ pc = "fork_watchdog" /\ Goto("record_watchdog") /\ UNCHANGED child
          /\ watchdog' = "forked"
    /\ Sound /\ UNCHANGED <<named, helper, oom, timer, files, cgroups>>

\* Storing the pid is a command of its own.
Record ==
    /\ \/ pc = "record_child" /\ Goto("fork_watchdog") /\ named' = named \cup {"child"}
       \/ pc = "record_watchdog" /\ Goto("wait_child") /\ named' = named \cup {"watchdog"}
    /\ Sound /\ UNCHANGED <<tests, alarm, files, cgroups>>

-------------------------------------------------------------------------------
(* The second half of quokka_run_logical, and quokka_finish_action.          *)

\* wait "$child_pid".
WaitChild ==
    /\ pc = "wait_child" /\ child \in {"passed", "failed"}
    /\ pc' = "handshake" /\ status' = child /\ child' = "gone"
    /\ named' = named \ {"child"}
    /\ Sound /\ UNCHANGED <<traps, cleaning, printed, helper, oom, alarm, files, cgroups>>

\* The timer's pid is waited for and read; a watchdog too slow to write it is a fault.
ReadHandshake ==
    /\ pc = "handshake"
    /\ \/ /\ "handshake" \in files /\ Goto("stop_timer") /\ Sound
          /\ named' = (named \cup {"timer"}) \ {"handshake"}
          /\ files' = files \ {"handshake"}
       \/ "handshake" \notin files /\ Faulty /\ UNCHANGED <<named, files>>
    /\ UNCHANGED <<tests, alarm, cgroups>>

\* The timer is stopped unless the marker says that it ran out.
StopTimer ==
    /\ pc = "stop_timer" /\ Goto("reap_watchdog") /\ Sound
    /\ timer' = IF "marker" \notin files /\ timer = "sleeping" THEN "ended" ELSE timer
    /\ UNCHANGED <<watchdog, named, tests, files, cgroups>>

\* The watchdog is waited for.
ReapWatchdog ==
    /\ pc = "reap_watchdog" /\ watchdog = "gone" /\ Goto("report") /\ Sound
    /\ named' = named \ {"watchdog", "timer"}
    /\ UNCHANGED <<tests, alarm, files, cgroups>>

\* The marker file makes the test a timeout, whatever its status.
Report ==
    /\ pc = "report" /\ pc' = "empty" /\ Sound
    /\ IF "marker" \in files
       THEN printed' = Append(printed, "timeout") /\ status' = "timed_out"
       ELSE UNCHANGED <<printed, status>>
    /\ files' = files \ {"marker"} /\ named' = named \ {"marker"}
    /\ UNCHANGED <<traps, cleaning, tests, alarm, cgroups>>

\* What is left of the test's cgroup is killed; the child has been waited for.
KillCgroup == helper' = FALSE /\ child' = IF child = "joining" THEN child ELSE "gone"

\* The action's cgroup is emptied; a logical test's is checked for OOM kills and removed, in
\* one step here: an OOM kill between the two, of what the test left behind, is left out.
Empty ==
    /\ pc = "empty"
    /\ \/ /\ pc' = "finish" /\ Sound /\ UNCHANGED <<traps, cleaning, status, oom>>
          /\ IF config.remote THEN KillCgroup ELSE UNCHANGED <<child, helper>>
          /\ IF config.remote /\ config.logical
             THEN /\ printed' = IF oom THEN Append(printed, "oom") ELSE printed
                  /\ named' = named \ {"logical"} /\ cgroups' = cgroups \ {"logical"}
             ELSE UNCHANGED <<printed, named, cgroups>>
       \/ config.remote /\ Faulty /\ UNCHANGED <<named, cgroups, tests>>
    /\ UNCHANGED <<alarm, files>>

\* quokka_finish_action up to its cleanup.
Finish ==
    /\ pc = "finish"
    /\ \/ /\ pc' = "clean_timer" /\ cleaning' = TRUE /\ Sound /\ UNCHANGED <<traps, status, tests>>
          /\ named' = named \ {"action"} /\ cgroups' = cgroups \ {"action"}
          /\ printed' = IF "action" \in named /\ oom THEN Append(printed, "oom") ELSE printed
       \/ "action" \in named /\ Faulty /\ UNCHANGED <<named, cgroups, tests>>
    /\ UNCHANGED <<alarm, files>>

-------------------------------------------------------------------------------
(* quokka_cleanup.                                                           *)

\* quokka_stop_pid of the timer, found through the handshake if need be.
CleanTimer ==
    /\ pc = "clean_timer" /\ Goto("clean_watchdog") /\ Sound
    /\ timer' = IF timer = "sleeping" /\ ("timer" \in named \/ {"handshake"} \subseteq named \cap files)
                THEN "ended" ELSE timer
    /\ named' = named \ {"timer"}
    /\ UNCHANGED <<watchdog, tests, files, cgroups>>

\* A slip: the watchdog has no trap.
CleanWatchdog_NoTrap ==
    /\ pc = "clean_watchdog" /\ Goto("clean_child") /\ Sound
    /\ watchdog' = IF "watchdog" \in named THEN "gone" ELSE watchdog
    /\ named' = named \ {"watchdog"}
    /\ UNCHANGED <<timer, tests, files, cgroups>>

\* quokka_stop_pid of the watchdog: its trap kills a timer whose pid it has stored.
CleanWatchdog ==
    /\ pc = "clean_watchdog" /\ Goto("clean_child") /\ UNCHANGED faults
    /\ IF "watchdog" \in named
       THEN /\ watchdog' = "gone"
            /\ timer' = IF watchdog \in {"forked", "started"} THEN timer ELSE "gone"
            /\ history' = [history EXCEPT !.blind = @ \/ watchdog = "started"]
       ELSE UNCHANGED <<alarm, history>>
    /\ named' = named \ {"watchdog"}
    /\ UNCHANGED <<tests, files, cgroups>>

CleanChild ==
    /\ pc = "clean_child" /\ Goto("clean_files") /\ Sound
    /\ child' = IF "child" \in named THEN "gone" ELSE child
    /\ named' = named \ {"child"}
    /\ UNCHANGED <<helper, oom, alarm, files, cgroups>>

CleanFiles ==
    /\ pc = "clean_files" /\ Goto("clean_logical") /\ Sound
    /\ files' = files \ named /\ named' = named \ Files
    /\ UNCHANGED <<tests, alarm, cgroups>>

\* quokka_remove_cgroup of cgroup g, if it is named.
Remove(g, next) ==
    \/ /\ Goto(next) /\ Sound /\ UNCHANGED oom
       /\ IF g \in named THEN KillCgroup ELSE UNCHANGED <<child, helper>>
       /\ cgroups' = cgroups \ ({g} \cap named) /\ named' = named \ {g}
    \/ g \in named /\ Faulty /\ UNCHANGED <<cgroups, named, tests>>

\* With granularity action the logical cgroup is the action's: it is removed one step later
\* here, with nothing in between.
CleanCgroups ==
    /\ \/ pc = "clean_logical" /\ Remove("logical", "clean_action")
       \/ pc = "clean_action" /\ Remove("action", "clean_supervisor")
    /\ UNCHANGED <<alarm, files>>

\* The supervisor leaves its cgroup, which rmdir removes only when nobody else is in it.
Empties == child # "joining" /\ watchdog \in {"none", "gone"} /\ timer # "sleeping"

\* A slip: a cgroup that cannot be removed is passed over.
CleanSupervisor_Ignored ==
    /\ pc = "clean_supervisor" /\ Goto("exit") /\ Sound /\ UNCHANGED named
    /\ cgroups' = IF Empties THEN cgroups \ named ELSE cgroups
    /\ UNCHANGED <<tests, alarm, files>>

CleanSupervisor ==
    /\ pc = "clean_supervisor"
    /\ \/ "supervisor" \notin named /\ Goto("exit") /\ Sound /\ UNCHANGED <<cgroups, named>>
       \/ /\ "supervisor" \in named /\ Empties /\ Goto("exit") /\ Sound
          /\ cgroups' = cgroups \ {"supervisor"} /\ named' = named \ {"supervisor"}
       \/ "supervisor" \in named /\ ~Empties /\ Fail /\ Sound /\ UNCHANGED <<cgroups, named>>
       \/ "supervisor" \in named /\ Faulty /\ UNCHANGED <<cgroups, named>>
    /\ UNCHANGED <<tests, alarm, files>>

Exit ==
    /\ pc = "exit" /\ Goto("exited") /\ Sound
    /\ UNCHANGED <<named, tests, alarm, files, cgroups>>

-------------------------------------------------------------------------------
(* Signals: quokka_signal, or the default when no trap is set any more.      *)

\* A process of the supervisor that none of its variables, nor the watchdog's, names yet.
Unrecorded ==
    \/ child \in {"joining", "running", "passed", "failed"} /\ "child" \notin named
    \/ watchdog \notin {"none", "gone"} /\ "watchdog" \notin named
    \/ watchdog = "started"

\* A cgroup that it has made and none of its variables names yet.
Unnamed == ~(cgroups \subseteq named)

Signal ==
    /\ ~Ended /\ signals < MaxSignals /\ signals' = signals + 1
    /\ IF "signals" \notin traps
       THEN pc' = "killed" /\ UNCHANGED <<traps, cleaning, status>>
       ELSE /\ traps' = {} /\ cleaning' = TRUE /\ status' = "signalled"
            /\ pc' = IF cleaning THEN "exit" ELSE "clean_timer"
    /\ history' = [history EXCEPT !.blind = @ \/ Unrecorded, !.unnamed = @ \/ Unnamed,
                                  !.cut = @ \/ cleaning]
    /\ UNCHANGED <<config, named, printed, tests, alarm, files, cgroups, faults>>

-------------------------------------------------------------------------------
(* The watchdog and its timer.                                               *)

WatchdogOnly == UNCHANGED <<config, pc, shell, cgroups, signals>>

\* The trap is set, then the timer is forked, then its pid stored.
WatchdogStarts ==
    /\ \/ watchdog = "forked" /\ watchdog' = "started" /\ timer' = "sleeping"
       \/ watchdog = "started" /\ watchdog' = "stored" /\ UNCHANGED timer
    /\ UNCHANGED <<tests, files, faults, history>> /\ WatchdogOnly

WritesHandshake ==
    /\ watchdog = "stored" /\ watchdog' = "waiting"
    /\ files' = files \cup {"handshake"}
    /\ UNCHANGED <<timer, tests, faults, history>> /\ WatchdogOnly

\* wait "$timer_pid", then kill -0 of the test, which finds a zombie alive.
TimerReaped ==
    /\ watchdog = "waiting" /\ timer = "ended" /\ timer' = "gone"
    /\ watchdog' = IF child \in {"none", "gone"} THEN "gone" ELSE "mark"
    /\ UNCHANGED <<tests, files, faults, history>> /\ WatchdogOnly

Marks ==
    /\ watchdog = "mark" /\ watchdog' = "kill" /\ files' = files \cup {"marker"}
    /\ UNCHANGED <<timer, tests, faults, history>> /\ WatchdogOnly

\* A slip: without a cgroup nothing is killed.
Kills_CgroupOnly ==
    /\ watchdog = "kill" /\ watchdog' = "gone" /\ UNCHANGED faults
    /\ IF config.remote /\ child = "running"
       THEN child' = "failed" /\ history' = [history EXCEPT !.killer = "watchdog"]
       ELSE UNCHANGED <<child, history>>
    /\ UNCHANGED <<helper, timer, oom, files>> /\ WatchdogOnly

\* The test is killed, by its cgroup or by its pid; a failure is told, and ends the watchdog
\* only.
Kills ==
    /\ watchdog = "kill" /\ watchdog' = "gone"
    /\ \/ /\ UNCHANGED <<printed, faults>>
          /\ helper' = (helper /\ ~config.remote)
          /\ IF child = "running"
             THEN child' = "failed" /\ history' = [history EXCEPT !.killer = "watchdog"]
             ELSE UNCHANGED <<child, history>>
       \/ /\ config.remote /\ faults < MaxFaults /\ faults' = faults + 1
          /\ printed' = Append(printed, "setup")
          /\ UNCHANGED <<child, helper, history>>
    /\ UNCHANGED <<timer, oom, files, config, pc, named, traps, cleaning, status, cgroups, signals>>

\* The deadline: the test is assumed to have joined its cgroup by then.
Expires ==
    /\ timer = "sleeping" /\ child # "joining"
    /\ timer' = "ended" /\ history' = [history EXCEPT !.expired = TRUE]
    /\ UNCHANGED <<watchdog, tests, files, faults>> /\ WatchdogOnly

-------------------------------------------------------------------------------
(* The test and its cgroup.                                                  *)

TestOnly == UNCHANGED <<config, pc, named, traps, cleaning, status, alarm, files, cgroups, signals>>

\* It joins its cgroup, or says that it cannot and ends.
Joins ==
    /\ child = "joining"
    /\ \/ child' = "running" /\ UNCHANGED <<printed, faults>>
       \/ /\ child' = "failed" /\ printed' = Append(printed, "setup")
          /\ \/ TestCgroup \subseteq cgroups /\ faults < MaxFaults /\ faults' = faults + 1
             \/ ~(TestCgroup \subseteq cgroups) /\ UNCHANGED faults
    /\ (child' = "running" => TestCgroup \subseteq cgroups)
    /\ UNCHANGED <<helper, oom, history>> /\ TestOnly

\* It ends by itself, and may leave a process behind.
TestEnds ==
    /\ child = "running" /\ child' \in {"passed", "failed"} /\ helper' \in BOOLEAN
    /\ history' = [history EXCEPT !.killer = "itself"]
    /\ UNCHANGED <<oom, printed, faults>> /\ TestOnly

\* memory.oom.group: an OOM kill takes the whole cgroup.
OomKill ==
    /\ TestCgroup # {} /\ (child = "running" \/ helper)
    /\ oom' = TRUE /\ helper' = FALSE
    /\ IF child = "running"
       THEN child' = "failed" /\ history' = [history EXCEPT !.killer = "oom"]
       ELSE UNCHANGED <<child, history>>
    /\ UNCHANGED <<printed, faults>> /\ TestOnly

-------------------------------------------------------------------------------
SupervisorStep ==
    /\ \/ Begin \/ Create \/ Name \/ MakeFiles \/ Fork \/ Record \/ WaitChild \/ ReadHandshake \/ StopTimer
       \/ ReapWatchdog \/ Report \/ Empty \/ Finish \/ CleanTimer \/ CleanWatchdog
       \/ CleanChild \/ CleanFiles \/ CleanCgroups \/ CleanSupervisor \/ Exit
    /\ UNCHANGED <<config, signals>>

WatchdogStep == WatchdogStarts \/ WritesHandshake \/ TimerReaped \/ Marks \/ Kills

Next == SupervisorStep \/ WatchdogStep \/ Expires \/ Joins \/ TestEnds \/ OomKill \/ Signal

Spec == Init /\ [][Next]_vars

-------------------------------------------------------------------------------
(* Properties.                                                               *)

TypeOK ==
    /\ config \in Config
    /\ pc \in Setup \cup Work \cup Cleaning \cup {"exited", "killed"}
    /\ named \subseteq Pids \cup Files \cup Cgroups /\ traps \subseteq {"EXIT", "signals"}
    /\ cleaning \in BOOLEAN
    /\ status \in {"none", "passed", "failed", "timed_out", "signalled", "setup_failed"}
    /\ printed \in Seq({"timeout", "oom", "setup"})
    /\ child \in {"none", "joining", "running", "passed", "failed", "gone"}
    /\ helper \in BOOLEAN /\ oom \in BOOLEAN
    /\ watchdog \in {"none", "forked", "started", "stored", "waiting", "mark", "kill", "gone"}
    /\ timer \in {"none", "sleeping", "ended", "gone"}
    /\ files \subseteq Files /\ cgroups \subseteq Cgroups
    /\ signals \in 0..MaxSignals /\ faults \in 0..MaxFaults
    /\ history \in [expired : BOOLEAN, killer : {"none", "watchdog", "itself", "oom"}, blind : BOOLEAN,
                    unnamed : BOOLEAN, cut : BOOLEAN]

\* A marker is on stderr.
Told(marker) == \E i \in DOMAIN printed : printed[i] = marker

\* What the supervisor made and that would outlive it.
Left ==
    cgroups \cup files
    \cup (IF child \in {"joining", "running"} THEN {"child"} ELSE {})
    \cup (IF watchdog \in {"none", "gone"} THEN {} ELSE {"watchdog"})
    \cup (IF timer = "sleeping" THEN {"timer"} ELSE {})
    \cup (IF helper /\ config.remote THEN {"helper"} ELSE {})

\* The supervisor is gone and so is all it made: processes, timer, files, cgroups and, on a
\* remote worker, what the test left running.  It holds after a signal at any command but
\* those between a fork and its record, between the making of a cgroup and its naming, and
\* during a cleanup.
NothingLeft ==
    Ended /\ faults = 0 /\ ~history.blind /\ ~history.unnamed /\ ~history.cut => Left = {}
===============================================================================
