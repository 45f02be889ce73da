---------------------------- MODULE DurationDbProofs ----------------------------
(***************************************************************************)
(* One flush at a time, and no saved batch lost, for any number of         *)
(* processes and sections.  The argument: while the lock was respected,    *)
(* whoever is inside holds it, so nobody else touches the files; a section *)
(* that could be read is, at every step of a compaction, in the base file, *)
(* in the log, or in both and in the state the compacting process loaded.  *)
(* Nor is a batch counted twice but for a compaction that was cut off: a   *)
(* log has it once, nothing has it before its process appended it, and     *)
(* what a compacting process loaded is no more than the disk holds.        *)
(***************************************************************************)
EXTENDS DurationDb, FiniteSetTheorems, TLAPS

\* TypeOK in parts.
ControlOK ==
    /\ pc \in [Procs -> Inside \cup {"idle", "locking", "breaking", "done", "dead"}]
    /\ at \in [Procs -> 1 .. Len(Sections)]
LockOK == lock \in Procs \cup {None} /\ held \in [Procs -> BOOLEAN] /\ lapsed \in BOOLEAN
LogOK == log \in [Section -> Seq(Procs \cup {Torn})]
BinOK == bin \in [Section -> [Procs -> Nat]]
SnapOK == snap \in [Procs -> [Section -> [Procs -> Nat]]]
ReportOK == unsaved \in [Procs -> SUBSET Section] /\ errors \in [Procs -> SUBSET Section]
HistoryOK == replays \in [Section -> Nat] /\ damaged \subseteq Section
Typed == ControlOK /\ LockOK /\ LogOK /\ BinOK /\ SnapOK /\ ReportOK /\ HistoryOK

\* Whoever is inside holds the lock.
Locked == ~lapsed => \A p \in Procs : pc[p] \in Inside => lock = p /\ held[p]

\* The loops over the sections begin at the first.
AtStart == \A p \in Procs : pc[p] \in {"idle", "locking", "breaking", "measuring"} => at[p] = 1

\* Once past a section, its records are on disk or there is an error.
Past(p, i) ==
    \/ pc[p] = "appending" /\ i < at[p]
    \/ pc[p] \in (Inside \ {"appending"}) \cup {"done"}

Reported ==
    /\ \A p \in Procs : unsaved[p] \subseteq Fresh[p]
    /\ \A p \in Procs, i \in 1..Len(Sections) :
         Past(p, i) /\ Sections[i] \in unsaved[p] => Sections[i] \in errors[p]

\* A torn record leaves its section damaged.
Whole == \A s \in Section \ damaged : \A i \in 1..Len(log[s]) : log[s][i] # Torn

\* The batch of q is on disk.
InLog(s, q) == \E i \in 1..Len(log[s]) : log[s][i] = q
Kept(s, q) == bin[s][q] >= 1 \/ InLog(s, q)

Safe ==
    \A s \in Section \ damaged, q \in Procs :
        ~lapsed /\ s \in Fresh[q] /\ s \notin unsaved[q] => Kept(s, q)

\* What a process that compacts has loaded of section i covers what the disk holds; while
\* it is about to truncate the log, the base file does.
Covers(p, i) ==
    LET s == Sections[i] IN
    \A q \in Procs :
        /\ pc[p] \in {"loadBin", "loadLog"} /\ i < at[p] /\ Kept(s, q) => snap[p][s][q] >= 1
        /\ pc[p] = "loadLog" /\ i = at[p] /\ bin[s][q] >= 1 => snap[p][s][q] >= 1
        /\ pc[p] = "installing" /\ i >= at[p] /\ Kept(s, q) => snap[p][s][q] >= 1
        /\ pc[p] = "truncating" /\ i > at[p] /\ Kept(s, q) => snap[p][s][q] >= 1
        /\ pc[p] = "truncating" /\ i = at[p] /\ Kept(s, q) => bin[s][q] >= 1

Covered ==
    ~lapsed =>
        \A p \in Procs, i \in 1..Len(Sections) : Sections[i] \notin damaged => Covers(p, i)

Inv == Typed /\ Locked /\ AtStart /\ Reported /\ Whole /\ Safe /\ Covered

-------------------------------------------------------------------------------
USE DEF Inside

LEMMA SectionFacts ==
    /\ Len(Sections) \in Nat \ {0} /\ DOMAIN Sections = 1..Len(Sections)
    /\ \A i \in 1..Len(Sections) : Sections[i] \in Section
    /\ \A s \in Section : \E i \in 1..Len(Sections) : s = Sections[i]
    /\ \A i, j \in 1..Len(Sections) : Sections[i] = Sections[j] => i = j
<1>1. Len(Sections) \in Nat /\ Len(Sections) # 0 /\ DOMAIN Sections = 1..Len(Sections)
  BY ConstantsAssumption
<1> QED BY <1>1, ConstantsAssumption DEF Section

\* What the log counts of a batch.
LEMMA LoggedFacts ==
    ASSUME LogOK, NEW s \in Section, NEW q \in Procs
    PROVE  /\ Logged(s, q) \in Nat
           /\ (\A i \in 1..Len(log[s]) : log[s][i] # Torn) => (Logged(s, q) >= 1 <=> InLog(s, q))
<1> DEFINE Places == {i \in DOMAIN log[s] : log[s][i] = q /\ \A j \in 1 .. i : log[s][j] # Torn}
<1>1. Len(log[s]) \in Nat /\ DOMAIN log[s] = 1..Len(log[s])
  BY DEF LogOK
<1>2. Places \subseteq 1..Len(log[s])
  BY <1>1
<1>3. IsFiniteSet(Places) /\ Cardinality(Places) \in Nat
  <2>0. 1 \in Int /\ Len(log[s]) \in Int
    BY <1>1
  <2>1. IsFiniteSet(1..Len(log[s]))
    BY <2>0, FS_Interval
  <2> QED BY <1>2, <2>1, FS_Subset, FS_CardinalityType
<1>4. Cardinality(Places) = 0 <=> Places = {}
  BY <1>3, FS_EmptySet
<1>5. ASSUME \A i \in 1..Len(log[s]) : log[s][i] # Torn
      PROVE  Places # {} <=> InLog(s, q)
  <2>1. \A i \in 1..Len(log[s]) : \A j \in 1..i : log[s][j] # Torn
    BY <1>1, <1>5
  <2> QED BY <1>1, <2>1 DEF InLog
<1>6. Logged(s, q) = Cardinality(Places)
  BY DEF Logged
<1> HIDE DEF Places
<1> QED BY <1>3, <1>4, <1>5, <1>6

LEMMA MergeFacts ==
    ASSUME NEW s, NEW m \in Nat, NEW n \in Nat
    PROVE  Merge(s, m, n) \in Nat /\ (Merge(s, m, n) >= 1 <=> m >= 1 \/ n >= 1)
BY DEF Merge

\* Where the loop over the sections goes on.
LEMMA AdvanceFacts ==
    ASSUME ControlOK, NEW p \in Procs, NEW first, NEW after, Advance(p, first, after)
    PROVE  /\ at' \in [Procs -> 1..Len(Sections)]
           /\ \A q \in Procs : q # p => pc'[q] = pc[q] /\ at'[q] = at[q]
           /\ \/ pc'[p] = first /\ at'[p] = at[p] + 1 /\ pc' = [pc EXCEPT ![p] = first]
              \/ pc'[p] = after /\ at'[p] = 1 /\ at[p] = Len(Sections) /\ pc' = [pc EXCEPT ![p] = after]
<1>1. /\ at \in [Procs -> 1..Len(Sections)] /\ Len(Sections) \in Nat /\ 1 <= Len(Sections)
      /\ DOMAIN pc = Procs
  BY SectionFacts DEF ControlOK
<1>2. CASE at[p] < Len(Sections)
  <2>1. pc' = [pc EXCEPT ![p] = first] /\ at' = [at EXCEPT ![p] = @ + 1]
    BY <1>2 DEF Advance
  <2> QED BY <1>1, <1>2, <2>1
<1>3. CASE ~ (at[p] < Len(Sections))
  <2>1. pc' = [pc EXCEPT ![p] = after] /\ at' = [at EXCEPT ![p] = 1]
    BY <1>3 DEF Advance
  <2>2. at[p] = Len(Sections)
    BY <1>1, <1>3
  <2> QED BY <1>1, <2>1, <2>2
<1> QED BY <1>2, <1>3

\* One entry of each of the files, and of what a process loaded, is set.
LEMMA LogUpdate ==
    ASSUME LogOK, NEW s \in Section, NEW f \in Seq(Procs \cup {Torn}), log' = [log EXCEPT ![s] = f]
    PROVE  LogOK' /\ log'[s] = f /\ \A z \in Section : z # s => log'[z] = log[z]
BY DEF LogOK

LEMMA BinUpdate ==
    ASSUME BinOK, NEW s \in Section, NEW f \in [Procs -> Nat], bin' = [bin EXCEPT ![s] = f]
    PROVE  BinOK' /\ bin'[s] = f /\ \A z \in Section : z # s => bin'[z] = bin[z]
BY DEF BinOK

LEMMA SnapUpdate ==
    ASSUME SnapOK, NEW p \in Procs, NEW s \in Section, NEW f \in [Procs -> Nat],
           snap' = [snap EXCEPT ![p][s] = f]
    PROVE  /\ SnapOK' /\ snap'[p][s] = f
           /\ \A q \in Procs, z \in Section : q # p \/ z # s => snap'[q][z] = snap[q][z]
<1>1. snap' = [snap EXCEPT ![p] = [snap[p] EXCEPT ![s] = f]]
  OBVIOUS
<1>2. [snap[p] EXCEPT ![s] = f] \in [Section -> [Procs -> Nat]]
  BY DEF SnapOK
<1> QED BY <1>1, <1>2 DEF SnapOK

\* What is appended is in the log, and what was there stays.
LEMMA AppendedFacts ==
    ASSUME NEW f \in Seq(Procs \cup {Torn}), NEW x \in Procs \cup {Torn}
    PROVE  /\ Append(f, x) \in Seq(Procs \cup {Torn}) /\ Len(Append(f, x)) = Len(f) + 1
           /\ Len(f) \in Nat /\ Append(f, x)[Len(f) + 1] = x
           /\ \A i \in 1..Len(f) : Append(f, x)[i] = f[i]
OBVIOUS

-------------------------------------------------------------------------------
(* Types.                                                                    *)

LEMMA InitType == Init => Typed
<1> SUFFICES ASSUME Init PROVE Typed
  OBVIOUS
<1>1. ControlOK
  BY SectionFacts DEF Init, ControlOK
<1>2. LockOK /\ LogOK /\ HistoryOK
  <2>1. <<>> \in Seq(Procs \cup {Torn})
    OBVIOUS
  <2> QED BY <2>1 DEF Init, LockOK, LogOK, HistoryOK
<1>3. BinOK /\ SnapOK
  BY DEF Init, Nothing, BinOK, SnapOK
<1>4. ReportOK
  BY ConstantsAssumption DEF Init, ReportOK
<1> QED BY <1>1, <1>2, <1>3, <1>4 DEF Typed

LEMMA TypeStep == Typed /\ [Next]_vars => Typed'
<1> SUFFICES ASSUME Typed, [Next]_vars PROVE Typed'
  OBVIOUS
<1> USE DEF disk, history
<1>0. ASSUME NEW p \in Procs PROVE Here(p) \in Section
  BY SectionFacts DEF Here, Typed, ControlOK
<1>t. ControlOK /\ LockOK /\ LogOK /\ BinOK /\ SnapOK /\ ReportOK /\ HistoryOK
  BY DEF Typed
<1>n. Nothing \in [Section -> [Procs -> Nat]]
  BY DEF Nothing
<1>1. ASSUME NEW p \in Procs, Begin(p) PROVE Typed'
  <2>1. LockOK' /\ LogOK' /\ BinOK' /\ SnapOK' /\ HistoryOK'
    BY <1>t, <1>1 DEF Begin, LockOK, LogOK, BinOK, SnapOK, HistoryOK
  <2>2. ControlOK'
    BY <1>0, <1>t, <1>1 DEF Begin, ControlOK
  <2>3. ReportOK'
    BY <1>0, <1>t, <1>1 DEF Begin, ReportOK
  <2> QED BY <2>1, <2>2, <2>3 DEF Typed
<1>2. ASSUME NEW p \in Procs, TakeLock(p) PROVE Typed'
  <2>1. LogOK' /\ BinOK' /\ SnapOK' /\ ReportOK' /\ HistoryOK'
    BY <1>t, <1>2 DEF TakeLock, LogOK, BinOK, SnapOK, ReportOK, HistoryOK
  <2>2. ControlOK'
    BY <1>0, <1>t, <1>2 DEF TakeLock, ControlOK
  <2>3. LockOK'
    BY <1>0, <1>t, <1>2 DEF TakeLock, LockOK
  <2> QED BY <2>1, <2>2, <2>3 DEF Typed
<1>3. ASSUME NEW p \in Procs, GoWithout(p) PROVE Typed'
  <2>1. LogOK' /\ BinOK' /\ SnapOK' /\ ReportOK' /\ HistoryOK'
    BY <1>t, <1>3 DEF GoWithout, LogOK, BinOK, SnapOK, ReportOK, HistoryOK
  <2>2. ControlOK'
    BY <1>0, <1>t, <1>3 DEF GoWithout, ControlOK
  <2>3. LockOK'
    BY <1>0, <1>t, <1>3 DEF GoWithout, LockOK
  <2> QED BY <2>1, <2>2, <2>3 DEF Typed
<1>4. ASSUME NEW p \in Procs, SeeStale(p) PROVE Typed'
  <2>1. LockOK' /\ LogOK' /\ BinOK' /\ SnapOK' /\ ReportOK' /\ HistoryOK'
    BY <1>t, <1>4 DEF SeeStale, LockOK, LogOK, BinOK, SnapOK, ReportOK, HistoryOK
  <2>2. ControlOK'
    BY <1>0, <1>t, <1>4 DEF SeeStale, ControlOK
  <2> QED BY <2>1, <2>2 DEF Typed
<1>5. ASSUME NEW p \in Procs, BreakLock(p) PROVE Typed'
  <2>1. LogOK' /\ BinOK' /\ SnapOK' /\ ReportOK' /\ HistoryOK'
    BY <1>t, <1>5 DEF BreakLock, LogOK, BinOK, SnapOK, ReportOK, HistoryOK
  <2>2. ControlOK'
    BY <1>0, <1>t, <1>5 DEF BreakLock, ControlOK
  <2>3. LockOK'
    BY <1>0, <1>t, <1>5 DEF BreakLock, LockOK
  <2> QED BY <2>1, <2>2, <2>3 DEF Typed
<1>6. ASSUME NEW p \in Procs, Unlock(p) PROVE Typed'
  <2>1. LogOK' /\ BinOK' /\ ReportOK' /\ HistoryOK'
    BY <1>t, <1>6 DEF Unlock, LogOK, BinOK, ReportOK, HistoryOK
  <2>2. ControlOK'
    BY <1>0, <1>t, <1>6 DEF Unlock, ControlOK
  <2>3. LockOK'
    BY <1>0, <1>t, <1>6 DEF Unlock, LockOK
  <2>4. SnapOK'
    BY <1>0, <1>n, <1>t, <1>6 DEF Unlock, SnapOK, BinOK
  <2> QED BY <2>1, <2>2, <2>3, <2>4 DEF Typed
<1>7. ASSUME NEW p \in Procs, AppendSection(p) PROVE Typed'
  <2>1. LockOK' /\ BinOK' /\ SnapOK'
    BY <1>t, <1>7 DEF AppendSection, LockOK, BinOK, SnapOK
  <2>2. ControlOK'
    BY <1>t, <1>7, AdvanceFacts DEF AppendSection, ControlOK
  <2>3. LogOK'
    <3>1. \/ log' = log
          \/ \E x \in Procs \cup {Torn} : log' = [log EXCEPT ![Here(p)] = Append(log[Here(p)], x)]
      BY <1>7 DEF AppendSection, Append_
    <3>2. CASE log' = log
      BY <1>t, <3>2 DEF LogOK
    <3>3. ASSUME NEW x \in Procs \cup {Torn}, log' = [log EXCEPT ![Here(p)] = Append(log[Here(p)], x)]
          PROVE  LogOK'
      <4>1. Append(log[Here(p)], x) \in Seq(Procs \cup {Torn})
        BY <1>0, <1>t, AppendedFacts DEF LogOK
      <4> QED BY <1>0, <1>t, <3>3, <4>1, LogUpdate
    <3> QED BY <3>1, <3>2, <3>3
  <2>4. ReportOK'
    BY <1>0, <1>t, <1>7 DEF AppendSection, ReportOK, Append_
  <2>5. HistoryOK'
    BY <1>0, <1>t, <1>7 DEF AppendSection, HistoryOK, Append_
  <2> QED BY <2>1, <2>2, <2>3, <2>4, <2>5 DEF Typed
<1>8. ASSUME NEW p \in Procs, Measure(p) PROVE Typed'
  <2>1. LockOK' /\ LogOK' /\ BinOK' /\ SnapOK' /\ ReportOK' /\ HistoryOK'
    BY <1>t, <1>8 DEF Measure, LockOK, LogOK, BinOK, SnapOK, ReportOK, HistoryOK
  <2>2. ControlOK'
    BY <1>0, <1>t, <1>8 DEF Measure, ControlOK
  <2> QED BY <2>1, <2>2 DEF Typed
<1>9. ASSUME NEW p \in Procs, LoadBin(p) PROVE Typed'
  <2>1. LockOK' /\ LogOK' /\ BinOK' /\ ReportOK'
    BY <1>t, <1>9 DEF LoadBin, LockOK, LogOK, BinOK, ReportOK
  <2>2. ControlOK'
    BY <1>0, <1>t, <1>9 DEF LoadBin, ControlOK
  <2>3. SnapOK'
    <3>1. bin[Here(p)] \in [Procs -> Nat]
      BY <1>0, <1>t DEF BinOK
    <3>2. SnapOK /\ Here(p) \in Section
      BY <1>0, <1>t
    <3>3. snap' = snap \/ snap' = [snap EXCEPT ![p][Here(p)] = bin[Here(p)]]
      BY <1>9 DEF LoadBin
    <3>4. CASE snap' = snap
      BY <3>2, <3>4 DEF SnapOK
    <3> QED BY <3>1, <3>2, <3>3, <3>4, SnapUpdate
  <2>4. HistoryOK'
    BY <1>0, <1>t, <1>9 DEF LoadBin, HistoryOK
  <2> QED BY <2>1, <2>2, <2>3, <2>4 DEF Typed
<1>10. ASSUME NEW p \in Procs, LoadLog(p) PROVE Typed'
  <2>1. LockOK' /\ LogOK' /\ BinOK' /\ ReportOK'
    BY <1>t, <1>10 DEF LoadLog, LockOK, LogOK, BinOK, ReportOK
  <2>2. ControlOK'
    BY <1>t, <1>10, AdvanceFacts, SMTT(30) DEF LoadLog, ControlOK
  <2>3. SnapOK'
    <3>1. \A q \in Procs : Merge(Here(p), snap[p][Here(p)][q], Logged(Here(p), q)) \in Nat
      BY <1>0, <1>t, LoggedFacts, MergeFacts DEF SnapOK
    <3> DEFINE f == [q \in Procs |-> Merge(Here(p), snap[p][Here(p)][q], Logged(Here(p), q))]
    <3>2. SnapOK /\ Here(p) \in Section /\ f \in [Procs -> Nat]
      BY <1>0, <1>t, <3>1
    <3>3. snap' = snap \/ snap' = [snap EXCEPT ![p][Here(p)] = f]
      BY <1>0, <1>10, <1>t DEF LoadLog, SnapOK
    <3>4. CASE snap' = snap
      BY <3>2, <3>4 DEF SnapOK
    <3> HIDE DEF f
    <3> QED BY <3>2, <3>3, <3>4, SnapUpdate
  <2>4. HistoryOK'
    BY <1>0, <1>t, <1>10 DEF LoadLog, HistoryOK
  <2> QED BY <2>1, <2>2, <2>3, <2>4 DEF Typed
<1>11. ASSUME NEW p \in Procs, Install(p) PROVE Typed'
  <2>1. LockOK' /\ LogOK' /\ SnapOK' /\ HistoryOK'
    BY <1>t, <1>11 DEF Install, LockOK, LogOK, SnapOK, HistoryOK
  <2>2. ControlOK'
    <3>1. CASE pc' = [pc EXCEPT ![p] = "truncating"] /\ at' = at
      BY <1>t, <3>1 DEF ControlOK
    <3>2. CASE Advance(p, "installing", "unlocking")
      BY <1>t, <3>2, AdvanceFacts DEF ControlOK
    <3> QED BY <1>11, <3>1, <3>2 DEF Install
  <2>3. BinOK'
    <3>1. snap[p][Here(p)] \in [Procs -> Nat]
      BY <1>0, <1>t DEF SnapOK
    <3>2. bin' = bin \/ bin' = [bin EXCEPT ![Here(p)] = snap[p][Here(p)]]
      BY <1>11 DEF Install
    <3>3. CASE bin' = bin
      BY <1>t, <3>3 DEF BinOK
    <3> QED BY <1>0, <1>t, <3>1, <3>2, <3>3, BinUpdate
  <2>4. ReportOK'
    BY <1>0, <1>t, <1>11 DEF Install, ReportOK
  <2> QED BY <2>1, <2>2, <2>3, <2>4 DEF Typed
<1>12. ASSUME NEW p \in Procs, Truncate(p) PROVE Typed'
  <2>1. LockOK' /\ BinOK' /\ SnapOK'
    BY <1>t, <1>12 DEF Truncate, LockOK, BinOK, SnapOK
  <2>2. ControlOK'
    BY <1>t, <1>12, AdvanceFacts DEF Truncate, ControlOK
  <2>3. LogOK'
    <3>1. <<>> \in Seq(Procs \cup {Torn})
      OBVIOUS
    <3>2. log' = log \/ log' = [log EXCEPT ![Here(p)] = <<>>]
      BY <1>12 DEF Truncate
    <3>3. CASE log' = log
      BY <1>t, <3>3 DEF LogOK
    <3> QED BY <1>0, <1>t, <3>1, <3>2, <3>3, LogUpdate
  <2>4. ReportOK'
    BY <1>0, <1>t, <1>12 DEF Truncate, ReportOK
  <2>5. HistoryOK'
    BY <1>0, <1>t, <1>12 DEF Truncate, HistoryOK
  <2> QED BY <2>1, <2>2, <2>3, <2>4, <2>5 DEF Typed
<1>13. ASSUME NEW p \in Procs, Crash(p) PROVE Typed'
  <2>1. LogOK' /\ BinOK'
    BY <1>t, <1>13 DEF Crash, LogOK, BinOK
  <2>2. ControlOK'
    BY <1>t, <1>13, SectionFacts DEF Crash, ControlOK
  <2>3. LockOK'
    BY <1>0, <1>t, <1>13 DEF Crash, LockOK
  <2>4. SnapOK'
    BY <1>0, <1>n, <1>t, <1>13 DEF Crash, SnapOK, BinOK
  <2>5. ReportOK'
    BY <1>0, <1>t, <1>13 DEF Crash, ReportOK
  <2>6. HistoryOK'
    BY <1>0, <1>t, <1>13 DEF Crash, HistoryOK
  <2> QED BY <2>1, <2>2, <2>3, <2>4, <2>5, <2>6 DEF Typed
<1>14. CASE UNCHANGED vars
  BY <1>14 DEF vars, Typed, ControlOK, LockOK, LogOK, BinOK, SnapOK, ReportOK, HistoryOK
<1> QED
  BY <1>1, <1>2, <1>3, <1>4, <1>5, <1>6, <1>7, <1>8, <1>9, <1>10, <1>11, <1>12, <1>13, <1>14
  DEF Next, Step, Over

-------------------------------------------------------------------------------
(* The lock.                                                                 *)

\* An action of p touches where p stands alone.
LEMMA OthersStand ==
    ASSUME Typed, NEW p \in Procs, Step(p) \/ Crash(p)
    PROVE  \A q \in Procs : q # p => pc'[q] = pc[q] /\ at'[q] = at[q]
<1> USE DEF Typed, ControlOK
<1>1. CASE Begin(p) \/ TakeLock(p) \/ GoWithout(p) \/ SeeStale(p) \/ BreakLock(p) \/ Unlock(p)
  BY <1>1 DEF Begin, TakeLock, GoWithout, SeeStale, BreakLock, Unlock
<1>2. CASE Measure(p) \/ LoadBin(p) \/ Crash(p)
  BY <1>2 DEF Measure, LoadBin, Crash
<1>3. CASE AppendSection(p) \/ LoadLog(p) \/ Truncate(p)
  BY <1>3, AdvanceFacts DEF AppendSection, LoadLog, Truncate
<1>4. CASE Install(p)
  BY <1>4, AdvanceFacts DEF Install
<1> QED BY <1>1, <1>2, <1>3, <1>4 DEF Step

\* While the lock was respected, whoever is inside is alone there.
LEMMA Alone ==
    ASSUME Locked, ~lapsed, NEW p \in Procs, pc[p] \in Inside
    PROVE  \A q \in Procs : q # p => pc[q] \notin Inside
BY DEF Locked

\* Inside, the lock is let alone until p leaves.
LEMMA InsideKeepsLock ==
    ASSUME Typed, Locked, NEW p \in Procs, pc[p] \in Inside, Step(p),
           pc[p] # "unlocking"
    PROVE  Locked' /\ lock' = lock /\ held' = held /\ (~lapsed' => ~lapsed)
<1>1. lock' = lock /\ held' = held /\ lapsed' = lapsed
  <2>1. CASE AppendSection(p) \/ LoadLog(p) \/ Truncate(p) \/ Install(p)
    BY <2>1 DEF AppendSection, LoadLog, Truncate, Install, history
  <2>2. CASE Measure(p) \/ LoadBin(p)
    BY <2>2 DEF Measure, LoadBin, history
  <2> QED
    BY <2>1, <2>2 DEF Step, Begin, TakeLock, GoWithout, SeeStale, BreakLock, Unlock
<1>2. Locked'
  BY <1>1, OthersStand DEF Locked
<1> QED BY <1>1, <1>2

LEMMA LockStep == Typed /\ Locked /\ [Next]_vars => Locked'
<1> SUFFICES ASSUME Typed, Locked, [Next]_vars PROVE Locked'
  OBVIOUS
<1> USE DEF Typed, ControlOK, LockOK, Locked, history
<1>1. ASSUME NEW p \in Procs, Begin(p) \/ SeeStale(p) PROVE Locked'
  BY <1>1 DEF Begin, SeeStale
<1>2. ASSUME NEW p \in Procs, TakeLock(p) PROVE Locked'
  <2>1. ~lapsed => \A q \in Procs : pc[q] \notin Inside
    BY <1>2, ConstantsAssumption DEF TakeLock
  <2> QED BY <1>2, <2>1 DEF TakeLock
<1>3. ASSUME NEW p \in Procs, GoWithout(p) PROVE Locked'
  BY <1>3 DEF GoWithout
<1>4. ASSUME NEW p \in Procs, BreakLock(p) PROVE Locked'
  <2>1. ~lapsed' => ~lapsed /\ \A q \in Procs : pc[q] \notin Inside
    BY <1>4, ConstantsAssumption DEF BreakLock, Alive
  <2> QED BY <1>4, <2>1 DEF BreakLock
<1>5. ASSUME NEW p \in Procs, Unlock(p) PROVE Locked'
  <2>1. ~lapsed => \A q \in Procs : q # p => pc[q] \notin Inside
    BY <1>5, Alone DEF Unlock
  <2> QED BY <1>5, <2>1 DEF Unlock
<1>6. ASSUME NEW p \in Procs, Crash(p) PROVE Locked'
  BY <1>6 DEF Crash
<1>7. CASE UNCHANGED vars
  BY <1>7 DEF vars
<1>8. ASSUME NEW p \in Procs, AppendSection(p) \/ Measure(p) \/ LoadBin(p) \/ LoadLog(p) \/ Install(p) \/ Truncate(p)
      PROVE  Locked'
  <2>1. pc[p] \in Inside /\ pc[p] # "unlocking" /\ Step(p)
    BY <1>8 DEF Step, AppendSection, Measure, LoadBin, LoadLog, Install, Truncate
  <2> QED BY <2>1, InsideKeepsLock
<1> QED BY <1>1, <1>2, <1>3, <1>4, <1>5, <1>6, <1>7, <1>8 DEF Next, Step, Over

LEMMA StartStep == Typed /\ AtStart /\ [Next]_vars => AtStart'
<1> SUFFICES ASSUME Typed, AtStart, [Next]_vars PROVE AtStart'
  OBVIOUS
<1> USE DEF Typed, ControlOK, AtStart
<1>1. ASSUME NEW p \in Procs, Begin(p) \/ TakeLock(p) \/ GoWithout(p) \/ SeeStale(p) \/ BreakLock(p) \/ Unlock(p)
      PROVE  AtStart'
  BY <1>1 DEF Begin, TakeLock, GoWithout, SeeStale, BreakLock, Unlock
<1>2. ASSUME NEW p \in Procs, Measure(p) \/ LoadBin(p) \/ Crash(p) PROVE AtStart'
  BY <1>2 DEF Measure, LoadBin, Crash
<1>3. ASSUME NEW p \in Procs, AppendSection(p) \/ LoadLog(p) \/ Truncate(p) PROVE AtStart'
  BY <1>3, AdvanceFacts DEF AppendSection, LoadLog, Truncate
<1>4. ASSUME NEW p \in Procs, Install(p) PROVE AtStart'
  BY <1>4, AdvanceFacts DEF Install
<1>5. CASE UNCHANGED vars
  BY <1>5 DEF vars
<1> QED BY <1>1, <1>2, <1>3, <1>4, <1>5 DEF Next, Step, Over

-------------------------------------------------------------------------------
(* Errors, and torn logs.                                                    *)

\* The step has not brought p past a section, and what it reports only grows.
LEMMA NothingNewPast ==
    ASSUME Reported, NEW p \in Procs,
           \A i \in 1..Len(Sections) : Past(p, i)' => Past(p, i),
           unsaved' = unsaved,
           \A i \in 1..Len(Sections), q \in Procs : q # p => (Past(q, i)' <=> Past(q, i)),
           \A q \in Procs : q # p => errors'[q] = errors[q],
           (\E i \in 1..Len(Sections) : Past(p, i)') => errors[p] \subseteq errors'[p]
    PROVE  Reported'
BY DEF Reported

LEMMA ReportStep == Typed /\ AtStart /\ Reported /\ [Next]_vars => Reported'
<1> SUFFICES ASSUME Typed, AtStart, Reported, [Next]_vars PROVE Reported'
  OBVIOUS
<1> USE DEF Typed, ControlOK, ReportOK
<1>0. ASSUME NEW p \in Procs, Step(p) \/ Crash(p)
      PROVE  \A i \in 1..Len(Sections), q \in Procs : q # p => (Past(q, i)' <=> Past(q, i))
  BY <1>0, OthersStand DEF Past
<1>1. ASSUME NEW p \in Procs, Begin(p) PROVE Reported'
  <2>1. /\ unsaved' = unsaved /\ pc'[p] \in {"locking", "done"}
        /\ pc'[p] = "done" => errors'[p] = Section
        /\ \A q \in Procs : q # p => errors'[q] = errors[q]
    BY <1>1 DEF Begin
  <2>2. \A i \in 1..Len(Sections) : Past(p, i)' => errors'[p] = Section
    BY <2>1 DEF Past
  <2>3. Step(p)
    BY <1>1 DEF Step
  <2> QED BY <1>0, <2>1, <2>2, <2>3, SectionFacts DEF Reported
<1>2. ASSUME NEW p \in Procs, TakeLock(p) \/ GoWithout(p) \/ SeeStale(p) \/ BreakLock(p) \/ Unlock(p)
      PROVE  Reported'
  <2>1. unsaved' = unsaved /\ errors' = errors
    BY <1>2 DEF TakeLock, GoWithout, SeeStale, BreakLock, Unlock
  <2>2. \A i \in 1..Len(Sections) : Past(p, i)' => Past(p, i)
    BY <1>2 DEF TakeLock, GoWithout, SeeStale, BreakLock, Unlock, Past, AtStart
  <2>3. Step(p)
    BY <1>2 DEF Step
  <2> QED BY <1>0, <2>1, <2>2, <2>3, NothingNewPast
<1>3. ASSUME NEW p \in Procs, AppendSection(p) PROVE Reported'
  <2>1. /\ \A q \in Procs : q # p => unsaved'[q] = unsaved[q] /\ errors'[q] = errors[q]
        /\ unsaved'[p] \subseteq unsaved[p] /\ errors[p] \subseteq errors'[p]
        /\ Here(p) \in unsaved'[p] => Here(p) \notin Fresh[p] \/ Here(p) \in errors'[p]
    BY <1>3 DEF AppendSection, Append_
  <2>2. Step(p) /\ pc[p] = "appending" /\ Advance(p, "appending", "measuring")
    BY <1>3 DEF Step, AppendSection
  <2>3. \A i \in 1..Len(Sections) : Past(p, i)' => i <= at[p]
    BY <2>2, AdvanceFacts DEF Past
  <2>4. \A i \in 1..Len(Sections) : i <= at[p] => Past(p, i) \/ Sections[i] = Here(p)
    BY <2>2, SectionFacts DEF Past, Here
  <2>5. ASSUME NEW i \in 1..Len(Sections), Past(p, i)', Sections[i] \in unsaved'[p]
        PROVE  Sections[i] \in errors'[p]
    BY <2>1, <2>3, <2>4, <2>5 DEF Reported
  <2> QED BY <1>0, <2>1, <2>2, <2>5 DEF Reported
<1>4. ASSUME NEW p \in Procs, Measure(p) \/ LoadBin(p) \/ LoadLog(p) \/ Install(p) \/ Truncate(p)
      PROVE  Reported'
  <2>1. Step(p) /\ pc[p] \in Inside \ {"appending"}
    BY <1>4 DEF Step, Measure, LoadBin, LoadLog, Install, Truncate
  <2>2. \A i \in 1..Len(Sections) : Past(p, i)
    BY <2>1 DEF Past
  <2>3. /\ unsaved' = unsaved /\ errors[p] \subseteq errors'[p]
        /\ \A q \in Procs : q # p => errors'[q] = errors[q]
    BY <1>4 DEF Measure, LoadBin, LoadLog, Install, Truncate
  <2> QED BY <1>0, <2>1, <2>2, <2>3, NothingNewPast
<1>5. ASSUME NEW p \in Procs, Crash(p) PROVE Reported'
  <2>1. /\ unsaved' = unsaved /\ pc'[p] = "dead"
        /\ \A q \in Procs : q # p => errors'[q] = errors[q]
    BY <1>5 DEF Crash
  <2>2. \A i \in 1..Len(Sections) : ~Past(p, i)'
    BY <2>1 DEF Past
  <2> QED BY <1>0, <1>5, <2>1, <2>2, NothingNewPast
<1>6. CASE UNCHANGED vars
  BY <1>6 DEF vars, Reported, Past
<1> QED BY <1>1, <1>2, <1>3, <1>4, <1>5, <1>6 DEF Next, Step, Over

\* Histories only grow.
LEMMA HistoryGrows ==
    ASSUME [Next]_vars, Typed
    PROVE  damaged \subseteq damaged' /\ damaged' \subseteq Section /\ (~lapsed' => ~lapsed)
<1>1. damaged \subseteq damaged'
  BY DEF Next, Step, Over, Begin, TakeLock, GoWithout, SeeStale, BreakLock, Unlock, AppendSection,
     Append_, Measure, LoadBin, LoadLog, Install, Truncate, Crash, vars, history
<1>2. lapsed' = lapsed \/ lapsed' = TRUE \/ \E b \in BOOLEAN : lapsed' = (lapsed \/ b)
  BY DEF Next, Step, Over, Begin, TakeLock, GoWithout, SeeStale, BreakLock, Unlock, AppendSection,
     Measure, LoadBin, LoadLog, Install, Truncate, Crash, vars, history
<1>3. ~lapsed' => ~lapsed
  BY <1>2
<1> QED BY <1>1, <1>3, TypeStep DEF Typed, HistoryOK

LEMMA WholeStep == Typed /\ Whole /\ [Next]_vars => Whole'
<1> SUFFICES ASSUME Typed, Whole, [Next]_vars PROVE Whole'
  OBVIOUS
<1>1. damaged \subseteq damaged' /\ damaged' \subseteq Section
  BY HistoryGrows
<1>2. ASSUME log' = log PROVE Whole'
  BY <1>1, <1>2 DEF Whole
<1>3. ASSUME NEW p \in Procs, AppendSection(p) PROVE Whole'
  <2>1. Here(p) \in Section
    BY SectionFacts DEF Here, Typed, ControlOK
  <2>2. \/ log' = log
        \/ \E x \in Procs \cup {Torn} :
              /\ log' = [log EXCEPT ![Here(p)] = Append(log[Here(p)], x)]
              /\ x = Torn => Here(p) \in damaged'
    BY <1>3, ConstantsAssumption DEF AppendSection, Append_
  <2>3. ASSUME NEW x \in Procs \cup {Torn},
               log' = [log EXCEPT ![Here(p)] = Append(log[Here(p)], x)],
               x = Torn => Here(p) \in damaged',
               NEW s \in Section \ damaged', NEW i \in 1..Len(log'[s])
        PROVE  log'[s][i] # Torn
    <3>1. CASE s # Here(p)
      <4>1. log'[s] = log[s]
        BY <2>1, <2>3, <3>1 DEF Typed, LogOK
      <4> QED BY <1>1, <2>3, <4>1 DEF Whole
    <3>2. CASE s = Here(p)
      <4>1. log'[s] = Append(log[s], x) /\ log[s] \in Seq(Procs \cup {Torn}) /\ x # Torn
        BY <2>1, <2>3, <3>2 DEF Typed, LogOK
      <4>2. i \in 1..Len(log[s]) \/ i = Len(log[s]) + 1
        BY <2>3, <4>1, AppendedFacts
      <4> QED BY <1>1, <2>3, <4>1, <4>2, AppendedFacts DEF Whole
    <3> QED BY <3>1, <3>2
  <2> QED BY <1>2, <2>2, <2>3 DEF Whole
<1>4. ASSUME NEW p \in Procs, Truncate(p) PROVE Whole'
  <2>1. \A s \in Section : log'[s] = log[s] \/ log'[s] = <<>>
    BY <1>4 DEF Truncate, Typed, LogOK
  <2> QED BY <1>1, <2>1 DEF Whole
<1>5. ASSUME NEW p \in Procs, Step(p) \/ Crash(p), ~AppendSection(p), ~Truncate(p) PROVE log' = log
  BY <1>5 DEF Step, Begin, TakeLock, GoWithout, SeeStale, BreakLock, Unlock, Measure, LoadBin,
     LoadLog, Install, Crash, disk
<1> QED BY <1>2, <1>3, <1>4, <1>5 DEF Next, Over, vars

-------------------------------------------------------------------------------
(* What is kept, and what a compaction has loaded of it.                     *)

LEMMA HereFacts ==
    ASSUME Typed, NEW p \in Procs
    PROVE  /\ at[p] \in 1..Len(Sections) /\ Here(p) = Sections[at[p]] /\ Here(p) \in Section
           /\ \A i \in 1..Len(Sections) : Sections[i] = Here(p) => i = at[p]
BY SectionFacts DEF Typed, ControlOK, Here

\* A log that grew keeps what it had.
LEMMA AppendKeeps ==
    ASSUME Typed, NEW p \in Procs, AppendSection(p)
    PROVE  /\ \A s \in Section, q \in Procs : Kept(s, q) => Kept(s, q)'
           /\ \A s \in Section :
                s = Here(p) /\ s \in unsaved[p] /\ s \notin unsaved'[p] => Kept(s, p)'
<1>1. bin' = bin /\ log \in [Section -> Seq(Procs \cup {Torn})] /\ Here(p) \in Section
  BY HereFacts DEF AppendSection, Typed, LogOK
<1>2. ASSUME NEW x \in Procs \cup {Torn}, log' = [log EXCEPT ![Here(p)] = Append(log[Here(p)], x)]
      PROVE  /\ \A s \in Section, q \in Procs : InLog(s, q) => InLog(s, q)'
             /\ \A s \in Section : s = Here(p) => InLog(s, x)'
  <2>1. \A s \in Section : s # Here(p) => log'[s] = log[s]
    BY <1>1, <1>2
  <2>2. /\ log'[Here(p)] = Append(log[Here(p)], x) /\ Len(log[Here(p)]) \in Nat
        /\ Len(log'[Here(p)]) = Len(log[Here(p)]) + 1
        /\ log'[Here(p)][Len(log[Here(p)]) + 1] = x
        /\ \A i \in 1..Len(log[Here(p)]) : log'[Here(p)][i] = log[Here(p)][i]
    BY <1>1, <1>2, AppendedFacts
  <2>3. ASSUME NEW s \in Section, NEW q \in Procs, InLog(s, q) PROVE InLog(s, q)'
    <3>1. PICK i \in 1..Len(log[s]) : log[s][i] = q
      BY <2>3 DEF InLog
    <3>2. i \in 1..Len(log'[s]) /\ log'[s][i] = q
      BY <2>1, <2>2, <3>1, SMTT(30)
    <3> QED BY <3>2 DEF InLog
  <2>4. ASSUME NEW s \in Section, s = Here(p) PROVE InLog(s, x)'
    <3>1. Len(log[s]) + 1 \in 1..Len(log'[s])
      BY <2>2, <2>4
    <3> QED BY <2>2, <2>4, <3>1 DEF InLog
  <2> QED BY <2>3, <2>4
<1>3. CASE log' = log
  <2>1. unsaved' = unsaved
    <3>1. Append(log[Here(p)], p) # log[Here(p)]
      BY <1>1, AppendedFacts
    <3> QED BY <1>1, <1>3, <3>1 DEF AppendSection, Append_
  <2> QED BY <1>1, <1>3, <2>1 DEF Kept, InLog
<1>4. CASE log' = [log EXCEPT ![Here(p)] = Append(log[Here(p)], p)]
  BY <1>1, <1>2, <1>4 DEF Kept
<1>5. CASE /\ log' = [log EXCEPT ![Here(p)] = Append(log[Here(p)], Torn)]
           /\ unsaved' = unsaved
  BY <1>1, <1>2, <1>5 DEF Kept
<1> QED BY <1>3, <1>4, <1>5 DEF AppendSection, Append_

\* A compaction step of a section that could be read loses nothing of it.
LEMMA CompactKeeps ==
    ASSUME Typed, Covered, ~lapsed, NEW p \in Procs, Install(p) \/ Truncate(p),
           NEW s \in Section \ damaged, NEW q \in Procs, Kept(s, q)
    PROVE  Kept(s, q)'
<1>0. Covers(p, at[p]) \/ Here(p) \in damaged
  BY HereFacts DEF Covered
<1>1. CASE Install(p)
  <2>1. CASE s # Here(p)
    <3>1. bin'[s] = bin[s] /\ log' = log
      BY <1>1, <2>1 DEF Install, Typed, BinOK
    <3> QED BY <3>1 DEF Kept, InLog
  <2>2. CASE s = Here(p)
    <3>1. pc[p] = "installing" /\ log' = log /\ at[p] \in Nat
      BY <1>1, HereFacts DEF Install
    <3>2. snap[p][s][q] >= 1
      BY <1>0, <2>2, <3>1, HereFacts DEF Covers
    <3>3. bin'[s] = bin[s] \/ bin'[s] = snap[p][s]
      BY <1>1, <2>2 DEF Install, Typed, BinOK
    <3> QED BY <3>1, <3>2, <3>3 DEF Kept, InLog
  <2> QED BY <2>1, <2>2
<1>2. CASE Truncate(p)
  <2>1. CASE s # Here(p)
    <3>1. log'[s] = log[s] /\ bin' = bin
      BY <1>2, <2>1 DEF Truncate, Typed, LogOK
    <3> QED BY <3>1 DEF Kept, InLog
  <2>2. CASE s = Here(p)
    <3>1. pc[p] = "truncating" /\ bin' = bin /\ at[p] \in Nat
      BY <1>2, HereFacts DEF Truncate
    <3>2. bin[s][q] >= 1
      BY <1>0, <2>2, <3>1, HereFacts DEF Covers
    <3> QED BY <3>1, <3>2 DEF Kept
  <2> QED BY <2>1, <2>2
<1> QED BY <1>1, <1>2

LEMMA SafeStep == Typed /\ Covered /\ Safe /\ [Next]_vars => Safe'
<1> SUFFICES ASSUME Typed, Covered, Safe, [Next]_vars,
                    NEW s \in Section \ damaged', NEW q \in Procs,
                    ~lapsed', s \in Fresh[q], s \notin unsaved'[q]
             PROVE  Kept(s, q)'
  BY DEF Safe
<1>1. s \in Section \ damaged /\ ~lapsed
  BY HistoryGrows
<1>2. s \notin unsaved[q] => Kept(s, q)
  BY <1>1 DEF Safe
<1>3. ASSUME NEW p \in Procs, AppendSection(p) PROVE Kept(s, q)'
  <2>1. \A z \in Procs, x \in Section :
          x \in unsaved[z] /\ x \notin unsaved'[z] => z = p /\ x = Here(p)
    BY <1>3 DEF AppendSection, Append_, Typed, ReportOK
  <2>2. CASE s \notin unsaved[q]
    BY <1>1, <1>2, <1>3, <2>2, AppendKeeps
  <2>3. CASE s \in unsaved[q]
    <3>1. q = p /\ s = Here(p)
      BY <1>1, <2>1, <2>3
    <3> QED BY <1>3, <2>3, <3>1, AppendKeeps
  <2> QED BY <2>2, <2>3
<1>4. ASSUME NEW p \in Procs, Install(p) \/ Truncate(p) PROVE Kept(s, q)'
  <2>1. unsaved' = unsaved
    BY <1>4 DEF Install, Truncate
  <2> QED BY <1>1, <1>2, <1>4, <2>1, CompactKeeps
<1>5. CASE bin' = bin /\ log' = log /\ unsaved' = unsaved
  BY <1>2, <1>5 DEF Kept, InLog
<1>6. ASSUME NEW p \in Procs, Step(p) \/ Crash(p), ~AppendSection(p), ~Install(p), ~Truncate(p)
      PROVE  bin' = bin /\ log' = log /\ unsaved' = unsaved
  BY <1>6 DEF Step, Begin, TakeLock, GoWithout, SeeStale, BreakLock, Unlock, Measure, LoadBin,
     LoadLog, Crash, disk
<1> QED BY <1>3, <1>4, <1>5, <1>6 DEF Next, Over, vars

\* Whoever does not compact after the step has nothing to cover.
LEMMA IdleCovers ==
    ASSUME NEW q, NEW i, pc'[q] \notin {"loadBin", "loadLog", "installing", "truncating"}
    PROVE  Covers(q, i)'
BY DEF Covers

\* A process whose place, files and state stay as they are covers what it did.
LEMMA StillCovers ==
    ASSUME NEW q \in Procs, NEW i, Covers(q, i), pc'[q] = pc[q], at'[q] = at[q],
           snap'[q] = snap[q], bin' = bin, log' = log
    PROVE  Covers(q, i)'
BY DEF Covers, Kept, InLog

\* The others, when p takes a step.
LEMMA OthersCover ==
    ASSUME Typed, Locked, Covered, ~lapsed, NEW p \in Procs, Step(p) \/ Crash(p),
           NEW q \in Procs, q # p, NEW i \in 1..Len(Sections), Sections[i] \notin damaged
    PROVE  Covers(q, i)'
<1>1. pc'[q] = pc[q] /\ at'[q] = at[q]
  BY OthersStand
<1>2. CASE pc[q] \notin Inside
  BY <1>1, <1>2, IdleCovers
<1>3. CASE pc[q] \in Inside
  <2>1. pc[p] \notin Inside
    BY <1>3, Alone
  <2>2. bin' = bin /\ log' = log /\ (snap' = snap \/ snap' = [snap EXCEPT ![p] = Nothing])
    BY <2>1 DEF Step, Begin, TakeLock, GoWithout, SeeStale, BreakLock, Unlock, AppendSection,
       Measure, LoadBin, LoadLog, Install, Truncate, Crash, disk
  <2>4. snap'[q] = snap[q]
    BY <2>2 DEF Typed, SnapOK
  <2>3. Covers(q, i)
    BY DEF Covered
  <2> QED BY <1>1, <2>2, <2>3, <2>4, StillCovers
<1> QED BY <1>2, <1>3

\* p loads the base file of a section.
LEMMA LoadBinCovers ==
    ASSUME Typed, Covered, ~lapsed, NEW p \in Procs, LoadBin(p),
           NEW i \in 1..Len(Sections), Sections[i] \notin damaged'
    PROVE  Covers(p, i)'
<1>1. /\ pc[p] = "loadBin" /\ pc'[p] = "loadLog" /\ at' = at /\ bin' = bin /\ log' = log
      /\ Sections[i] \notin damaged
  BY DEF LoadBin, disk, Typed, ControlOK
<1>2. Sections[i] \in Section /\ at[p] \in 1..Len(Sections) /\ Covers(p, i)
  BY <1>1, HereFacts, SectionFacts DEF Covered
<1>3. CASE i < at[p]
  <2>1. Sections[i] # Here(p)
    BY <1>2, <1>3, HereFacts
  <2>2. snap'[p][Sections[i]] = snap[p][Sections[i]]
    BY <1>2, <2>1, HereFacts, SnapUpdate DEF LoadBin, Typed, SnapOK
  <2> QED BY <1>1, <1>2, <1>3, <2>2 DEF Covers, Kept, InLog
<1>4. CASE i = at[p]
  <2>1. Sections[i] = Here(p)
    BY <1>4, HereFacts
  <2>2. snap' = [snap EXCEPT ![p][Here(p)] = bin[Here(p)]] /\ bin[Here(p)] \in [Procs -> Nat]
    BY <2>1, HereFacts DEF LoadBin, Typed, BinOK
  <2> DEFINE f == bin[Here(p)]
  <2>3. snap'[p][Sections[i]] = f
    <3>1. f \in [Procs -> Nat] /\ snap' = [snap EXCEPT ![p][Here(p)] = f] /\ SnapOK
      BY <2>2 DEF Typed
    <3> HIDE DEF f
    <3>2. Here(p) \in Section
      BY HereFacts
    <3>3. snap'[p][Here(p)] = f
      BY ONLY <3>1, <3>2, SnapUpdate, p \in Procs, ZenonT(40)
    <3> QED BY <2>1, <3>3
  <2>4. snap'[p][Sections[i]] = bin[Sections[i]]
    BY <2>1, <2>3
  <2> HIDE DEF f
  <2> QED BY <1>1, <1>2, <1>4, <2>4 DEF Covers
<1>5. CASE i > at[p]
  BY <1>1, <1>2, <1>5 DEF Covers
<1> QED BY <1>2, <1>3, <1>4, <1>5

\* p adds the log of a section to what it loaded.
LEMMA LoadLogCovers ==
    ASSUME Typed, Whole, Covered, ~lapsed, NEW p \in Procs, LoadLog(p),
           NEW i \in 1..Len(Sections), Sections[i] \notin damaged'
    PROVE  Covers(p, i)'
<1>1. /\ pc[p] = "loadLog" /\ bin' = bin /\ log' = log /\ Sections[i] \notin damaged
      /\ Advance(p, "loadBin", "installing")
  BY DEF LoadLog, disk
<1>2. Sections[i] \in Section /\ at[p] \in 1..Len(Sections) /\ Covers(p, i)
  BY <1>1, HereFacts, SectionFacts DEF Covered
<1>3. ASSUME i <= at[p], NEW q \in Procs, Kept(Sections[i], q)
      PROVE  snap'[p][Sections[i]][q] >= 1
  <2> DEFINE s == Sections[i]
             f == [z \in Procs |-> Merge(Here(p), snap[p][Here(p)][z], Logged(Here(p), z))]
  <2>1. f \in [Procs -> Nat]
    <3>1. \A z \in Procs : snap[p][Here(p)][z] \in Nat /\ Logged(Here(p), z) \in Nat
      BY HereFacts, LoggedFacts DEF Typed, SnapOK
    <3> QED BY <3>1, MergeFacts
  <2>2. snap' = snap \/ snap' = [snap EXCEPT ![p][Here(p)] = f]
    BY HereFacts DEF LoadLog, Typed, SnapOK
  <2>3. CASE i < at[p]
    <3>1. s # Here(p)
      BY <1>2, <2>3, HereFacts
    <3> HIDE DEF f
    <3>2. snap'[p][s] = snap[p][s]
      BY <1>2, <2>1, <2>2, <3>1, HereFacts, SnapUpdate DEF Typed
    <3> QED BY <1>1, <1>2, <1>3, <2>3, <3>2 DEF Covers
  <2>4. CASE i = at[p]
    <3>1. s = Here(p)
      BY <2>4, HereFacts
    <3>2. snap' = [snap EXCEPT ![p][Here(p)] = f]
      BY <3>1, HereFacts DEF LoadLog, Typed, SnapOK
    <3>3. f[q] >= 1
      <4>1. bin[s][q] >= 1 => snap[p][s][q] >= 1
        BY <1>1, <1>2, <2>4 DEF Covers
      <4>2. Logged(s, q) \in Nat /\ (InLog(s, q) => Logged(s, q) >= 1)
        BY <1>1, <1>2, LoggedFacts DEF Typed, Whole
      <4>3. snap[p][s][q] \in Nat
        BY <1>2 DEF Typed, SnapOK
      <4>4. snap[p][s][q] >= 1 \/ Logged(s, q) >= 1
        BY <1>3, <4>1, <4>2 DEF Kept
      <4>5. Merge(s, snap[p][s][q], Logged(s, q)) >= 1
        BY <4>2, <4>3, <4>4, MergeFacts
      <4> QED BY <3>1, <4>5
    <3> HIDE DEF f
    <3>4. Here(p) \in Section /\ SnapOK
      BY HereFacts DEF Typed
    <3>5. snap'[p][Here(p)] = f
      BY ONLY <2>1, <3>2, <3>4, SnapUpdate, p \in Procs, ZenonT(40)
    <3> QED BY <3>1, <3>3, <3>5
  <2> QED BY <1>2, <1>3, <2>3, <2>4
<1>4. CASE pc'[p] = "loadBin" /\ at'[p] = at[p] + 1
  BY <1>1, <1>2, <1>3, <1>4 DEF Covers, Kept, InLog
<1>5. CASE pc'[p] = "installing" /\ at[p] = Len(Sections)
  BY <1>1, <1>2, <1>3, <1>5 DEF Covers, Kept, InLog
<1> QED BY <1>1, <1>4, <1>5, AdvanceFacts DEF Typed

\* p installs the base file of a section, or fails to and goes on.
LEMMA InstallCovers ==
    ASSUME Typed, Covered, ~lapsed, NEW p \in Procs, Install(p),
           NEW i \in 1..Len(Sections), Sections[i] \notin damaged'
    PROVE  Covers(p, i)'
<1>1. /\ pc[p] = "installing" /\ log' = log /\ snap' = snap /\ Sections[i] \notin damaged
      /\ Sections[i] \in Section /\ at[p] \in 1..Len(Sections)
  BY HereFacts, SectionFacts DEF Install, history
<1>2. Covers(p, i)
  BY <1>1 DEF Covered
<1>3. CASE /\ bin' = [bin EXCEPT ![Here(p)] = snap[p][Here(p)]]
           /\ pc' = [pc EXCEPT ![p] = "truncating"] /\ at' = at
  <2>1. pc'[p] = "truncating" /\ at'[p] = at[p]
    BY <1>3 DEF Typed, ControlOK
  <2>2. CASE i > at[p]
    <3>1. bin'[Sections[i]] = bin[Sections[i]]
      <4>1. Sections[i] # Here(p)
        BY <1>1, <2>2, HereFacts
      <4> QED BY <1>1, <1>3, <4>1 DEF Typed, BinOK
    <3>2. \A q \in Procs : Kept(Sections[i], q) => snap[p][Sections[i]][q] >= 1
      BY <1>1, <1>2, <2>2 DEF Covers
    <3> QED BY <1>1, <2>1, <2>2, <3>1, <3>2 DEF Covers, Kept, InLog
  <2>3. CASE i = at[p]
    <3>1. bin'[Sections[i]] = snap[p][Sections[i]]
      BY <1>1, <1>3, <2>3, HereFacts DEF Typed, BinOK
    <3>2. \A q \in Procs : Kept(Sections[i], q) => snap[p][Sections[i]][q] >= 1
      BY <1>1, <1>2, <2>3 DEF Covers
    <3>3. \A q \in Procs : Kept(Sections[i], q)' => bin'[Sections[i]][q] >= 1
      BY <1>1, <3>1, <3>2 DEF Kept, InLog
    <3> QED BY <1>1, <2>1, <2>3, <3>3 DEF Covers
  <2>4. CASE i < at[p]
    BY <1>1, <2>1, <2>4 DEF Covers
  <2> QED BY <1>1, <2>2, <2>3, <2>4
<1>4. CASE bin' = bin /\ Advance(p, "installing", "unlocking")
  <2>1. CASE pc'[p] = "installing" /\ at'[p] = at[p] + 1
    BY <1>1, <1>2, <1>4, <2>1 DEF Covers, Kept, InLog
  <2>2. CASE pc'[p] = "unlocking"
    BY <2>2, IdleCovers
  <2> QED BY <1>4, <2>1, <2>2, AdvanceFacts DEF Typed
<1> QED BY <1>3, <1>4 DEF Install

\* p empties the log of the section, or fails to.
LEMMA TruncateCovers ==
    ASSUME Typed, Covered, ~lapsed, NEW p \in Procs, Truncate(p),
           NEW i \in 1..Len(Sections), Sections[i] \notin damaged'
    PROVE  Covers(p, i)'
<1>1. /\ pc[p] = "truncating" /\ bin' = bin /\ snap' = snap /\ Sections[i] \notin damaged
      /\ Sections[i] \in Section /\ at[p] \in 1..Len(Sections)
      /\ Advance(p, "installing", "unlocking")
  BY HereFacts, SectionFacts DEF Truncate
<1>2. Covers(p, i)
  BY <1>1 DEF Covered
<1>3. CASE pc'[p] = "installing" /\ at'[p] = at[p] + 1
  <2>1. CASE i > at[p]
    <3>1. log'[Sections[i]] = log[Sections[i]]
      <4>1. Sections[i] # Here(p)
        BY <1>1, <2>1, HereFacts
      <4> QED BY <1>1, <4>1 DEF Truncate, Typed, LogOK
    <3>2. \A q \in Procs : Kept(Sections[i], q) => snap[p][Sections[i]][q] >= 1
      BY <1>1, <1>2, <2>1 DEF Covers
    <3> QED BY <1>1, <1>3, <2>1, <3>1, <3>2 DEF Covers, Kept, InLog
  <2>2. CASE i <= at[p]
    BY <1>1, <1>3, <2>2 DEF Covers
  <2> QED BY <1>1, <2>1, <2>2
<1>4. CASE pc'[p] = "unlocking"
  BY <1>4, IdleCovers
<1> QED BY <1>1, <1>3, <1>4, AdvanceFacts DEF Typed

LEMMA CoveredStep == Inv /\ [Next]_vars => Covered'
<1> SUFFICES ASSUME Inv, [Next]_vars, ~lapsed',
                    NEW q \in Procs, NEW i \in 1..Len(Sections), Sections[i] \notin damaged'
             PROVE  Covers(q, i)'
  BY DEF Covered
<1>1. Typed /\ Locked /\ AtStart /\ Whole /\ Covered
  BY DEF Inv
<1>2. ~lapsed /\ Sections[i] \notin damaged
  BY <1>1, HistoryGrows
<1>3. ASSUME NEW p \in Procs, Step(p) \/ Crash(p), p # q PROVE Covers(q, i)'
  BY <1>1, <1>2, <1>3, OthersCover
<1>4. ASSUME Begin(q) \/ TakeLock(q) \/ GoWithout(q) \/ SeeStale(q) \/ BreakLock(q) \/ Unlock(q) \/ Crash(q)
      PROVE  Covers(q, i)'
  <2>1. pc'[q] \in {"locking", "done", "appending", "breaking", "dead"}
    BY <1>1, <1>4 DEF Begin, TakeLock, GoWithout, SeeStale, BreakLock, Unlock, Crash, Typed, ControlOK
  <2> QED BY <2>1, IdleCovers
<1>5. ASSUME AppendSection(q) PROVE Covers(q, i)'
  <2>1. pc'[q] \in {"appending", "measuring"}
    BY <1>1, <1>5, AdvanceFacts DEF AppendSection, Typed
  <2> QED BY <2>1, IdleCovers
<1>6. ASSUME Measure(q) PROVE Covers(q, i)'
  <2>1. CASE pc'[q] = "loadBin" /\ at'[q] = 1
    BY <2>1 DEF Covers
  <2>2. CASE pc'[q] = "unlocking"
    BY <2>2, IdleCovers
  <2> QED BY <1>1, <1>6, <2>1, <2>2 DEF Measure, AtStart, Typed, ControlOK
<1>7. ASSUME LoadBin(q) \/ LoadLog(q) \/ Install(q) \/ Truncate(q) PROVE Covers(q, i)'
  BY <1>1, <1>2, <1>7, LoadBinCovers, LoadLogCovers, InstallCovers, TruncateCovers
<1>8. CASE UNCHANGED vars
  <2>1. Covers(q, i)
    BY <1>1, <1>2 DEF Covered
  <2> QED BY <1>8, <2>1, StillCovers DEF vars
<1> QED BY <1>3, <1>4, <1>5, <1>6, <1>7, <1>8 DEF Next, Step, Over

-------------------------------------------------------------------------------
(* The invariant, and what it gives.                                         *)

LEMMA InitInv == Init => Inv
<1> SUFFICES ASSUME Init PROVE Inv
  OBVIOUS
<1>1. Typed
  BY InitType
<1>2. Locked /\ AtStart /\ Whole /\ Covered
  BY SectionFacts DEF Init, Locked, AtStart, Whole, Covered, Covers
<1>3. Reported /\ Safe
  BY DEF Init, Reported, Past, Safe
<1> QED BY <1>1, <1>2, <1>3 DEF Inv

LEMMA InvHolds == Spec => []Inv
<1>1. Inv /\ [Next]_vars => Inv'
  BY TypeStep, LockStep, StartStep, ReportStep, WholeStep, SafeStep, CoveredStep DEF Inv
<1> QED BY <1>1, InitInv, PTL DEF Spec

\* However many sessions end together and however many locks of dead processes are
\* broken, one flush is inside at a time while nobody lost patience with a live lock.
THEOREM FlushIsExclusive == Spec => []OneFlush
<1>1. ASSUME Inv, ~lapsed
      PROVE  Cardinality({p \in Procs : pc[p] \in Inside}) <= 1
  <2> DEFINE S == {p \in Procs : pc[p] \in Inside}
  <2>1. S = {} \/ S = {lock}
    BY <1>1 DEF Inv, Locked
  <2>2. Cardinality(S) = 0 \/ Cardinality(S) = 1
    BY <2>1, FS_EmptySet, FS_Singleton
  <2> QED BY <2>2
<1>2. Inv => OneFlush
  BY <1>1 DEF OneFlush
<1> QED BY <1>2, InvHolds, PTL

\* No batch that was saved is lost, for any number of processes and sections and any
\* threshold, whichever step of an append or a compaction fails or is cut off.
THEOREM SavedStays == Spec => []NothingLost
<1>1. ASSUME Inv, NEW s \in Section \ damaged, NEW p \in Procs, ~lapsed, Saved(s, p)
      PROVE  Counted(s, p) >= 1
  <2>1. s \in Fresh[p] /\ s \notin unsaved[p]
    <3>1. PICK i \in 1..Len(Sections) : s = Sections[i]
      BY SectionFacts
    <3>2. pc[p] = "done" => Past(p, i)
      BY DEF Past
    <3> QED BY <1>1, <3>1, <3>2 DEF Saved, Inv, Reported
  <2>2. Kept(s, p)
    BY <1>1, <2>1 DEF Inv, Safe
  <2>3. Logged(s, p) \in Nat /\ (Logged(s, p) >= 1 <=> InLog(s, p)) /\ bin[s][p] \in Nat
    BY <1>1, LoggedFacts DEF Inv, Typed, BinOK, Whole
  <2> QED BY <2>2, <2>3, MergeFacts DEF Counted, Kept
<1>2. Inv => NothingLost
  BY <1>1 DEF NothingLost
<1> QED BY <1>2, InvHolds, PTL

-------------------------------------------------------------------------------
(* What a compaction that was cut off may count twice.                       *)

\* q has not come to section i yet, and of a batch that was not appended there is nothing.
Unwritten(q, i) == pc[q] \in {"idle", "locking", "breaking"} \/ (pc[q] = "appending" /\ at[q] <= i)

Absent(s, q) == ~InLog(s, q) /\ bin[s][q] = 0 /\ \A p \in Procs : snap[p][s][q] = 0

UnwrittenAbsent ==
    \A q \in Procs, i \in 1..Len(Sections) : Unwritten(q, i) => Absent(Sections[i], q)

\* A log has each batch once.
OnceLogged ==
    \A s \in Section, q \in Procs :
        \A i, j \in 1..Len(log[s]) : log[s][i] = q /\ log[s][j] = q => i = j

\* How often the base and the log of a section that adds up count a batch.
Amount(s, q) == bin[s][q] + Logged(s, q)

Truncates(p, i) == pc[p] = "truncating" /\ at[p] = i

\* The bound of section i; while its log waits to be truncated, that of the base file alone.
WithinReplays(i) ==
    LET s == Sections[i] IN
    \A q \in Procs :
        /\ bin[s][q] <= 1 + replays[s]
        /\ (\A p \in Procs : ~Truncates(p, i)) => Amount(s, q) <= 1 + replays[s]

\* What a process that compacts has loaded of section i is no more than the disk holds.
LoadsNoMore(p, i) ==
    LET s == Sections[i] IN
    \A q \in Procs :
        /\ pc[p] \in {"loadBin", "loadLog"} /\ i < at[p] => snap[p][s][q] <= Amount(s, q)
        /\ pc[p] = "loadLog" /\ i = at[p] => snap[p][s][q] <= bin[s][q]
        /\ pc[p] = "installing" /\ i >= at[p] => snap[p][s][q] <= Amount(s, q)
        /\ pc[p] = "truncating" /\ i > at[p] => snap[p][s][q] <= Amount(s, q)

\* A section that was read and that adds up.
AddsUp(i) == Sections[i] \notin damaged /\ Sections[i] # "names"

Bounded ==
    ~lapsed => \A i \in 1..Len(Sections) :
                  AddsUp(i) => WithinReplays(i) /\ \A p \in Procs : LoadsNoMore(p, i)

CountInv == Inv /\ UnwrittenAbsent /\ OnceLogged /\ Bounded

LEMMA LoggedBounds ==
    ASSUME LogOK, NEW s \in Section, NEW q \in Procs
    PROVE  /\ Logged(s, q) \in Nat
           /\ ~InLog(s, q) => Logged(s, q) = 0
           /\ (\A i, j \in 1..Len(log[s]) : log[s][i] = q /\ log[s][j] = q => i = j) => Logged(s, q) <= 1
<1> DEFINE Places == {i \in DOMAIN log[s] : log[s][i] = q /\ \A j \in 1 .. i : log[s][j] # Torn}
<1>1. Logged(s, q) = Cardinality(Places) /\ DOMAIN log[s] = 1..Len(log[s])
  BY DEF Logged, LogOK
<1>2. ~InLog(s, q) => Places = {}
  BY <1>1 DEF InLog
<1>3. ASSUME \A i, j \in 1..Len(log[s]) : log[s][i] = q /\ log[s][j] = q => i = j
      PROVE  Places = {} \/ \E i : Places = {i}
  <2>1. ASSUME NEW i \in Places PROVE Places = {i}
    BY <1>1, <1>3
  <2> QED BY <2>1
<1> HIDE DEF Places
<1>4. Places = {} => Cardinality(Places) = 0
  BY FS_EmptySet
<1>5. (\E i : Places = {i}) => Cardinality(Places) = 1
  BY FS_Singleton
<1>6. Logged(s, q) \in Nat
  BY LoggedFacts
<1>7. ASSUME \A i, j \in 1..Len(log[s]) : log[s][i] = q /\ log[s][j] = q => i = j
      PROVE  Logged(s, q) <= 1
  <2>1. Cardinality(Places) = 0 \/ Cardinality(Places) = 1
    BY <1>3, <1>4, <1>5, <1>7
  <2> QED BY <1>1, <2>1
<1> QED BY <1>1, <1>2, <1>4, <1>6, <1>7

\* A batch of another process, or what a torn append left, changes nothing of what q has there.
LEMMA LoggedKept ==
    ASSUME LogOK, NEW s \in Section, NEW q \in Procs, NEW x \in Procs \cup {Torn}, x # q,
           log'[s] = Append(log[s], x)
    PROVE  Logged(s, q)' = Logged(s, q)
<1> DEFINE Places == {i \in DOMAIN log[s] : log[s][i] = q /\ \A j \in 1 .. i : log[s][j] # Torn}
           After == {i \in DOMAIN log'[s] : log'[s][i] = q /\ \A j \in 1 .. i : log'[s][j] # Torn}
<1>1. log[s] \in Seq(Procs \cup {Torn})
  BY DEF LogOK
<1>2. /\ Len(log[s]) \in Nat /\ DOMAIN log[s] = 1..Len(log[s]) /\ DOMAIN log'[s] = 1..(Len(log[s]) + 1)
      /\ log'[s][Len(log[s]) + 1] = x
      /\ \A i \in 1..Len(log[s]) : log'[s][i] = log[s][i]
  BY <1>1, AppendedFacts
<1>3. \A i \in 1..Len(log[s]) : \A j \in 1..i : log'[s][j] = log[s][j]
  BY <1>2
<1>4. Places = After
  <2>1. ASSUME NEW i \in Places PROVE i \in After
    BY <1>2, <1>3
  <2>2. ASSUME NEW i \in After PROVE i \in Places
    <3>1. i \in 1..Len(log[s])
      BY <1>2
    <3> QED BY <1>2, <1>3, <3>1
  <2> QED BY <2>1, <2>2
<1>5. Logged(s, q) = Cardinality(Places) /\ Logged(s, q)' = Cardinality(After)
  BY DEF Logged
<1> HIDE DEF Places, After
<1> QED BY <1>4, <1>5

\* What an append does to the logs.
LEMMA AppendDoes ==
    ASSUME Typed, NEW p \in Procs, AppendSection(p)
    PROVE  /\ bin' = bin /\ snap' = snap /\ replays' = replays
           /\ \A s \in Section : s # Here(p) => log'[s] = log[s]
           /\ \/ log' = log
              \/ \E x \in {p, Torn} : /\ log'[Here(p)] = Append(log[Here(p)], x)
                                      /\ x = Torn => Here(p) \in damaged'
<1>1. log \in [Section -> Seq(Procs \cup {Torn})] /\ Here(p) \in Section /\ damaged \subseteq Section
  BY HereFacts DEF Typed, LogOK, HistoryOK
<1>2. \/ log' = log
      \/ log' = [log EXCEPT ![Here(p)] = Append(log[Here(p)], p)]
      \/ log' = [log EXCEPT ![Here(p)] = Append(log[Here(p)], Torn)] /\ Here(p) \in damaged'
  BY DEF AppendSection, Append_
<1>3. p # Torn
  BY ConstantsAssumption
<1> QED BY <1>1, <1>2, <1>3 DEF AppendSection

\* Of an absent batch nothing appears but by its own append.
LEMMA AbsentStays ==
    ASSUME Typed, [Next]_vars, NEW s \in Section, NEW q \in Procs, Absent(s, q),
           ~(AppendSection(q) /\ Here(q) = s)
    PROVE  Absent(s, q)'
<1>0. Logged(s, q) = 0 /\ LogOK /\ SnapOK /\ BinOK
  BY LoggedBounds DEF Absent, Typed
<1>1. ASSUME NEW p \in Procs, AppendSection(p) PROVE Absent(s, q)'
  <2>1. bin' = bin /\ snap' = snap
    BY <1>1, AppendDoes
  <2>2. CASE log'[s] = log[s]
    BY <2>1, <2>2 DEF Absent, InLog
  <2>3. ASSUME NEW x \in {p, Torn}, log'[s] = Append(log[s], x), s = Here(p) PROVE Absent(s, q)'
    <3>1. x # q
      BY <1>1, <2>3, ConstantsAssumption
    <3>2. log[s] \in Seq(Procs \cup {Torn}) /\ x \in Procs \cup {Torn}
      BY <1>0 DEF LogOK
    <3>3. \A i \in 1..Len(log'[s]) : log'[s][i] = x \/ (i \in 1..Len(log[s]) /\ log'[s][i] = log[s][i])
      BY <2>3, <3>2, AppendedFacts
    <3> QED BY <2>1, <3>1, <3>3 DEF Absent, InLog
  <2> QED BY <1>1, <2>2, <2>3, AppendDoes
<1>2. ASSUME NEW p \in Procs, LoadBin(p) PROVE Absent(s, q)'
  <2>1. bin' = bin /\ log' = log /\ Here(p) \in Section /\ bin[Here(p)] \in [Procs -> Nat]
    BY <1>0, <1>2, HereFacts DEF LoadBin, disk, BinOK
  <2>2. snap' = snap \/ snap' = [snap EXCEPT ![p][Here(p)] = bin[Here(p)]]
    BY <1>2 DEF LoadBin
  <2>3. \A z \in Procs : snap'[z][s] = snap[z][s] \/ snap'[z][s] = bin[s]
    BY <1>0, <2>1, <2>2, SnapUpdate
  <2> QED BY <2>1, <2>3 DEF Absent, InLog
<1>3. ASSUME NEW p \in Procs, LoadLog(p) PROVE Absent(s, q)'
  <2> DEFINE f == [z \in Procs |-> Merge(Here(p), snap[p][Here(p)][z], Logged(Here(p), z))]
  <2>1. bin' = bin /\ log' = log /\ Here(p) \in Section
    BY <1>3, HereFacts DEF LoadLog, disk
  <2>2. f \in [Procs -> Nat]
    <3>1. \A z \in Procs : Merge(Here(p), snap[p][Here(p)][z], Logged(Here(p), z)) \in Nat
      <4>1. \A z \in Procs : snap[p][Here(p)][z] \in Nat /\ Logged(Here(p), z) \in Nat
        BY <1>0, <2>1, LoggedFacts DEF SnapOK
      <4> QED BY <4>1, MergeFacts
    <3> QED BY <3>1
  <2>3. snap' = snap \/ snap' = [snap EXCEPT ![p][Here(p)] = f]
    BY <1>0, <1>3, <2>1 DEF LoadLog, SnapOK
  <2>4. s = Here(p) => f[q] = 0
    BY <1>0 DEF Absent, Merge
  <2> HIDE DEF f
  <2>5. \A z \in Procs : snap'[z][s] = snap[z][s] \/ (s = Here(p) /\ snap'[z][s] = f)
    BY <1>0, <2>1, <2>2, <2>3, SnapUpdate
  <2> QED BY <2>1, <2>4, <2>5 DEF Absent, InLog
<1>4. ASSUME NEW p \in Procs, Install(p) PROVE Absent(s, q)'
  <2>1. log' = log /\ snap' = snap /\ (bin'[s] = bin[s] \/ bin'[s] = snap[p][s])
    BY <1>0, <1>4, HereFacts DEF Install, BinOK
  <2> QED BY <2>1 DEF Absent, InLog
<1>5. ASSUME NEW p \in Procs, Truncate(p) PROVE Absent(s, q)'
  <2>1. bin' = bin /\ snap' = snap /\ (log'[s] = log[s] \/ log'[s] = <<>>)
    BY <1>0, <1>5, HereFacts DEF Truncate, LogOK
  <2> QED BY <2>1 DEF Absent, InLog
<1>6. ASSUME bin' = bin, log' = log,
             snap' = snap \/ \E p \in Procs : snap' = [snap EXCEPT ![p] = Nothing]
      PROVE  Absent(s, q)'
  <2>1. \A z \in Procs : snap'[z][s] = snap[z][s] \/ snap'[z][s] = Nothing[s]
    BY <1>0, <1>6 DEF SnapOK
  <2>2. Nothing[s][q] = 0
    BY DEF Nothing
  <2> QED BY <1>6, <2>1, <2>2 DEF Absent, InLog
<1>7. ASSUME NEW p \in Procs, Step(p) \/ Crash(p), ~AppendSection(p), ~LoadBin(p), ~LoadLog(p),
             ~Install(p), ~Truncate(p)
      PROVE  bin' = bin /\ log' = log /\ (snap' = snap \/ snap' = [snap EXCEPT ![p] = Nothing])
  BY <1>7 DEF Step, Begin, TakeLock, GoWithout, SeeStale, BreakLock, Unlock, Measure, Crash, disk
<1> QED BY <1>1, <1>2, <1>3, <1>4, <1>5, <1>6, <1>7 DEF Next, Over, vars

LEMMA UnwrittenStep == Typed /\ AtStart /\ UnwrittenAbsent /\ [Next]_vars => UnwrittenAbsent'
<1> SUFFICES ASSUME Typed, AtStart, UnwrittenAbsent, [Next]_vars,
                    NEW q \in Procs, NEW i \in 1..Len(Sections), Unwritten(q, i)'
             PROVE  Absent(Sections[i], q)'
  BY DEF UnwrittenAbsent
<1> USE DEF Typed, ControlOK
<1>1. ASSUME NEW p \in Procs, p # q, Step(p) \/ Crash(p) PROVE Unwritten(q, i)
  BY <1>1, OthersStand DEF Unwritten
<1>2. ASSUME Begin(q) \/ TakeLock(q) \/ GoWithout(q) \/ SeeStale(q) \/ BreakLock(q)
      PROVE  Unwritten(q, i)
  BY <1>2 DEF Begin, TakeLock, GoWithout, SeeStale, BreakLock, Unwritten
<1>3. ASSUME Unlock(q) \/ Measure(q) \/ LoadBin(q) \/ Crash(q)
      PROVE  Unwritten(q, i)
  BY <1>3 DEF Unlock, Measure, LoadBin, Crash, Unwritten
<1>4. ASSUME LoadLog(q) \/ Install(q) \/ Truncate(q)
      PROVE  Unwritten(q, i)
  BY <1>4, AdvanceFacts DEF LoadLog, Install, Truncate, Unwritten
<1>5. AppendSection(q) => at'[q] = at[q] + 1 /\ pc'[q] = "appending" /\ pc[q] = "appending"
  BY AdvanceFacts DEF AppendSection, Unwritten
<1>6. ASSUME UNCHANGED vars PROVE Unwritten(q, i)
  BY <1>6 DEF vars, Unwritten
<1>7. Unwritten(q, i)
  BY <1>1, <1>2, <1>3, <1>4, <1>5, <1>6 DEF Next, Step, Over, Unwritten
<1>8. ~(AppendSection(q) /\ Here(q) = Sections[i])
  BY <1>5, HereFacts DEF Unwritten
<1> QED BY <1>7, <1>8, AbsentStays, SectionFacts DEF UnwrittenAbsent

\* Who appends a batch to a section finds nothing of it there.
LEMMA AppendsFirst ==
    ASSUME Typed, UnwrittenAbsent, NEW p \in Procs, AppendSection(p)
    PROVE  Absent(Here(p), p)
BY HereFacts DEF AppendSection, UnwrittenAbsent, Unwritten

LEMMA OnceStep == Typed /\ UnwrittenAbsent /\ OnceLogged /\ [Next]_vars => OnceLogged'
<1> SUFFICES ASSUME Typed, UnwrittenAbsent, OnceLogged, [Next]_vars,
                    NEW s \in Section, NEW q \in Procs
             PROVE  \A i, j \in 1..Len(log'[s]) : log'[s][i] = q /\ log'[s][j] = q => i = j
  BY DEF OnceLogged
<1>1. CASE log'[s] = log[s] \/ log'[s] = <<>>
  BY <1>1 DEF OnceLogged
<1>2. ASSUME NEW p \in Procs, AppendSection(p), s = Here(p), NEW x \in {p, Torn},
             log'[s] = Append(log[s], x)
      PROVE  \A i, j \in 1..Len(log'[s]) : log'[s][i] = q /\ log'[s][j] = q => i = j
  <2>1. log[s] \in Seq(Procs \cup {Torn}) /\ x \in Procs \cup {Torn}
    BY DEF Typed, LogOK
  <2>2. /\ Len(log[s]) \in Nat /\ Len(log'[s]) = Len(log[s]) + 1 /\ log'[s][Len(log[s]) + 1] = x
        /\ \A i \in 1..Len(log[s]) : log'[s][i] = log[s][i]
    BY <1>2, <2>1, AppendedFacts
  <2>3. x = q => \A i \in 1..Len(log[s]) : log[s][i] # q
    BY <1>2, AppendsFirst, ConstantsAssumption DEF Absent, InLog
  <2>4. \A i, j \in 1..Len(log[s]) : log[s][i] = q /\ log[s][j] = q => i = j
    BY DEF OnceLogged
  <2>5. \A i \in 1..Len(log'[s]) : i \in 1..Len(log[s]) \/ i = Len(log[s]) + 1
    BY <2>2
  <2> QED BY <2>2, <2>3, <2>4, <2>5
<1>3. ASSUME NEW p \in Procs, AppendSection(p)
      PROVE  \A i, j \in 1..Len(log'[s]) : log'[s][i] = q /\ log'[s][j] = q => i = j
  BY <1>1, <1>2, <1>3, AppendDoes
<1>4. ASSUME NEW p \in Procs, Truncate(p) PROVE log'[s] = log[s] \/ log'[s] = <<>>
  BY <1>4 DEF Truncate, Typed, LogOK
<1>5. ASSUME NEW p \in Procs, Step(p) \/ Crash(p), ~AppendSection(p), ~Truncate(p) PROVE log' = log
  BY <1>5 DEF Step, Begin, TakeLock, GoWithout, SeeStale, BreakLock, Unlock, Measure, LoadBin,
     LoadLog, Install, Crash, disk
<1> QED BY <1>1, <1>3, <1>4, <1>5 DEF Next, Over, vars

\* What the disk counts of a batch is a number.
Countable ==
    \A s \in Section, q \in Procs :
        /\ bin[s][q] \in Nat /\ Logged(s, q) \in 0..1 /\ replays[s] \in Nat
        /\ \A p \in Procs : snap[p][s][q] \in Nat

LEMMA AmountTyped == Typed /\ OnceLogged => Countable
<1> SUFFICES ASSUME Typed, OnceLogged, NEW s \in Section, NEW q \in Procs
             PROVE  /\ bin[s][q] \in Nat /\ Logged(s, q) \in 0..1 /\ replays[s] \in Nat
                    /\ \A p \in Procs : snap[p][s][q] \in Nat
  BY DEF Countable
<1>1. \A i, j \in 1..Len(log[s]) : log[s][i] = q /\ log[s][j] = q => i = j
  BY DEF OnceLogged
<1>2. Logged(s, q) \in Nat /\ Logged(s, q) <= 1
  BY <1>1, LoggedBounds DEF Typed
<1>3. bin[s][q] \in Nat /\ replays[s] \in Nat
  BY DEF Typed, BinOK, HistoryOK
<1>4. \A p \in Procs : snap[p][s][q] \in Nat
  BY DEF Typed, SnapOK
<1> QED BY <1>2, <1>3, <1>4

LEMMA WithinStep ==
    ASSUME CountInv, [Next]_vars, ~lapsed', NEW i \in 1..Len(Sections), AddsUp(i)'
    PROVE  WithinReplays(i)'
<1> DEFINE s == Sections[i]
<1>0. /\ Typed /\ Locked /\ AtStart /\ UnwrittenAbsent /\ OnceLogged /\ Bounded
      /\ s \in Section /\ ~lapsed /\ AddsUp(i) /\ Typed' /\ OnceLogged'
  BY TypeStep, OnceStep, HistoryGrows, SectionFacts DEF CountInv, Inv, AddsUp
<1>1. WithinReplays(i) /\ \A p \in Procs : LoadsNoMore(p, i)
  BY <1>0 DEF Bounded
<1>2. \A q \in Procs : /\ bin[s][q] \in Nat /\ Logged(s, q) \in 0..1 /\ replays[s] \in Nat
                       /\ bin'[s][q] \in Nat /\ Logged(s, q)' \in 0..1 /\ replays'[s] \in Nat
  <2>1. Countable
    BY <1>0, AmountTyped
  <2>2. Countable'
    BY <1>0, AmountTyped, PTL
  <2> QED BY <1>0, <2>1, <2>2 DEF Countable
<1>3. ASSUME bin'[s] = bin[s], log'[s] = log[s], replays'[s] = replays[s],
             \A p \in Procs : Truncates(p, i) <=> Truncates(p, i)'
      PROVE  WithinReplays(i)'
  BY <1>1, <1>3 DEF WithinReplays, Amount, Logged
<1>4. ASSUME NEW p \in Procs, Step(p) \/ Crash(p), Truncates(p, i) <=> Truncates(p, i)'
      PROVE  \A z \in Procs : Truncates(z, i) <=> Truncates(z, i)'
  BY <1>0, <1>4, OthersStand DEF Truncates
<1>5. ASSUME NEW p \in Procs, AppendSection(p) PROVE WithinReplays(i)'
  <2>1. bin' = bin /\ replays' = replays
    BY <1>0, <1>5, AppendDoes
  <2>2. Truncates(p, i) <=> Truncates(p, i)'
    BY <1>0, <1>5, AdvanceFacts DEF AppendSection, Truncates, Typed
  <2>3. Step(p)
    BY <1>5 DEF Step
  <2>4. \A z \in Procs : Truncates(z, i) <=> Truncates(z, i)'
    BY <1>4, <2>2, <2>3
  <2>5. CASE log'[s] = log[s]
    BY <1>3, <2>1, <2>4, <2>5
  <2>6. CASE s = Here(p) /\ log'[s] = Append(log[s], p)
    <3>1. Absent(s, p)
      BY <1>0, <1>5, <2>6, AppendsFirst
    <3>2. \A q \in Procs : q # p => Logged(s, q)' = Logged(s, q)
      BY <1>0, <2>6, LoggedKept DEF Typed
    <3>3. \A q \in Procs : q # p => Amount(s, q)' = Amount(s, q)
      BY <2>1, <3>2 DEF Amount
    <3>4. Amount(s, p)' <= 1 + replays[s]
      BY <1>2, <2>1, <3>1 DEF Absent, Amount
    <3> QED BY <1>1, <2>1, <2>4, <3>3, <3>4 DEF WithinReplays
  <2>7. Here(p) \notin damaged' \/ s # Here(p)
    BY <1>0 DEF AddsUp
  <2> QED BY <1>0, <1>5, <2>5, <2>6, <2>7, AppendDoes
<1>6. ASSUME NEW p \in Procs, Install(p) PROVE WithinReplays(i)'
  <2>1. /\ pc[p] = "installing" /\ log' = log /\ replays' = replays /\ Step(p)
        /\ at[p] \in 1..Len(Sections) /\ Here(p) = Sections[at[p]]
    BY <1>0, <1>6, HereFacts DEF Install, history, Step
  <2>2. CASE bin' = bin /\ Advance(p, "installing", "unlocking")
    <3>1. Truncates(p, i) <=> Truncates(p, i)'
      BY <1>0, <2>1, <2>2, AdvanceFacts DEF Truncates, Typed
    <3> QED BY <1>3, <1>4, <2>1, <2>2, <3>1
  <2>3. CASE /\ bin' = [bin EXCEPT ![Here(p)] = snap[p][Here(p)]]
             /\ pc' = [pc EXCEPT ![p] = "truncating"] /\ at' = at
    <3>1. pc'[p] = "truncating" /\ at'[p] = at[p]
      BY <1>0, <2>3 DEF Typed, ControlOK
    <3>2. CASE i = at[p]
      <4>1. \A z \in Procs : ~Truncates(z, i)
        BY <1>0, <2>1, Alone DEF Truncates
      <4>2. Truncates(p, i)'
        BY <3>1, <3>2 DEF Truncates
      <4>3. bin'[s] = snap[p][s]
        BY <1>0, <2>1, <2>3, <3>2 DEF Typed, BinOK
      <4>4. \A q \in Procs : snap[p][s][q] <= Amount(s, q)
        BY <1>1, <2>1, <3>2 DEF LoadsNoMore
      <4>5. \A q \in Procs : Amount(s, q) <= 1 + replays[s] /\ Amount(s, q) \in Nat
        BY <1>1, <1>2, <4>1 DEF WithinReplays, Amount
      <4>6. \A q \in Procs : bin'[s][q] <= 1 + replays[s]
        BY <1>2, <4>3, <4>4, <4>5
      <4> QED BY <2>1, <4>2, <4>6 DEF WithinReplays
    <3>3. CASE i # at[p]
      <4>1. bin'[s] = bin[s]
        BY <1>0, <2>3, <3>3, HereFacts DEF Typed, BinOK
      <4>2. Truncates(p, i) <=> Truncates(p, i)'
        BY <2>1, <3>1, <3>3 DEF Truncates
      <4> QED BY <1>3, <1>4, <2>1, <4>1, <4>2
    <3> QED BY <3>2, <3>3
  <2> QED BY <1>6, <2>2, <2>3 DEF Install
<1>7. ASSUME NEW p \in Procs, Truncate(p) \/ Crash(p), ~Truncates(p, i) PROVE WithinReplays(i)'
  <2>1. bin' = bin /\ log'[s] = log[s] /\ replays'[s] = replays[s]
    BY <1>0, <1>7, HereFacts DEF Truncate, Crash, disk, Truncates, Typed, LogOK, HistoryOK
  <2>2. ~Truncates(p, i)'
    BY <1>0, <1>7, AdvanceFacts DEF Truncate, Crash, Truncates, Typed, ControlOK
  <2>3. Step(p) \/ Crash(p)
    BY <1>7 DEF Step
  <2> QED BY <1>3, <1>4, <1>7, <2>1, <2>2, <2>3
<1>8. ASSUME NEW p \in Procs, Truncate(p) \/ Crash(p), Truncates(p, i) PROVE WithinReplays(i)'
  <2>1. i = at[p] /\ s = Here(p) /\ pc[p] = "truncating"
    BY <1>0, <1>8, HereFacts DEF Truncates
  <2>2. bin' = bin
    BY <1>8 DEF Truncate, Crash, disk
  <2>3. \/ log'[s] = <<>> /\ replays'[s] = replays[s]
        \/ log'[s] = log[s] /\ replays'[s] = replays[s] + 1
    BY <1>0, <1>8, <2>1 DEF Truncate, Crash, disk, Typed, LogOK, HistoryOK
  <2>4. log'[s] = <<>> => \A q \in Procs : Logged(s, q)' = 0
    <3>1. ASSUME log'[s] = <<>>, NEW q \in Procs PROVE Logged(s, q)' = 0
      <4>1. {j \in DOMAIN log'[s] : log'[s][j] = q /\ \A k \in 1 .. j : log'[s][k] # Torn} = {}
        BY <3>1
      <4> QED BY <4>1, FS_EmptySet DEF Logged
    <3> QED BY <3>1
  <2>5. log'[s] = log[s] => \A q \in Procs : Logged(s, q)' = Logged(s, q)
    BY DEF Logged
  <2>6. \A q \in Procs : bin[s][q] <= 1 + replays[s]
    BY <1>1 DEF WithinReplays
  <2>7. \A q \in Procs : bin'[s][q] <= 1 + replays'[s]
    BY <1>2, <2>2, <2>3, <2>6
  <2>8. \A q \in Procs : Amount(s, q)' <= 1 + replays'[s]
    BY <1>2, <2>2, <2>3, <2>4, <2>5, <2>6 DEF Amount
  <2> QED BY <2>7, <2>8 DEF WithinReplays
<1>9. ASSUME NEW p \in Procs, Step(p), ~AppendSection(p), ~Install(p), ~Truncate(p)
      PROVE  WithinReplays(i)'
  <2>1. bin' = bin /\ log' = log /\ replays' = replays
    BY <1>9 DEF Step, Begin, TakeLock, GoWithout, SeeStale, BreakLock, Unlock, Measure, LoadBin,
       LoadLog, disk, history
  <2>2. ~Truncates(p, i)
    BY <1>9 DEF Step, Begin, TakeLock, GoWithout, SeeStale, BreakLock, Unlock, Measure, LoadBin,
       LoadLog, Truncates
  <2>3. CASE LoadLog(p)
    <3>1. ~Truncates(p, i)'
      BY <1>0, <2>3, AdvanceFacts DEF LoadLog, Truncates, Typed
    <3> QED BY <1>3, <1>4, <1>9, <2>1, <2>2, <3>1
  <2>4. CASE ~LoadLog(p)
    <3>1. ~Truncates(p, i)'
      BY <1>0, <1>9, <2>4 DEF Step, Begin, TakeLock, GoWithout, SeeStale, BreakLock, Unlock, Measure,
         LoadBin, Truncates, Typed, ControlOK
    <3> QED BY <1>3, <1>4, <1>9, <2>1, <2>2, <3>1
  <2> QED BY <2>3, <2>4
<1>10. CASE UNCHANGED vars
  BY <1>3, <1>10 DEF vars, Truncates
<1> QED BY <1>5, <1>6, <1>7, <1>8, <1>9, <1>10 DEF Next, Over

\* Whoever does not compact has loaded nothing.
LEMMA IdleLoads ==
    ASSUME NEW p, NEW i, pc'[p] \notin {"loadBin", "loadLog", "installing", "truncating"}
    PROVE  LoadsNoMore(p, i)'
BY DEF LoadsNoMore

LEMMA StillLoads ==
    ASSUME NEW p \in Procs, NEW i, LoadsNoMore(p, i), pc'[p] = pc[p], at'[p] = at[p],
           snap'[p] = snap[p], bin' = bin, log' = log
    PROVE  LoadsNoMore(p, i)'
BY DEF LoadsNoMore, Amount, Logged

\* The others, when p takes a step.
LEMMA OthersLoad ==
    ASSUME Typed, Locked, ~lapsed, NEW p \in Procs, Step(p) \/ Crash(p),
           NEW q \in Procs, q # p, NEW i \in 1..Len(Sections), LoadsNoMore(q, i)
    PROVE  LoadsNoMore(q, i)'
<1>1. pc'[q] = pc[q] /\ at'[q] = at[q]
  BY OthersStand
<1>2. CASE pc[q] \notin Inside
  BY <1>1, <1>2, IdleLoads
<1>3. CASE pc[q] \in Inside
  <2>1. pc[p] \notin Inside
    BY <1>3, Alone
  <2>2. bin' = bin /\ log' = log /\ (snap' = snap \/ snap' = [snap EXCEPT ![p] = Nothing])
    BY <2>1 DEF Step, Begin, TakeLock, GoWithout, SeeStale, BreakLock, Unlock, AppendSection,
       Measure, LoadBin, LoadLog, Install, Truncate, Crash, disk
  <2>3. snap'[q] = snap[q]
    BY <2>2 DEF Typed, SnapOK
  <2> QED BY <1>1, <2>2, <2>3, StillLoads
<1> QED BY <1>2, <1>3

\* p has loaded no more of a section that adds up than the disk holds, after each of its steps.
LEMMA LoadsStep ==
    ASSUME Typed, AtStart, OnceLogged, NEW p \in Procs, LoadBin(p) \/ LoadLog(p) \/ Install(p) \/ Truncate(p),
           NEW i \in 1..Len(Sections), AddsUp(i), AddsUp(i)', LoadsNoMore(p, i)
    PROVE  LoadsNoMore(p, i)'
<1> DEFINE s == Sections[i]
<1>0. /\ s \in Section /\ s \notin damaged /\ s \notin damaged' /\ s # "names"
      /\ at[p] \in 1..Len(Sections) /\ Here(p) \in Section /\ SnapOK /\ BinOK /\ ControlOK
      /\ (Here(p) = s <=> i = at[p])
  BY HereFacts, SectionFacts DEF AddsUp, Typed
<1>1. \A q \in Procs : bin[s][q] \in Nat /\ Logged(s, q) \in Nat /\ Amount(s, q) = bin[s][q] + Logged(s, q)
  BY <1>0, AmountTyped DEF Countable, Amount
<1>2. CASE LoadBin(p)
  <2>1. /\ pc[p] = "loadBin" /\ pc'[p] = "loadLog" /\ at' = at /\ bin' = bin /\ log' = log
        /\ bin[Here(p)] \in [Procs -> Nat]
    BY <1>0, <1>2 DEF LoadBin, disk, ControlOK, BinOK
  <2>2. i = at[p] => snap' = [snap EXCEPT ![p][Here(p)] = bin[Here(p)]]
    BY <1>0, <1>2 DEF LoadBin
  <2>3. i = at[p] => snap'[p][s] = bin[s]
    BY <1>0, <2>1, <2>2, SnapUpdate
  <2>4. i # at[p] => snap'[p][s] = snap[p][s]
    BY <1>0, <1>2, <2>1, SnapUpdate DEF LoadBin
  <2>5. \A q \in Procs : Amount(s, q)' = Amount(s, q)
    BY <2>1 DEF Amount, Logged
  <2>6. \A q \in Procs : i < at[p] => snap[p][s][q] <= Amount(s, q)
    BY <2>1 DEF LoadsNoMore
  <2>7. \A q \in Procs : i < at[p] => snap'[p][s][q] <= Amount(s, q)'
    BY <1>0, <2>4, <2>5, <2>6
  <2>8. \A q \in Procs : i = at[p] => snap'[p][s][q] <= bin'[s][q]
    BY <1>1, <2>1, <2>3
  <2> QED BY <2>1, <2>7, <2>8 DEF LoadsNoMore
<1>3. CASE LoadLog(p)
  <2> DEFINE f == [z \in Procs |-> Merge(Here(p), snap[p][Here(p)][z], Logged(Here(p), z))]
  <2>1. /\ pc[p] = "loadLog" /\ bin' = bin /\ log' = log
        /\ Advance(p, "loadBin", "installing")
    BY <1>3 DEF LoadLog, disk
  <2>2. f \in [Procs -> Nat]
    <3>1. \A z \in Procs : snap[p][Here(p)][z] \in Nat /\ Logged(Here(p), z) \in Nat
      BY <1>0, LoggedFacts DEF SnapOK, Typed
    <3> QED BY <3>1, MergeFacts
  <2>3. i = at[p] => snap' = [snap EXCEPT ![p][Here(p)] = f]
    BY <1>0, <1>3 DEF LoadLog, SnapOK
  <2>4. snap' = snap \/ snap' = [snap EXCEPT ![p][Here(p)] = f]
    BY <1>0, <1>3 DEF LoadLog, SnapOK
  <2>5. \A q \in Procs : i = at[p] => f[q] <= Amount(s, q)
    <3>1. ASSUME NEW q \in Procs, i = at[p] PROVE f[q] <= Amount(s, q)
      <4>1. f[q] = snap[p][s][q] + Logged(s, q)
        BY <1>0, <3>1 DEF Merge
      <4>2. snap[p][s][q] <= bin[s][q] /\ snap[p][s][q] \in Nat
        BY <1>0, <2>1, <3>1 DEF LoadsNoMore, SnapOK
      <4> QED BY <1>1, <4>1, <4>2
    <3> QED BY <3>1
  <2> HIDE DEF f
  <2>6. i = at[p] => snap'[p][s] = f
    BY <1>0, <2>2, <2>3, SnapUpdate
  <2>7. i # at[p] => snap'[p][s] = snap[p][s]
    BY <1>0, <2>2, <2>4, SnapUpdate
  <2>8. \A q \in Procs : Amount(s, q)' = Amount(s, q)
    BY <2>1 DEF Amount, Logged
  <2>9. \A q \in Procs : i < at[p] => snap[p][s][q] <= Amount(s, q)
    BY <2>1 DEF LoadsNoMore
  <2>10. \A q \in Procs : i <= at[p] => snap'[p][s][q] <= Amount(s, q)'
    BY <1>0, <2>5, <2>6, <2>7, <2>8, <2>9
  <2>11. CASE pc'[p] = "loadBin" /\ at'[p] = at[p] + 1
    BY <1>0, <2>10, <2>11 DEF LoadsNoMore
  <2>12. CASE pc'[p] = "installing" /\ at[p] = Len(Sections)
    BY <1>0, <2>10, <2>12 DEF LoadsNoMore
  <2> QED BY <1>0, <2>1, <2>11, <2>12, AdvanceFacts
<1>4. CASE Install(p)
  <2>1. /\ pc[p] = "installing" /\ snap' = snap /\ log' = log
        /\ i # at[p] => bin'[s] = bin[s]
    BY <1>0, <1>4 DEF Install, BinOK
  <2>2. \A q \in Procs : i >= at[p] => snap'[p][s][q] <= Amount(s, q)
    BY <2>1 DEF LoadsNoMore
  <2>3. \A q \in Procs : i # at[p] => Amount(s, q)' = Amount(s, q)
    BY <2>1 DEF Amount, Logged
  <2>4. \A q \in Procs : i > at[p] => snap'[p][s][q] <= Amount(s, q)'
    BY <1>0, <2>2, <2>3
  <2>5. \/ pc'[p] = "truncating" /\ at'[p] = at[p]
        \/ pc'[p] = "installing" /\ at'[p] = at[p] + 1
        \/ pc'[p] = "unlocking"
    BY <1>0, <1>4, AdvanceFacts DEF Install, ControlOK
  <2>6. CASE pc'[p] = "truncating" /\ at'[p] = at[p]
    BY <2>4, <2>6 DEF LoadsNoMore
  <2>7. CASE pc'[p] = "installing" /\ at'[p] = at[p] + 1
    BY <1>0, <2>4, <2>7 DEF LoadsNoMore
  <2> QED BY <2>5, <2>6, <2>7, IdleLoads
<1>5. CASE Truncate(p)
  <2>1. /\ pc[p] = "truncating" /\ snap' = snap /\ bin' = bin
        /\ i # at[p] => log'[s] = log[s]
    BY <1>0, <1>5 DEF Truncate, Typed, LogOK
  <2>2. \A q \in Procs : i > at[p] => snap'[p][s][q] <= Amount(s, q)
    BY <2>1 DEF LoadsNoMore
  <2>3. \A q \in Procs : i # at[p] => Amount(s, q)' = Amount(s, q)
    BY <2>1 DEF Amount, Logged
  <2>4. \A q \in Procs : i > at[p] => snap'[p][s][q] <= Amount(s, q)'
    BY <1>0, <2>2, <2>3
  <2>5. (pc'[p] = "installing" /\ at'[p] = at[p] + 1) \/ pc'[p] = "unlocking"
    BY <1>0, <1>5, AdvanceFacts DEF Truncate
  <2>6. CASE pc'[p] = "installing" /\ at'[p] = at[p] + 1
    BY <1>0, <2>4, <2>6 DEF LoadsNoMore
  <2> QED BY <2>5, <2>6, IdleLoads
<1> QED BY <1>2, <1>3, <1>4, <1>5

LEMMA BoundedStep == CountInv /\ [Next]_vars => Bounded'
<1> SUFFICES ASSUME CountInv, [Next]_vars, ~lapsed', NEW i \in 1..Len(Sections), AddsUp(i)',
                    NEW q \in Procs
             PROVE  WithinReplays(i)' /\ LoadsNoMore(q, i)'
  <2>1. ASSUME NEW i \in 1..Len(Sections), CountInv, [Next]_vars, ~lapsed', AddsUp(i)'
        PROVE  WithinReplays(i)'
    BY <2>1, WithinStep
  <2> QED BY <2>1 DEF Bounded
<1>1. Typed /\ Locked /\ AtStart /\ OnceLogged /\ Bounded /\ ~lapsed /\ AddsUp(i)
  BY HistoryGrows DEF CountInv, Inv, AddsUp
<1>2. LoadsNoMore(q, i)
  BY <1>1 DEF Bounded
<1>3. ASSUME NEW p \in Procs, Step(p) \/ Crash(p), p # q PROVE LoadsNoMore(q, i)'
  BY <1>1, <1>2, <1>3, OthersLoad
<1>4. ASSUME Begin(q) \/ TakeLock(q) \/ GoWithout(q) \/ SeeStale(q) \/ BreakLock(q) \/ Unlock(q) \/ Crash(q)
      PROVE  LoadsNoMore(q, i)'
  <2>1. pc'[q] \in {"locking", "done", "appending", "breaking", "dead"}
    BY <1>1, <1>4 DEF Begin, TakeLock, GoWithout, SeeStale, BreakLock, Unlock, Crash, Typed, ControlOK
  <2> QED BY <2>1, IdleLoads
<1>5. ASSUME AppendSection(q) PROVE LoadsNoMore(q, i)'
  <2>1. pc'[q] \in {"appending", "measuring"}
    BY <1>1, <1>5, AdvanceFacts DEF AppendSection, Typed
  <2> QED BY <2>1, IdleLoads
<1>6. ASSUME Measure(q) PROVE LoadsNoMore(q, i)'
  <2>1. CASE pc'[q] = "loadBin" /\ at'[q] = 1
    BY <2>1 DEF LoadsNoMore
  <2>2. CASE pc'[q] = "unlocking"
    BY <2>2, IdleLoads
  <2> QED BY <1>1, <1>6, <2>1, <2>2 DEF Measure, AtStart, Typed, ControlOK
<1>7. ASSUME LoadBin(q) \/ LoadLog(q) \/ Install(q) \/ Truncate(q) PROVE LoadsNoMore(q, i)'
  BY <1>1, <1>2, <1>7, LoadsStep
<1>8. ASSUME UNCHANGED vars PROVE LoadsNoMore(q, i)'
  BY <1>2, <1>8, StillLoads DEF vars
<1>9. LoadsNoMore(q, i)'
  BY <1>3, <1>4, <1>5, <1>6, <1>7, <1>8 DEF Next, Step, Over
<1> QED BY <1>9, WithinStep

LEMMA InitCount == Init => CountInv
<1> SUFFICES ASSUME Init PROVE CountInv
  OBVIOUS
<1>1. Inv /\ LogOK
  BY InitInv DEF Inv, Typed
<1>2. \A s \in Section, q \in Procs :
         ~InLog(s, q) /\ bin[s][q] = 0 /\ (\A p \in Procs : snap[p][s][q] = 0) /\ replays[s] = 0
  BY DEF Init, Nothing, InLog
<1>3. UnwrittenAbsent /\ OnceLogged
  BY <1>2, SectionFacts DEF UnwrittenAbsent, Absent, OnceLogged, Init
<1>4. \A s \in Section, q \in Procs : Logged(s, q) = 0
  BY <1>1, <1>2, LoggedBounds
<1>5. \A p \in Procs : pc[p] = "idle"
  BY DEF Init
<1>6. Bounded
  BY <1>2, <1>4, <1>5, SectionFacts DEF Bounded, WithinReplays, LoadsNoMore, Amount
<1> QED BY <1>1, <1>3, <1>6 DEF CountInv

LEMMA CountHolds == Spec => []CountInv
<1>1. CountInv /\ [Next]_vars => Inv'
  BY TypeStep, LockStep, StartStep, ReportStep, WholeStep, SafeStep, CoveredStep DEF CountInv, Inv
<1>2. CountInv /\ [Next]_vars => CountInv'
  BY <1>1, UnwrittenStep, OnceStep, BoundedStep DEF CountInv, Inv
<1> QED BY <1>2, InitCount, PTL DEF Spec

\* A batch is counted again only for a compaction that was cut off between the new base file and
\* the empty log, once for each, and a name never: whatever is killed, and for any processes,
\* sections and threshold.
THEOREM ReplaysAreBounded == Spec => []ReplaysBounded
<1>1. ASSUME CountInv, NEW s \in Section \ damaged, NEW p \in Procs, ~lapsed,
             \A q \in Procs : ~(pc[q] = "truncating" /\ Here(q) = s)
      PROVE  Counted(s, p) <= 1 + (IF s = "names" THEN 0 ELSE replays[s])
  <2>1. Countable /\ bin[s][p] \in Nat /\ Logged(s, p) \in Nat
    BY <1>1, AmountTyped DEF CountInv, Inv, Countable
  <2>2. CASE s = "names"
    BY <2>1, <2>2 DEF Counted, Merge
  <2>3. CASE s # "names"
    <3>1. PICK i \in 1..Len(Sections) : s = Sections[i]
      BY SectionFacts
    <3>2. \A q \in Procs : ~Truncates(q, i)
      BY <1>1, <3>1 DEF Truncates, Here
    <3>3. WithinReplays(i)
      BY <1>1, <2>3, <3>1 DEF CountInv, Bounded, AddsUp
    <3>4. Amount(s, p) <= 1 + replays[s]
      BY <3>1, <3>2, <3>3 DEF WithinReplays
    <3> QED BY <2>3, <3>4 DEF Counted, Merge, Amount
  <2> QED BY <2>2, <2>3
<1>2. CountInv => ReplaysBounded
  BY <1>1 DEF ReplaysBounded
<1> QED BY <1>2, CountHolds, PTL
===============================================================================
