---------------------------- MODULE TestActionProofs ----------------------------
(***************************************************************************)
(* The result of every member of an action is right, for any batch, any    *)
(* budgets and whatever the attempts answer.  The argument: one run at a   *)
(* time, the batch or the member's rerun, is live for a member; what it    *)
(* knows of the member tells what the attempts saw (Knows), and a member   *)
(* that still fails has been given what its budget allowed (Paid).         *)
(***************************************************************************)
EXTENDS TestAction, FiniteSetTheorems, TLAPS

Live(x) == run[x].pc \in {"start", "sent"}

\* What the attempts so far say of a member.
Said(s) == IF "missing" \in s THEN "missing" ELSE IF "passed" \in s THEN "passed" ELSE "failed"

Tracks(best, s) == IF s = {} THEN best = NoObs ELSE best # NoObs /\ Class(best) = Said(s)

Fails(o) == o = NoObs \/ IsFailure(o.status)

\* What record r of a run knows of a member.
Knows(r, n) == Tracks(r.best[n], seen[n]) /\ r.attempts[n] = harness[n]

\* A member that still fails has had its attempts, or those that r counts.
Paid(r, n) ==
    Fails(r.best[n]) => spent[n] >= Allowed(n) \/ (n \in r.pending /\ spent[n] >= r.failure)

\* The budgets of a run.
Within(r) ==
    /\ r.execution = r.failure + r.timeouts
    /\ r.failure < MaxAllowed /\ r.timeouts < InfraMaxAttempts /\ r.infra < InfraMaxAttempts

\* An attempt waits for members that fail: for all of them, until a failure is counted.
Narrowed(x, r) ==
    /\ r.pending # {} /\ r.pending \subseteq StillFailing(x, r.best)
    /\ r.failure = 0 => r.pending = Expected(x)

\* A run in flight.
Flight(x) ==
    Live(x) =>
        /\ Narrowed(x, run[x]) /\ Within(run[x])
        /\ \A n \in Expected(x) : finished[n] = <<>> /\ Knows(run[x], n) /\ Paid(run[x], n)

\* A result that was returned.
Ended(n) ==
    finished[n] # <<>> =>
        /\ Len(finished[n]) = 1
        /\ Class(finished[n][1]) = IF seen[n] = {} THEN "missing" ELSE Said(seen[n])
        /\ finished[n][1].attempts = harness[n]
        /\ IsFailure(finished[n][1].status) =>
             spent[n] >= Allowed(n) \/ \E x \in {n, Batch} : run[x].timeouts = InfraMaxAttempts

\* Which run is live for a member.
Phases ==
    /\ run[Batch].pc # "idle"
    /\ \A n \in Members : run[n].pc # "isolating"
    /\ Live(Batch) => \A n \in Members : run[n].pc = "idle" /\ finished[n] = <<>>
    /\ \A n \in Members : run[n].pc # "idle" => n \in config.members /\ run[n].first >= 1
    /\ \A n \in Members : Live(n) => run[Batch].pc = "isolating"
    /\ ~Live(Batch) => \A n \in config.members : ~Live(n) => finished[n] # <<>>

\* What a run that ended, or that waits for its reruns, made of its budgets.
Bounded(x) == run[x].execution <= MaxAllowed + InfraMaxAttempts - 2 /\ run[x].infra < InfraMaxAttempts

\* Nobody was run before the attempt of index 0.
Fresh == run[Batch].pc = "start" /\ AttemptIndex(run[Batch]) = 0 => asked = {}

Typed ==
    /\ config \in Config /\ run \in [Runs -> Run]
    /\ finished \in [Members -> Seq([status : TestVerdict, integrity : Integrity, attempts : Nat])]
    /\ seen \in [Members -> SUBSET {"missing", "passed", "failed"}]
    /\ harness \in [Members -> Nat] /\ spent \in [Members -> Nat] /\ asked \subseteq Members

Inv ==
    /\ Typed /\ Phases /\ Fresh
    /\ \A x \in Runs : Flight(x) /\ Bounded(x)
    /\ \A n \in Members : Ended(n)

-------------------------------------------------------------------------------
(* Facts about the pure parts.                                               *)

LEMMA Constant ==
    /\ Runs = Members \cup {Batch} /\ Batch \notin Members /\ Members \subseteq Names
    /\ BaseAttempts \in Nat \ {0} /\ FlakyAttempts \in Nat /\ InfraMaxAttempts \in Nat \ {0}
    /\ MaxAllowed \in Nat \ {0}
    /\ \A n : Allowed(n) \in Nat /\ Allowed(n) <= MaxAllowed
    /\ NoObs \notin Obs
BY ConstantsAssumption DEF Runs, Names, MaxAllowed, Allowed, NoObs, Obs, TestVerdict, Integrity

\* One more observation is folded in, and said.
LEMMA MergeTracks ==
    ASSUME NEW b \in Obs \cup {NoObs}, NEW o \in Obs, NEW s, Tracks(b, s)
    PROVE  MergeBest(b, o) \in Obs /\ Tracks(MergeBest(b, o), s \cup {Class(o)})
<1>1. NoObs \notin Obs
  BY Constant
<1>2. CASE Missing(o)
  <2>1. MergeBest(b, o) = o /\ Class(o) = "missing"
    BY <1>2 DEF MergeBest, Class
  <2> QED BY <1>1, <2>1 DEF Tracks, Said
<1>3. CASE ~Missing(o) /\ b # NoObs /\ (Missing(b) \/ ~IsFailure(b.status))
  <2>1. MergeBest(b, o) = b /\ Class(b) \in {"missing", "passed"}
    BY <1>3 DEF MergeBest, Class
  <2>2. Class(o) # "missing" /\ s # {} /\ Class(b) = Said(s)
    BY <1>3 DEF Class, Tracks
  <2> QED BY <1>1, <1>3, <2>1, <2>2 DEF Tracks, Said
<1>4. CASE ~Missing(o) /\ (b = NoObs \/ (~Missing(b) /\ IsFailure(b.status)))
  <2>1. MergeBest(b, o) = o /\ Class(o) \in {"passed", "failed"}
    BY <1>4 DEF MergeBest, Class
  <2>2. s = {} \/ (s # {} /\ Said(s) = "failed")
    BY <1>4 DEF Tracks, Class
  <2>3. "missing" \notin s /\ "passed" \notin s
    BY <2>2 DEF Said
  <2>4. Class(o) = Said(s \cup {Class(o)})
    BY <2>1, <2>3 DEF Said
  <2> QED BY <1>1, <2>1, <2>4 DEF Tracks
<1> QED BY <1>2, <1>3, <1>4

\* A pass and a missing result are kept, and a failure does not undo a failure.
LEMMA MergeFails ==
    ASSUME NEW b \in Obs \cup {NoObs}, NEW o \in Obs, Fails(b), IsFailure(o.status)
    PROVE  Fails(MergeBest(b, o))
BY DEF MergeBest, Fails

\* StillFailing in terms of Fails.
LEMMA Failing ==
    ASSUME NEW x, NEW best
    PROVE  StillFailing(x, best) = {n \in Expected(x) : Fails(best[n])}
BY DEF StillFailing, Fails

\* The members of a run, and those of a rerun alone.
LEMMA ExpectedFacts ==
    ASSUME Typed, NEW x \in Runs
    PROVE  /\ Expected(x) \subseteq Members /\ Expected(x) # {}
           /\ x \in Members => Expected(x) = {x} /\ ~Batched(x)
           /\ Expected(Batch) = config.members
<1>1. config.members \subseteq Members /\ config.members # {}
  <2>1. config.members \in (SUBSET Members) \ {{}}
    BY DEF Typed, Config
  <2> QED BY <2>1
<1>2. x \in Members => Expected(x) = {x} /\ Cardinality(Expected(x)) = 1
  BY Constant, FS_Singleton DEF Expected
<1> QED BY <1>1, <1>2, Constant DEF Expected, Batched

LEMMA RunFacts ==
    ASSUME Typed, NEW x \in Runs
    PROVE  run[x] \in Run
BY DEF Typed

\* The result that a run makes of a member it knows.
LEMMA OutcomeFacts ==
    ASSUME NEW r \in Run, NEW n \in Members, NEW s, Tracks(r.best[n], s)
    PROVE  /\ Outcome(r, n) \in [status : TestVerdict, integrity : Integrity, attempts : Nat]
           /\ Class(Outcome(r, n)) = IF s = {} THEN "missing" ELSE Said(s)
           /\ Outcome(r, n).attempts = r.attempts[n]
           /\ IsFailure(Outcome(r, n).status) => Fails(r.best[n])
<1>1. r.best[n] \in Obs \cup {NoObs} /\ r.attempts[n] \in Nat
  BY Constant DEF Run
<1>2. CASE r.best[n] = NoObs
  <2>1. s = {}
    BY <1>2 DEF Tracks
  <2> QED BY <1>1, <1>2, <2>1 DEF Outcome, MissingObs, Class, Missing, TestVerdict, Integrity, Fails
<1>3. CASE r.best[n] # NoObs
  <2>1. s # {} /\ Class(r.best[n]) = Said(s) /\ r.best[n] \in Obs
    BY <1>1, <1>3 DEF Tracks
  <2> QED BY <1>1, <1>3, <2>1 DEF Outcome, Class, Missing, Fails, Obs
<1> QED BY <1>2, <1>3

-------------------------------------------------------------------------------
(* The tail of the loop.                                                     *)

\* An attempt of run x has been folded into r, and the histories say so.
Folded(x, r, actionTimeout) ==
    /\ r \in Run /\ config' = config /\ asked' = asked
    /\ r.pending = run[x].pending /\ r.failure = run[x].failure /\ r.timeouts = run[x].timeouts
    /\ r.execution = run[x].execution /\ r.infra = run[x].infra /\ r.first = run[x].first
    /\ seen' \in [Members -> SUBSET {"missing", "passed", "failed"}]
    /\ harness' \in [Members -> Nat] /\ spent' \in [Members -> Nat]
    /\ \A n \in Expected(x) : Tracks(r.best[n], seen'[n]) /\ r.attempts[n] = harness'[n]
    /\ \A n \in Expected(x) : n \notin r.pending => r.best[n] = run[x].best[n]
    /\ \A n \in Members : spent'[n] >= spent[n]
    /\ ~actionTimeout => \A n \in r.pending : spent'[n] >= MaxAllowed \/ spent'[n] >= spent[n] + 1
    /\ actionTimeout /\ r.failure = 0 => StillFailing(x, r.best) = Expected(x)
    /\ \A n \in Members \ Expected(x) :
         seen'[n] = seen[n] /\ harness'[n] = harness[n] /\ spent'[n] = spent[n]

\* Run x is not live for anybody else, and what concerns the others stays.
LEMMA OthersKeep ==
    ASSUME Inv, NEW x \in Runs, Live(x), config' = config,
           NEW rec \in Run, run' = [run EXCEPT ![x] = rec], rec.pc # "idle",
           x \in Members => rec.pc # "isolating",
           \A n \in Members \ Expected(x) :
             /\ seen'[n] = seen[n] /\ harness'[n] = harness[n] /\ spent'[n] = spent[n]
             /\ finished'[n] = finished[n]
    PROVE  /\ \A y \in Runs \ {x} : Flight(y)' /\ Bounded(y)'
           /\ \A n \in Members \ Expected(x) : Ended(n)'
<1> USE Constant
<1>1. Typed /\ Phases /\ Expected(x) \subseteq Members
  BY ExpectedFacts DEF Inv
<1>2. \A y \in Runs \ {x} : run'[y] = run[y]
  BY <1>1 DEF Typed
<1>3. \A y : Expected(y)' = Expected(y)
  BY DEF Expected
<1>4. ASSUME NEW y \in Runs \ {x}, Live(y) PROVE x \in Members /\ y \in Members
  <2>1. x # Batch
    BY <1>1, <1>4 DEF Phases, Live
  <2>2. run[Batch].pc = "isolating"
    BY <1>1, <2>1 DEF Phases
  <2> QED BY <1>4, <2>1, <2>2 DEF Live
<1>5. ASSUME NEW y \in Runs \ {x}, Live(y)' PROVE Flight(y)'
  <2>1. Live(y)
    BY <1>2, <1>5 DEF Live
  <2>2. x \in Members /\ y \in Members /\ Expected(y) = {y} /\ y \notin Expected(x)
    BY <1>1, <1>4, <2>1, ExpectedFacts
  <2>3. Flight(y)
    BY DEF Inv
  <2>4. Narrowed(y, run[y])' /\ Within(run[y])'
    BY <1>2, <1>3, <2>1, <2>3 DEF Flight, Narrowed, Within, StillFailing
  <2>5. finished'[y] = <<>> /\ Knows(run[y], y)' /\ Paid(run[y], y)'
    BY <1>2, <2>1, <2>2, <2>3 DEF Flight, Knows, Paid, Allowed
  <2> QED BY <1>3, <2>2, <2>4, <2>5 DEF Flight
<1>6. ASSUME NEW y \in Runs \ {x} PROVE Flight(y)' /\ Bounded(y)'
  <2>1. Bounded(y)
    BY DEF Inv
  <2>2. Bounded(y)'
    BY <1>2, <2>1 DEF Bounded
  <2>3. Flight(y)'
    BY <1>5, <1>6 DEF Flight
  <2> QED BY <2>2, <2>3
<1>7. ASSUME NEW n \in Members \ Expected(x) PROVE Ended(n)'
  <2>1. CASE finished[n] = <<>>
    BY <1>7, <2>1 DEF Ended
  <2>2. CASE finished[n] # <<>>
    <3>1. x # Batch /\ x # n
      BY <1>1, <1>7, <2>2, ExpectedFacts DEF Phases
    <3>2. run'[n] = run[n] /\ run'[Batch] = run[Batch]
      BY <1>2, <3>1
    <3>3. Ended(n)
      BY DEF Inv
    <3> QED BY <3>2, <3>3, <1>7 DEF Ended, Allowed
  <2> QED BY <2>1, <2>2
<1> QED BY <1>6, <1>7

\* What a live run is, spelled out.
LEMMA FlightFacts ==
    ASSUME Inv, NEW x \in Runs, Live(x)
    PROVE  /\ Typed /\ Phases /\ run[x] \in Run /\ run \in [Runs -> Run]
           /\ Narrowed(x, run[x]) /\ Within(run[x]) /\ Bounded(x)
           /\ run[x].failure \in Nat /\ run[x].timeouts \in Nat /\ run[x].execution \in Nat
           /\ run[x].infra \in Nat /\ run[x].first \in Nat /\ run[x].pending \subseteq Members
           /\ run[x].failure + run[x].timeouts <= MaxAllowed + InfraMaxAttempts - 2
           /\ \A n \in Expected(x) : finished[n] = <<>> /\ Knows(run[x], n) /\ Paid(run[x], n)
           /\ x # Batch => x \in Members /\ run[Batch].pc = "isolating" /\ run[x].first >= 1
           /\ x = Batch => \A n \in Members : run[n].pc = "idle" /\ finished[n] = <<>>
<1> USE Constant
<1>1. /\ Typed /\ Phases /\ run[x] \in Run /\ Flight(x) /\ run \in [Runs -> Run] /\ Bounded(x)
  BY DEF Inv, Typed
<1>2. /\ run[x].failure \in Nat /\ run[x].timeouts \in Nat /\ run[x].execution \in Nat
      /\ run[x].infra \in Nat /\ run[x].first \in Nat /\ run[x].pending \subseteq Members
  BY <1>1 DEF Run
<1>3. Within(run[x])
  BY <1>1 DEF Flight
<1>4. run[x].failure + run[x].timeouts <= MaxAllowed + InfraMaxAttempts - 2
  BY <1>2, <1>3 DEF Within
<1>5. /\ x # Batch => x \in Members /\ run[Batch].pc = "isolating" /\ run[x].first >= 1
      /\ x = Batch => \A n \in Members : run[n].pc = "idle" /\ finished[n] = <<>>
  BY <1>1 DEF Phases, Live
<1> QED BY <1>1, <1>2, <1>3, <1>4, <1>5 DEF Flight

\* What Deliver makes of the members in S, none of which had a result.
LEMMA DeliverFacts ==
    ASSUME Inv, NEW r \in Run, NEW S \in SUBSET Members, Deliver(r, S),
           seen' \in [Members -> SUBSET {"missing", "passed", "failed"}],
           \A n \in S : finished[n] = <<>> /\ Tracks(r.best[n], seen'[n])
    PROVE  /\ finished' \in [Members -> Seq([status : TestVerdict, integrity : Integrity, attempts : Nat])]
           /\ \A n \in S : /\ finished'[n] # <<>> /\ Len(finished'[n]) = 1
                           /\ finished'[n][1] = Outcome(r, n)
           /\ \A n \in Members \ S : finished'[n] = finished[n]
<1> DEFINE Result == [status : TestVerdict, integrity : Integrity, attempts : Nat]
<1>1. finished \in [Members -> Seq(Result)]
  BY DEF Inv, Typed
<1>2. \A n \in S : Outcome(r, n) \in Result
  BY OutcomeFacts
<1> HIDE DEF Result
<1>3. \A n \in S : finished'[n] = <<Outcome(r, n)>>
  <2>1. \A n \in S : finished'[n] = Append(<<>>, Outcome(r, n))
    BY <1>1 DEF Deliver
  <2>2. \A n \in S : Append(<<>>, Outcome(r, n)) = <<Outcome(r, n)>>
    OBVIOUS
  <2> QED BY <2>1, <2>2
<1>4. \A n \in Members \ S : finished'[n] = finished[n]
  BY <1>1 DEF Deliver
<1>5. \A n \in Members : finished'[n] \in Seq(Result)
  <2>1. \A n \in S : <<Outcome(r, n)>> \in Seq(Result)
    BY <1>2
  <2> QED BY <1>1, <1>3, <1>4, <2>1
<1>6. finished' \in [Members -> Seq(Result)]
  <2>1. finished' = [n \in Members |-> IF n \in S THEN Append(finished[n], Outcome(r, n)) ELSE finished[n]]
    BY DEF Deliver
  <2> QED BY <1>5, <2>1
<1>7. \A n \in S : finished'[n] # <<>> /\ Len(finished'[n]) = 1 /\ finished'[n][1] = Outcome(r, n)
  <2>1. \A n \in S : LET o == Outcome(r, n) IN <<o>> # <<>> /\ Len(<<o>>) = 1 /\ <<o>>[1] = o
    OBVIOUS
  <2> QED BY <1>3, <2>1
<1> QED BY <1>4, <1>6, <1>7 DEF Result

LEMMA ReturnInv ==
    ASSUME Inv, NEW x \in Runs, Live(x), NEW r, NEW t, Folded(x, r, t), NEW q \in Run,
           q.best = r.best, q.attempts = r.attempts, q.execution = r.execution,
           q.infra = r.infra, q.first = r.first,
           \A n \in Expected(x) :
             Fails(q.best[n]) => spent'[n] >= Allowed(n) \/ q.timeouts = InfraMaxAttempts,
           Return(x, q)
    PROVE  Inv'
<1> USE Constant
<1> DEFINE rec == [q EXCEPT !.pc = "done"]
<1>1. /\ rec \in Run /\ rec.pc = "done" /\ rec.first = run[x].first /\ rec.timeouts = q.timeouts
      /\ rec.execution = run[x].execution /\ rec.infra = run[x].infra
      /\ run' = [run EXCEPT ![x] = rec] /\ Deliver(q, Expected(x))
  BY DEF Return, Run, Folded
<1> HIDE DEF rec
<1>2. /\ Typed /\ Phases /\ Within(run[x]) /\ run \in [Runs -> Run]
      /\ Expected(x) \in SUBSET Members
  BY FlightFacts, ExpectedFacts
<1>3. run'[x] = rec /\ \A y \in Runs \ {x} : run'[y] = run[y]
  BY <1>1, <1>2
<1>4. /\ finished' \in [Members -> Seq([status : TestVerdict, integrity : Integrity, attempts : Nat])]
      /\ \A n \in Expected(x) : /\ finished'[n] # <<>> /\ Len(finished'[n]) = 1
                                /\ finished'[n][1] = Outcome(q, n)
      /\ \A n \in Members \ Expected(x) : finished'[n] = finished[n]
  <2>1. \A n \in Expected(x) : finished[n] = <<>> /\ Tracks(q.best[n], seen'[n])
    BY FlightFacts DEF Folded
  <2> QED BY <1>1, <1>2, <2>1, DeliverFacts DEF Folded
<1>5. Typed'
  BY <1>1, <1>2, <1>4 DEF Typed, Folded
<1>6. Phases'
  <2>1. config' = config
    BY DEF Folded
  <2>2. CASE x = Batch
    <3>1. \A n \in Members : run'[n].pc = "idle"
      BY <1>3, <2>2, FlightFacts
    <3>2. \A n \in config.members : finished'[n] # <<>>
      BY <1>2, <1>4, <2>2, ExpectedFacts
    <3> QED BY <1>1, <1>3, <2>1, <2>2, <3>1, <3>2 DEF Phases, Live
  <2>3. CASE x # Batch
    <3>1. /\ x \in Members /\ Expected(x) = {x} /\ run'[Batch] = run[Batch]
          /\ run[Batch].pc = "isolating"
      BY <1>2, <1>3, <2>3, FlightFacts, ExpectedFacts
    <3>2. \A n \in Members : n # x => run'[n] = run[n] /\ finished'[n] = finished[n]
      BY <1>3, <1>4, <3>1
    <3>3. finished'[x] # <<>> /\ run'[x].pc = "done" /\ run'[x].first = run[x].first
      BY <1>1, <1>3, <1>4, <3>1
    <3>4. \A n \in Members : run'[n].pc # "isolating" /\ (run'[n].pc # "idle" => n \in config.members /\ run'[n].first >= 1)
      <4>1. x \in config.members /\ run[x].first >= 1
        BY <1>2, <3>1 DEF Phases, Live
      <4> QED BY <1>2, <3>2, <3>3, <4>1 DEF Phases
    <3>5. \A n \in config.members : ~Live(n)' => finished'[n] # <<>>
      <4>1. config.members \subseteq Members
        BY <1>2, ExpectedFacts
      <4>2. \A n \in config.members : ~Live(n) => finished[n] # <<>>
        BY <1>2, <3>1 DEF Phases, Live
      <4> QED BY <3>2, <3>3, <4>1, <4>2 DEF Live
    <3> QED BY <2>1, <3>1, <3>4, <3>5 DEF Phases, Live
  <2> QED BY <2>2, <2>3
<1>7. Fresh' /\ Flight(x)' /\ Bounded(x)'
  <2>1. run'[x].pc = "done" /\ run'[Batch].pc # "start"
    BY <1>1, <1>3, FlightFacts
  <2>2. Bounded(x)'
    BY <1>1, <1>3, FlightFacts DEF Bounded
  <2> QED BY <2>1, <2>2 DEF Fresh, Flight, Live
<1>8. ASSUME NEW n \in Expected(x) PROVE Ended(n)'
  <2>1. n \in Members /\ x \in {n, Batch}
    BY <1>2, <1>8, ExpectedFacts
  <2>2. Tracks(q.best[n], seen'[n]) /\ q.attempts[n] = harness'[n]
    BY <1>8 DEF Folded
  <2>3. Len(finished'[n]) = 1 /\ finished'[n][1] = Outcome(q, n)
    BY <1>4, <1>8
  <2>4. Fails(q.best[n]) => spent'[n] >= Allowed(n) \/ run'[x].timeouts = InfraMaxAttempts
    BY <1>1, <1>3, <1>8
  <2>5. Allowed(n)' = Allowed(n)
    BY DEF Allowed, Folded
  <2>6. /\ Class(Outcome(q, n)) = IF seen'[n] = {} THEN "missing" ELSE Said(seen'[n])
        /\ Outcome(q, n).attempts = harness'[n]
        /\ IsFailure(Outcome(q, n).status) => Fails(q.best[n])
    BY <2>1, <2>2, OutcomeFacts, SMTT(30)
  <2> QED BY <2>1, <2>3, <2>4, <2>5, <2>6 DEF Ended
<1>9. /\ \A y \in Runs \ {x} : Flight(y)' /\ Bounded(y)'
      /\ \A n \in Members \ Expected(x) : Ended(n)'
  BY <1>1, <1>4, OthersKeep, ZenonT(40) DEF Folded
<1> QED BY <1>5, <1>6, <1>7, <1>8, <1>9 DEF Inv

\* A live run that stays live.
LEMMA LiveInv ==
    ASSUME Inv, NEW x \in Runs, Live(x), NEW rec \in Run, rec.pc \in {"start", "sent"},
           rec.first = run[x].first, run' = [run EXCEPT ![x] = rec],
           finished' = finished, config' = config, asked' \subseteq Members,
           seen' \in [Members -> SUBSET {"missing", "passed", "failed"}],
           harness' \in [Members -> Nat], spent' \in [Members -> Nat],
           \A n \in Members \ Expected(x) :
             seen'[n] = seen[n] /\ harness'[n] = harness[n] /\ spent'[n] = spent[n],
           Narrowed(x, rec), Within(rec), Fresh',
           \A n \in Expected(x) :
             /\ Tracks(rec.best[n], seen'[n]) /\ rec.attempts[n] = harness'[n]
             /\ Fails(rec.best[n]) =>
                  spent'[n] >= Allowed(n) \/ (n \in rec.pending /\ spent'[n] >= rec.failure)
    PROVE  Inv'
<1> USE Constant
<1>1. /\ Typed /\ Phases /\ run \in [Runs -> Run] /\ Expected(x) \in SUBSET Members
  BY FlightFacts, ExpectedFacts
<1>2. run'[x] = rec /\ \A y \in Runs \ {x} : run'[y] = run[y]
  BY <1>1
<1>3. Typed'
  <2>1. run' \in [Runs -> Run]
    BY <1>1
  <2> QED BY <1>1, <2>1 DEF Typed
<1>4. \A n \in Members : \A y \in {n, Batch} :
        /\ Live(y)' <=> Live(y)
        /\ run'[y].pc = "idle" <=> run[y].pc = "idle"
        /\ run'[y].pc = "isolating" <=> run[y].pc = "isolating"
        /\ run'[y].first = run[y].first
  BY <1>2 DEF Live
<1>5. Phases'
  <2>1. /\ run'[Batch].pc # "idle"
        /\ \A n \in Members : run'[n].pc # "isolating"
        /\ Live(Batch)' => \A n \in Members : run'[n].pc = "idle" /\ finished'[n] = <<>>
    BY <1>1, <1>2, <1>4 DEF Phases
  <2>2. /\ \A n \in Members : run'[n].pc # "idle" => n \in config.members /\ run'[n].first >= 1
        /\ \A n \in Members : Live(n)' => run'[Batch].pc = "isolating"
    BY <1>1, <1>4 DEF Phases
  <2>3. ~Live(Batch)' => \A n \in config.members : ~Live(n)' => finished'[n] # <<>>
    BY <1>1, <1>2, <1>4, ExpectedFacts DEF Phases, Live
  <2> QED BY <2>1, <2>2, <2>3 DEF Phases
<1>6. Flight(x)' /\ Bounded(x)'
  <2>1. Expected(x)' = Expected(x) /\ \A n : Allowed(n)' = Allowed(n)
    BY DEF Expected, Allowed
  <2>2. Narrowed(x, run[x])' /\ Within(run[x])'
    BY <1>2, <2>1 DEF Narrowed, Within, StillFailing
  <2>3. \A n \in Expected(x) : finished'[n] = <<>> /\ Knows(run[x], n)' /\ Paid(run[x], n)'
    BY <1>2, <2>1, FlightFacts DEF Knows, Paid
  <2>4. Bounded(x)'
    <3>1. /\ rec.failure \in Nat /\ rec.timeouts \in Nat /\ rec.execution = rec.failure + rec.timeouts
          /\ rec.failure < MaxAllowed /\ rec.timeouts < InfraMaxAttempts
          /\ rec.infra < InfraMaxAttempts
      BY DEF Run, Within
    <3> QED BY <1>2, <3>1 DEF Bounded
  <2> QED BY <2>1, <2>2, <2>3, <2>4 DEF Flight
<1>7. /\ \A y \in Runs \ {x} : Flight(y)' /\ Bounded(y)'
      /\ \A n \in Members \ Expected(x) : Ended(n)'
  BY OthersKeep
<1>8. \A n \in Expected(x) : Ended(n)'
  BY FlightFacts DEF Ended
<1> QED BY <1>3, <1>5, <1>6, <1>7, <1>8 DEF Inv

\* Another attempt.
LEMMA AgainInv ==
    ASSUME Inv, NEW x \in Runs, Live(x), NEW r, NEW t, Folded(x, r, t), NEW q \in Run, NEW P,
           q.best = r.best, q.attempts = r.attempts, q.execution = r.execution, q.first = r.first,
           q.failure + q.timeouts = r.failure + r.timeouts + 1,
           q.failure < MaxAllowed, q.timeouts < InfraMaxAttempts,
           P \subseteq StillFailing(x, q.best), P # {}, q.failure = 0 => P = Expected(x),
           \A n \in Expected(x) :
             Fails(q.best[n]) => spent'[n] >= Allowed(n) \/ (n \in P /\ spent'[n] >= q.failure),
           Again(x, q, P)
    PROVE  Inv'
<1> USE Constant
<1> DEFINE rec == [q EXCEPT !.pc = "start", !.infra = 0, !.pending = P, !.execution = @ + 1]
<1>0. /\ Typed /\ Phases /\ run \in [Runs -> Run] /\ Expected(x) \in SUBSET Members
      /\ run[x].execution = run[x].failure + run[x].timeouts /\ P \in SUBSET Members
      /\ run[x].execution \in Nat /\ run[x].first \in Nat
  BY FlightFacts, ExpectedFacts DEF Within, StillFailing
<1>1. /\ rec \in Run /\ rec.pc = "start" /\ rec.first = run[x].first /\ rec.pending = P
      /\ rec.best = r.best /\ rec.attempts = r.attempts /\ rec.failure = q.failure
      /\ rec.timeouts = q.timeouts /\ rec.infra = 0 /\ rec.execution = run[x].execution + 1
  <2>1. q.execution = run[x].execution /\ q.first = run[x].first
    BY DEF Folded
  <2>2. rec \in Run
    <3> DEFINE longer == [q EXCEPT !.execution = @ + 1]
    <3>1. q.execution + 1 \in Nat
      BY <1>0, <2>1
    <3>2. longer \in Run
      BY <3>1 DEF Run
    <3>3. rec = [longer EXCEPT !.pc = "start", !.infra = 0, !.pending = P]
      BY DEF Run
    <3> HIDE DEF longer, rec
    <3>4. [longer EXCEPT !.pc = "start", !.infra = 0, !.pending = P] \in Run
      BY <1>0, <3>2 DEF Run
    <3> QED BY <3>3, <3>4
  <2>3. /\ rec.pc = "start" /\ rec.first = q.first /\ rec.pending = P
        /\ rec.best = q.best /\ rec.attempts = q.attempts /\ rec.failure = q.failure
        /\ rec.timeouts = q.timeouts /\ rec.infra = 0 /\ rec.execution = q.execution + 1
    BY DEF Run
  <2> QED BY <2>1, <2>2, <2>3
<1>2. run' = [run EXCEPT ![x] = rec] /\ finished' = finished
  BY DEF Again
<1> HIDE DEF rec
<1>3. Narrowed(x, rec) /\ Within(rec)
  BY <1>0, <1>1 DEF Narrowed, Within, StillFailing, Folded
<1>4. Fresh'
  <2>1. x = Batch => run'[Batch].pc = "start" /\ AttemptIndex(run'[Batch]) # 0
    BY <1>0, <1>1, <1>2 DEF AttemptIndex
  <2>2. x # Batch => run'[Batch].pc # "start"
    BY <1>0, <1>2, FlightFacts
  <2> QED BY <2>1, <2>2 DEF Fresh, AttemptIndex
<1>5. /\ finished' = finished /\ config' = config /\ asked' \subseteq Members
      /\ seen' \in [Members -> SUBSET {"missing", "passed", "failed"}]
      /\ harness' \in [Members -> Nat] /\ spent' \in [Members -> Nat]
      /\ \A n \in Members \ Expected(x) :
           seen'[n] = seen[n] /\ harness'[n] = harness[n] /\ spent'[n] = spent[n]
      /\ \A n \in Expected(x) : Tracks(r.best[n], seen'[n]) /\ r.attempts[n] = harness'[n]
  BY <1>0, <1>2 DEF Folded, Typed
<1>6. \A n \in Expected(x) :
        /\ Tracks(rec.best[n], seen'[n]) /\ rec.attempts[n] = harness'[n]
        /\ Fails(rec.best[n]) =>
             spent'[n] >= Allowed(n) \/ (n \in rec.pending /\ spent'[n] >= rec.failure)
  BY <1>1, <1>5
<1>7. rec \in Run /\ rec.pc \in {"start", "sent"} /\ rec.first = run[x].first
  BY <1>1
<1> QED BY <1>2, <1>3, <1>4, <1>5, <1>6, <1>7, LiveInv

\* The failing members of a batch go to reruns of their own, the others are delivered.
LEMMA IsolateInv ==
    ASSUME Inv, Live(Batch), NEW r, NEW t, Folded(Batch, r, t), Isolate(Batch, r)
    PROVE  Inv'
<1> USE Constant
<1> DEFINE SF == StillFailing(Batch, r.best)
           rec == [r EXCEPT !.pc = "isolating"]
<1>1. /\ Typed /\ Phases /\ run \in [Runs -> Run] /\ Batch \in Runs
      /\ Expected(Batch) = config.members /\ config.members \subseteq Members
      /\ \A n \in Members : run[n].pc = "idle" /\ finished[n] = <<>>
  BY FlightFacts, ExpectedFacts
<1>2. /\ r \in Run /\ config' = config /\ r.first \in Nat /\ r.execution \in Nat
      /\ r.best \in [Names -> Obs \cup {NoObs}] /\ r.attempts \in [Members -> Nat]
      /\ seen' \in [Members -> SUBSET {"missing", "passed", "failed"}]
      /\ \A n \in config.members : Tracks(r.best[n], seen'[n]) /\ r.attempts[n] = harness'[n]
  BY <1>1 DEF Folded, Run
<1>3. SF = {n \in config.members : Fails(r.best[n])} /\ SF \subseteq Members
  BY <1>1, Failing
<1>4. rec \in Run /\ rec.pc = "isolating" /\ rec.execution = r.execution /\ rec.infra = r.infra
  BY <1>2 DEF Run
<1>5. ASSUME NEW n \in Members
      PROVE  /\ Rerun(r, n) \in Run /\ Rerun(r, n).pc = "start" /\ Rerun(r, n).first >= 1
             /\ Rerun(r, n).pending = {n} /\ Rerun(r, n).failure = 0
             /\ Rerun(r, n).timeouts = 0 /\ Rerun(r, n).execution = 0 /\ Rerun(r, n).infra = 0
             /\ Rerun(r, n).best[n] = r.best[n] /\ Rerun(r, n).attempts[n] = r.attempts[n]
  <2> DEFINE b == [Unknown EXCEPT ![n] = r.best[n]]
             a == [None EXCEPT ![n] = r.attempts[n]]
             f == r.first + r.execution + 1
  <2>1. b \in [Names -> Obs \cup {NoObs}] /\ b[n] = r.best[n]
    BY <1>2 DEF Unknown
  <2>2. a \in [Members -> Nat] /\ a[n] = r.attempts[n]
    BY <1>2 DEF None
  <2>3. f \in Nat /\ f >= 1
    BY <1>2
  <2>4. Expected(n) = {n} /\ Rerun(r, n) = Start(n, f, b, a)
    BY DEF Expected, Rerun
  <2> HIDE DEF b, a, f
  <2> QED BY <2>1, <2>2, <2>3, <2>4 DEF Start, Run
<1> HIDE DEF SF, rec
<1>6. /\ run'[Batch] = rec
      /\ \A n \in Members : run'[n] = IF n \in SF THEN Rerun(r, n) ELSE run[n]
      /\ run' \in [Runs -> Run]
  <2>1. run' = [y \in Runs |-> IF y = Batch THEN rec ELSE IF y \in SF THEN Rerun(r, y) ELSE run[y]]
    BY DEF Isolate, StartReruns, SF, rec
  <2>2. \A n \in Members : n \in Runs /\ n # Batch
    OBVIOUS
  <2>3. \A y \in Runs : run'[y] \in Run
    BY <1>1, <1>4, <1>5, <2>1, <2>2
  <2> QED BY <1>1, <2>1, <2>2, <2>3
<1>7. /\ finished' \in [Members -> Seq([status : TestVerdict, integrity : Integrity, attempts : Nat])]
      /\ \A n \in config.members \ SF : /\ finished'[n] # <<>> /\ Len(finished'[n]) = 1
                                        /\ finished'[n][1] = Outcome(r, n)
      /\ \A n \in Members \ (config.members \ SF) : finished'[n] = finished[n]
  <2>1. Deliver(r, config.members \ SF) /\ config.members \ SF \in SUBSET Members
    BY <1>1 DEF Isolate, SF
  <2>2. \A n \in config.members \ SF : finished[n] = <<>> /\ Tracks(r.best[n], seen'[n])
    BY <1>1, <1>2
  <2> QED BY <1>2, <2>1, <2>2, DeliverFacts
<1>8. Typed'
  BY <1>1, <1>6, <1>7 DEF Typed, Folded
<1>9. Phases'
  <2>1. /\ run'[Batch].pc = "isolating"
        /\ \A n \in Members : run'[n].pc = IF n \in SF THEN "start" ELSE "idle"
        /\ \A n \in SF : run'[n].first >= 1
    BY <1>1, <1>3, <1>4, <1>5, <1>6
  <2>2. \A n \in config.members : n \notin SF => finished'[n] # <<>>
    BY <1>7
  <2> QED BY <1>1, <1>2, <1>3, <2>1, <2>2 DEF Phases, Live
<1>10. Fresh'
  BY <1>4, <1>6 DEF Fresh
<1>11. ASSUME NEW y \in Runs PROVE Flight(y)' /\ Bounded(y)'
  <2>1. CASE y = Batch
    BY <1>1, <1>4, <1>6, <2>1, FlightFacts DEF Flight, Live, Bounded, Folded
  <2>2. CASE y \in SF
    <3>1. y \in Members /\ y \in config.members /\ Fails(r.best[y]) /\ run'[y] = Rerun(r, y)
      BY <1>3, <1>6, <2>2
    <3>2. Expected(y)' = {y}
      BY <3>1 DEF Expected
    <3>3. finished'[y] = <<>>
      BY <1>1, <1>7, <2>2, <3>1
    <3>4. Within(run[y])' /\ Bounded(y)'
      BY <1>5, <3>1 DEF Within, Bounded
    <3>5. Narrowed(y, run[y])'
      BY <1>5, <3>1, <3>2 DEF Narrowed, StillFailing, Fails
    <3>6. Knows(run[y], y)'
      BY <1>2, <1>5, <3>1 DEF Knows
    <3>7. Paid(run[y], y)'
      <4>1. spent'[y] \in Nat
        BY <3>1 DEF Folded
      <4> QED BY <1>5, <3>1, <4>1 DEF Paid
    <3> QED BY <3>2, <3>3, <3>4, <3>5, <3>6, <3>7 DEF Flight
  <2>3. CASE y # Batch /\ y \notin SF
    <3>1. y \in Members /\ run'[y] = run[y] /\ run[y].pc = "idle" /\ Bounded(y)
      BY <1>1, <1>6, <2>3 DEF Inv
    <3> QED BY <3>1 DEF Flight, Live, Bounded
  <2> QED BY <2>1, <2>2, <2>3
<1>12. ASSUME NEW n \in Members PROVE Ended(n)'
  <2>1. CASE n \in config.members \ SF
    <3>1. Len(finished'[n]) = 1 /\ finished'[n][1] = Outcome(r, n) /\ ~Fails(r.best[n])
      BY <1>3, <1>7, <2>1
    <3>2. Tracks(r.best[n], seen'[n]) /\ r.attempts[n] = harness'[n]
      BY <1>2, <2>1
    <3>3. /\ Class(Outcome(r, n)) = IF seen'[n] = {} THEN "missing" ELSE Said(seen'[n])
          /\ Outcome(r, n).attempts = harness'[n] /\ ~IsFailure(Outcome(r, n).status)
      BY <1>2, <3>1, <3>2, OutcomeFacts
    <3> QED BY <3>1, <3>3 DEF Ended
  <2>2. CASE n \notin config.members \ SF
    BY <1>1, <1>7, <2>2 DEF Ended
  <2> QED BY <2>1, <2>2
<1> QED BY <1>8, <1>9, <1>10, <1>11, <1>12 DEF Inv

\* Whatever follows an attempt, once it is folded in.
LEMMA AfterInv ==
    ASSUME Inv, NEW x \in Runs, Live(x), NEW r, NEW t \in BOOLEAN, Folded(x, r, t), After(x, r, t)
    PROVE  Inv'
<1> USE Constant
<1> DEFINE SF == StillFailing(x, r.best)
<1>1. /\ Typed /\ Within(run[x]) /\ Narrowed(x, run[x]) /\ run[x] \in Run
      /\ r.failure = run[x].failure /\ r.timeouts = run[x].timeouts /\ r.pending = run[x].pending
      /\ r.failure \in Nat /\ r.timeouts \in Nat /\ r \in Run
      /\ r.failure < MaxAllowed /\ r.timeouts < InfraMaxAttempts
      /\ Expected(x) \subseteq Members
  BY FlightFacts, ExpectedFacts DEF Folded, Within
<1>2. SF = {n \in Expected(x) : Fails(r.best[n])}
  BY Failing
<1>3. ASSUME NEW n \in Expected(x), Fails(r.best[n])
      PROVE  /\ spent'[n] >= Allowed(n) \/ (n \in r.pending /\ spent'[n] >= r.failure)
             /\ ~t => spent'[n] >= Allowed(n) \/ (n \in r.pending /\ spent'[n] >= r.failure + 1)
  <2>1. /\ n \in Members /\ Paid(run[x], n) /\ spent'[n] >= spent[n]
        /\ Allowed(n) \in Nat /\ Allowed(n) <= MaxAllowed
    BY <1>1, <1>3, FlightFacts DEF Folded
  <2>2. spent[n] \in Nat /\ spent'[n] \in Nat
    BY <1>1, <2>1 DEF Folded, Typed
  <2>3. CASE n \notin r.pending
    <3>1. r.best[n] = run[x].best[n]
      BY <1>3, <2>3 DEF Folded
    <3>2. spent[n] >= Allowed(n)
      BY <1>1, <1>3, <2>1, <2>3, <3>1 DEF Paid
    <3> QED BY <2>1, <2>2, <3>2
  <2>4. CASE n \in r.pending
    <3>1. Fails(run[x].best[n])
      BY <1>1, <2>4, Failing DEF Narrowed
    <3>2. spent[n] >= Allowed(n) \/ spent[n] >= r.failure
      BY <1>1, <2>1, <3>1 DEF Paid
    <3>3. ~t => spent'[n] >= MaxAllowed \/ spent'[n] >= spent[n] + 1
      BY <2>4 DEF Folded
    <3> QED BY <1>1, <2>1, <2>2, <2>4, <3>2, <3>3
  <2> QED BY <2>3, <2>4
<1>4. SUFFICES ASSUME SF # {} PROVE Inv'
  <2>1. CASE SF = {}
    <3>1. Return(x, r)
      BY <2>1 DEF After
    <3>2. \A n \in Expected(x) : ~Fails(r.best[n])
      BY <1>2, <2>1
    <3> QED BY <1>1, <3>1, <3>2, ReturnInv
  <2> QED BY <2>1
<1>5. CASE t
  <2> DEFINE q == [r EXCEPT !.timeouts = @ + 1]
  <2>1. /\ q \in Run /\ q.best = r.best /\ q.attempts = r.attempts /\ q.execution = r.execution
        /\ q.infra = r.infra /\ q.first = r.first /\ q.failure = r.failure
        /\ q.timeouts = r.timeouts + 1
    <3>1. r.timeouts + 1 \in Nat
      BY <1>1
    <3> QED BY <1>1, <3>1 DEF Run
  <2>2. AfterTimeout(x, r)
    BY <1>4, <1>5 DEF After
  <2>3. CASE r.timeouts + 1 < InfraMaxAttempts
    <3>1. Again(x, q, SF)
      BY <2>2, <2>3 DEF AfterTimeout
    <3>2. r.failure = 0 => SF = Expected(x)
      BY <1>1, <1>5 DEF Folded
    <3>3. \A n \in Expected(x) : Fails(q.best[n]) =>
            spent'[n] >= Allowed(n) \/ (n \in SF /\ spent'[n] >= q.failure)
      BY <1>2, <1>3, <2>1
    <3>4. q.failure + q.timeouts = r.failure + r.timeouts + 1
      BY <1>1, <2>1
    <3>5. /\ SF \subseteq StillFailing(x, q.best) /\ (q.failure = 0 => SF = Expected(x))
          /\ q.failure < MaxAllowed /\ q.timeouts < InfraMaxAttempts
      BY <1>1, <2>1, <2>3, <3>2
    <3> HIDE DEF q, SF
    <3> QED BY <1>4, <2>1, <3>1, <3>3, <3>4, <3>5, AgainInv
  <2>4. CASE ~(r.timeouts + 1 < InfraMaxAttempts)
    <3>1. Return(x, q)
      BY <2>2, <2>4 DEF AfterTimeout
    <3>2. q.timeouts = InfraMaxAttempts
      BY <1>1, <2>1, <2>4
    <3> HIDE DEF q, SF
    <3> QED BY <2>1, <3>1, <3>2, ReturnInv
  <2> QED BY <2>3, <2>4
<1>6. CASE ~t
  <2>1. AfterFailure(x, r)
    BY <1>4, <1>6 DEF After
  <2>2. Retryable(x, r) = {n \in SF : r.failure + 1 < Allowed(n)}
    BY DEF Retryable
  <2>3. ASSUME NEW n \in Expected(x), Fails(r.best[n]), n \notin Retryable(x, r)
        PROVE  spent'[n] >= Allowed(n)
    <3>1. r.failure + 1 >= Allowed(n) /\ Allowed(n) \in Nat /\ spent'[n] \in Nat
      BY <1>1, <1>2, <2>2, <2>3 DEF Folded
    <3>2. spent'[n] >= Allowed(n) \/ spent'[n] >= r.failure + 1
      BY <1>3, <1>6, <2>3
    <3> QED BY <1>1, <3>1, <3>2
  <2>4. CASE Retryable(x, r) # {}
    <3> DEFINE q == [r EXCEPT !.failure = @ + 1]
               P == Retryable(x, r)
    <3>1. /\ q \in Run /\ q.best = r.best /\ q.attempts = r.attempts /\ q.execution = r.execution
          /\ q.infra = r.infra /\ q.first = r.first /\ q.failure = r.failure + 1
          /\ q.timeouts = r.timeouts
      <4>1. r.failure + 1 \in Nat
        BY <1>1
      <4> QED BY <1>1, <4>1 DEF Run
    <3>2. Again(x, q, P) /\ P # {}
      BY <2>1, <2>4 DEF AfterFailure
    <3>3. PICK m \in P : r.failure + 1 < Allowed(m)
      BY <2>2, <3>2
    <3>4. q.failure < MaxAllowed /\ q.timeouts < InfraMaxAttempts /\ q.failure # 0
      BY <1>1, <3>1, <3>3
    <3>5. q.failure + q.timeouts = r.failure + r.timeouts + 1
      BY <1>1, <3>1
    <3>6. P \subseteq StillFailing(x, q.best)
      BY <2>2, <3>1
    <3>7. \A n \in Expected(x) : Fails(q.best[n]) =>
            spent'[n] >= Allowed(n) \/ (n \in P /\ spent'[n] >= q.failure)
      BY <1>3, <1>6, <2>3, <3>1
    <3> HIDE DEF q, SF, P
    <3> QED BY <3>1, <3>2, <3>4, <3>5, <3>6, <3>7, AgainInv
  <2>5. CASE Retryable(x, r) = {} /\ Batched(x) /\ config.isolate
    <3>1. Isolate(x, r)
      BY <2>1, <2>5 DEF AfterFailure
    <3>2. x = Batch
      BY <1>1, <2>5, ExpectedFacts
    <3> QED BY <3>1, <3>2, IsolateInv
  <2>6. CASE Retryable(x, r) = {} /\ ~(Batched(x) /\ config.isolate)
    <3>1. Return(x, r)
      BY <2>1, <2>6 DEF AfterFailure
    <3>2. \A n \in Expected(x) :
            Fails(r.best[n]) => spent'[n] >= Allowed(n) \/ r.timeouts = InfraMaxAttempts
      BY <2>3, <2>6
    <3> QED BY <1>1, <3>1, <3>2, ReturnInv
  <2> QED BY <2>4, <2>5, <2>6
<1> QED BY <1>5, <1>6

-------------------------------------------------------------------------------
(* An attempt is folded in.                                                  *)

LEMMA SpendFacts ==
    ASSUME Typed, NEW S \in SUBSET Members, Spend(S)
    PROVE  /\ spent' \in [Members -> Nat]
           /\ \A n \in Members : spent'[n] >= spent[n]
           /\ \A n \in S : spent'[n] >= MaxAllowed \/ spent'[n] >= spent[n] + 1
           /\ \A n \in Members \ S : spent'[n] = spent[n]
<1>1. spent \in [Members -> Nat] /\ MaxAllowed \in Nat
  BY Constant DEF Typed
<1>2. \A n \in Members : spent'[n] = IF n \in S /\ spent[n] < MaxAllowed THEN spent[n] + 1 ELSE spent[n]
  BY DEF Spend
<1>3. spent' \in [Members -> Nat]
  BY <1>1, <1>2 DEF Spend
<1> QED BY <1>1, <1>2, <1>3

\* The attempt of run x observed incoming; r is the run with it folded in.
LEMMA FoldedFacts ==
    ASSUME Inv, NEW x \in Runs, Live(x), NEW incoming, NEW att \in [Members -> Nat], NEW t \in BOOLEAN,
           \A n \in DOMAIN incoming : incoming[n] \in Obs,
           \A n \in Members : n \in DOMAIN incoming => n \in run[x].pending,
           Witness(incoming), config' = config, asked' = asked,
           harness' \in [Members -> Nat], \A n \in Expected(x) : att[n] = harness'[n],
           \A n \in Members \ Expected(x) : harness'[n] = harness[n],
           Spend(run[x].pending) \/ (t /\ spent' = spent),
           t => \A n \in run[x].pending : n \in DOMAIN incoming /\ IsFailure(incoming[n].status),
           NEW r, r = [run[x] EXCEPT !.best = FoldBest(@, incoming), !.attempts = att]
    PROVE  Folded(x, r, t)
<1> USE Constant
<1>1. /\ Typed /\ run[x] \in Run /\ Narrowed(x, run[x]) /\ Expected(x) \in SUBSET Members
      /\ run[x].pending \in SUBSET Members /\ run[x].pending \subseteq Expected(x)
      /\ \A n \in Expected(x) : Knows(run[x], n)
  BY FlightFacts, ExpectedFacts DEF Narrowed, StillFailing
<1>2. run[x].best \in [Names -> Obs \cup {NoObs}]
  BY <1>1 DEF Run
<1> DEFINE b == FoldBest(run[x].best, incoming)
<1>3. \A n \in Names : b[n] = IF n \in DOMAIN incoming THEN MergeBest(run[x].best[n], incoming[n])
                                                       ELSE run[x].best[n]
  BY DEF FoldBest
<1>4. b \in [Names -> Obs \cup {NoObs}]
  <2>1. \A n \in Names : b[n] \in Obs \cup {NoObs}
    BY <1>2, <1>3 DEF MergeBest
  <2> QED BY <2>1 DEF FoldBest
<1> HIDE DEF b
<1>5. /\ r \in Run /\ r.best = b /\ r.attempts = att
      /\ r.pending = run[x].pending /\ r.failure = run[x].failure /\ r.timeouts = run[x].timeouts
      /\ r.execution = run[x].execution /\ r.infra = run[x].infra /\ r.first = run[x].first
  <2>1. r = [run[x] EXCEPT !.best = b, !.attempts = att]
    BY DEF b
  <2> QED BY <1>1, <1>4, <2>1 DEF Run
<1>6. /\ seen' \in [Members -> SUBSET {"missing", "passed", "failed"}]
      /\ \A n \in Members : seen'[n] = IF n \in DOMAIN incoming THEN seen[n] \cup {Class(incoming[n])}
                                                               ELSE seen[n]
  <2>1. \A o : Class(o) \in {"missing", "passed", "failed"}
    BY DEF Class
  <2>2. seen \in [Members -> SUBSET {"missing", "passed", "failed"}]
    BY <1>1 DEF Typed
  <2> QED BY <2>1, <2>2 DEF Witness
<1>7. ASSUME NEW n \in Expected(x) PROVE Tracks(b[n], seen'[n])
  <2>1. n \in Members /\ n \in Names /\ Tracks(run[x].best[n], seen[n]) /\ run[x].best[n] \in Obs \cup {NoObs}
    BY <1>1, <1>2, <1>7 DEF Knows
  <2>2. CASE n \in DOMAIN incoming
    BY <1>3, <1>6, <2>1, <2>2, MergeTracks
  <2>3. CASE n \notin DOMAIN incoming
    BY <1>3, <1>6, <2>1, <2>3
  <2> QED BY <2>2, <2>3
<1>8. \A n \in Expected(x) : n \notin run[x].pending => b[n] = run[x].best[n]
  BY <1>1, <1>3
<1>9. /\ spent' \in [Members -> Nat] /\ \A n \in Members : spent'[n] >= spent[n]
      /\ ~t => \A n \in run[x].pending : spent'[n] >= MaxAllowed \/ spent'[n] >= spent[n] + 1
      /\ \A n \in Members \ Expected(x) : spent'[n] = spent[n]
  <2>1. CASE Spend(run[x].pending)
    BY <1>1, <2>1, SpendFacts
  <2>2. CASE t /\ spent' = spent
    <3>1. spent \in [Members -> Nat]
      BY <1>1 DEF Typed
    <3>2. \A n \in Members : spent[n] >= spent[n]
      BY <3>1
    <3> QED BY <2>2, <3>1, <3>2
  <2> QED BY <2>1, <2>2
<1>10. ASSUME t, r.failure = 0 PROVE StillFailing(x, r.best) = Expected(x)
  <2>1. \A n \in Expected(x) : n \in DOMAIN incoming /\ IsFailure(incoming[n].status) /\ Fails(run[x].best[n])
    BY <1>1, <1>5, <1>10, Failing DEF Narrowed
  <2>2. \A n \in Expected(x) : Fails(b[n])
    <3>1. \A n \in Expected(x) : n \in Names /\ run[x].best[n] \in Obs \cup {NoObs} /\ incoming[n] \in Obs
      BY <1>1, <1>2, <2>1
    <3> QED BY <1>3, <2>1, <3>1, MergeFails
  <2> QED BY <1>5, <2>2, Failing
<1>11. \A n \in Members \ Expected(x) : seen'[n] = seen[n]
  BY <1>1, <1>6
<1> QED BY <1>5, <1>6, <1>7, <1>8, <1>9, <1>10, <1>11 DEF Folded

\* What is known of every live run before its attempt is folded in.
LEMMA LiveFacts ==
    ASSUME Inv, NEW x \in Runs, Live(x)
    PROVE  /\ run[x].attempts \in [Members -> Nat] /\ harness \in [Members -> Nat]
           /\ \A n \in Expected(x) : run[x].attempts[n] = harness[n]
           /\ run[x].pending \subseteq Expected(x) /\ Expected(x) \subseteq Members
           /\ Selection(x) = run[x].pending
<1>1. Typed /\ run[x] \in Run /\ Narrowed(x, run[x]) /\ \A n \in Expected(x) : Knows(run[x], n)
  BY FlightFacts
<1>2. run[x].attempts \in [Members -> Nat] /\ harness \in [Members -> Nat]
  BY <1>1 DEF Run, Typed
<1> QED BY <1>1, <1>2, ExpectedFacts DEF Narrowed, StillFailing, Selection, Knows

LEMMA IncompleteInv ==
    ASSUME Inv, NEW x \in Runs, Live(x), NEW status \in TestVerdict, Incomplete(x, status)
    PROVE  Inv'
<1> DEFINE incoming == [n \in run[x].pending |-> [status |-> status,
                                                  integrity |-> "MissingTerminalResult"]]
           r == [run[x] EXCEPT !.best = FoldBest(@, incoming)]
<1>1. /\ Witness(incoming) /\ Spend(run[x].pending) /\ After(x, r, FALSE)
      /\ config' = config /\ harness' = harness /\ asked' = asked
  BY DEF Incomplete
<1>2. /\ \A n \in DOMAIN incoming : incoming[n] \in Obs
      /\ \A n \in Members : n \in DOMAIN incoming => n \in run[x].pending
  BY DEF Obs, Integrity
<1>3. /\ run[x].attempts \in [Members -> Nat] /\ harness \in [Members -> Nat] /\ run[x] \in Run
      /\ \A n \in Expected(x) : run[x].attempts[n] = harness[n]
  BY LiveFacts, FlightFacts
<1> HIDE DEF incoming
<1>4. r = [run[x] EXCEPT !.best = FoldBest(@, incoming), !.attempts = run[x].attempts]
  BY <1>3 DEF Run
<1> HIDE DEF r
<1>5. Folded(x, r, FALSE)
  BY <1>1, <1>2, <1>3, <1>4, FoldedFacts
<1> QED BY <1>1, <1>5, AfterInv

LEMMA ActionTimesOutInv ==
    ASSUME Inv, NEW x \in Runs, ActionTimesOut(x)
    PROVE  Inv'
<1> DEFINE incoming == [n \in run[x].pending |-> [status |-> "Timeout", integrity |-> "Complete"]]
           r == [run[x] EXCEPT !.best = FoldBest(@, incoming)]
<1>1. /\ Witness(incoming) /\ spent' = spent /\ After(x, r, TRUE)
      /\ config' = config /\ harness' = harness /\ asked' = asked /\ Live(x)
  BY DEF ActionTimesOut, Live
<1>2. /\ \A n \in DOMAIN incoming : incoming[n] \in Obs
      /\ \A n \in Members : n \in DOMAIN incoming => n \in run[x].pending
      /\ \A n \in run[x].pending : n \in DOMAIN incoming /\ IsFailure(incoming[n].status)
  BY DEF Obs, Integrity, TestVerdict, IsFailure
<1>3. /\ run[x].attempts \in [Members -> Nat] /\ harness \in [Members -> Nat] /\ run[x] \in Run
      /\ \A n \in Expected(x) : run[x].attempts[n] = harness[n]
  BY <1>1, LiveFacts, FlightFacts
<1> HIDE DEF incoming
<1>4. r = [run[x] EXCEPT !.best = FoldBest(@, incoming), !.attempts = run[x].attempts]
  BY <1>3 DEF Run
<1> HIDE DEF r
<1>5. Folded(x, r, TRUE)
  BY <1>1, <1>2, <1>3, <1>4, FoldedFacts
<1> QED BY <1>1, <1>5, AfterInv

\* The harness reports members that were asked for, and nothing else of the members.
LEMMA FoldInv ==
    ASSUME Inv, NEW x \in Runs, Live(x), NEW obs, NEW raw \in ProcessOutcome,
           NEW oom \in BOOLEAN, NEW physical \in BOOLEAN,
           \A n \in DOMAIN obs : obs[n] \in TestVerdict,
           \A n \in Members : n \in DOMAIN obs => n \in run[x].pending,
           Fold(x, obs, raw, oom, physical)
    PROVE  Inv'
<1> DEFINE names == TestNames(run[x], obs)
           incoming == [n \in names |-> Observation(n, obs, raw, oom, Whole, Singleton(x, names))]
           recorded == IF physical /\ ~oom THEN names \cap DOMAIN obs ELSE {}
           att == Bump(run[x].attempts, recorded)
           r == [run[x] EXCEPT !.best = FoldBest(@, incoming), !.attempts = Bump(@, recorded)]
<1>1. /\ Witness(incoming) /\ Spend(run[x].pending) /\ After(x, r, FALSE)
      /\ config' = config /\ asked' = asked
      /\ harness' = IF physical /\ ~oom THEN Bump(harness, DOMAIN obs) ELSE harness
  BY DEF Fold
<1>2. /\ run[x].attempts \in [Members -> Nat] /\ harness \in [Members -> Nat] /\ run[x] \in Run
      /\ \A n \in Expected(x) : run[x].attempts[n] = harness[n]
      /\ run[x].pending \subseteq Expected(x) /\ Expected(x) \subseteq Members
  BY LiveFacts, FlightFacts
<1>3. \A n \in Members : n \in names => n \in run[x].pending
  BY DEF TestNames
<1>4. \A n \in DOMAIN incoming : incoming[n] \in Obs
  <2>1. AbsentNameVerdict(raw, Whole, Singleton(x, names)) \in TestVerdict
    BY DEF AbsentNameVerdict, ProcessOutcome, TestVerdict
  <2>2. ASSUME NEW n \in names PROVE Observation(n, obs, raw, oom, Whole, Singleton(x, names)) \in Obs
    <3> HIDE DEF names
    <3> QED BY <2>1 DEF Observation, Obs, TestVerdict, Integrity
  <2> QED BY <2>2
<1>5. /\ att \in [Members -> Nat] /\ harness' \in [Members -> Nat]
      /\ \A n \in Expected(x) : att[n] = harness'[n]
      /\ \A n \in Members \ Expected(x) : harness'[n] = harness[n]
  <2>1. \A n \in Members : n \in recorded <=> physical /\ ~oom /\ n \in DOMAIN obs
    BY DEF TestNames
  <2>2. \A n \in Members : /\ att[n] = IF n \in recorded THEN run[x].attempts[n] + 1 ELSE run[x].attempts[n]
                           /\ harness'[n] = IF physical /\ ~oom /\ n \in DOMAIN obs
                                            THEN harness[n] + 1 ELSE harness[n]
    BY <1>1 DEF Bump
  <2>3. att \in [Members -> Nat] /\ harness' \in [Members -> Nat]
    BY <1>1, <1>2 DEF Bump
  <2> QED BY <1>2, <2>1, <2>2, <2>3
<1>6. r = [run[x] EXCEPT !.best = FoldBest(@, incoming), !.attempts = att]
  BY <1>2 DEF Run
<1> HIDE DEF att, r
<1>7. \A n \in Members : n \in DOMAIN incoming => n \in run[x].pending
  BY <1>3
<1> HIDE DEF names, incoming, recorded
<1>8. Folded(x, r, FALSE)
  BY <1>1, <1>4, <1>5, <1>6, <1>7, FoldedFacts
<1> QED BY <1>1, <1>8, AfterInv

\* What the harness may report of the members.
LEMMA ReportFacts ==
    ASSUME Typed, NEW S \in SUBSET Members, NEW raw, NEW obs \in Reports(S, raw)
    PROVE  /\ \A n \in DOMAIN obs : obs[n] \in TestVerdict
           /\ \A n \in Members : n \in DOMAIN obs => n \in S
<1> DEFINE names == CASE config.kind = "listed"  -> S
                      [] config.kind = "doctest" -> Cases
                      [] config.kind = "binary"  -> {}
           verdicts == IF raw = "exit0" THEN {"Pass"} ELSE {"Pass", "Fail"}
<1>1. PICK T \in SUBSET names : obs \in [T -> verdicts]
  BY DEF Reports
<1>2. verdicts \subseteq TestVerdict
  BY DEF TestVerdict
<1>3. \A n \in Members : n \in names => n \in S
  BY ConstantsAssumption DEF Typed, Config
<1> HIDE DEF names, verdicts
<1> QED BY <1>1, <1>2, <1>3

-------------------------------------------------------------------------------
(* Every step.                                                               *)

LEMMA RequestInv ==
    ASSUME Inv, NEW x \in Runs, Request(x)
    PROVE  Inv'
<1> DEFINE c == CachingEnabled(config.cacheable, TRUE, FALSE, AttemptIndex(run[x]))
           rec == [run[x] EXCEPT !.pc = "sent", !.caching = c]
<1>1. Live(x)
  BY DEF Request, Live
<1>2. /\ Typed /\ run[x] \in Run /\ run \in [Runs -> Run]
      /\ Narrowed(x, run[x]) /\ Within(run[x])
      /\ \A n \in Expected(x) : Knows(run[x], n) /\ Paid(run[x], n)
  BY <1>1, FlightFacts
<1>3. c \in BOOLEAN
  BY <1>2 DEF CachingEnabled, Typed, Config
<1> HIDE DEF c
<1>4. /\ rec \in Run /\ rec.pc = "sent" /\ rec.first = run[x].first /\ rec.best = run[x].best
      /\ rec.pending = run[x].pending /\ rec.attempts = run[x].attempts
      /\ rec.failure = run[x].failure /\ rec.timeouts = run[x].timeouts
      /\ rec.execution = run[x].execution /\ rec.infra = run[x].infra
  BY <1>2, <1>3 DEF Run
<1>5. run' = [run EXCEPT ![x] = rec]
  BY <1>2 DEF Request, c
<1> HIDE DEF rec
<1>6. /\ finished' = finished /\ config' = config /\ seen' = seen /\ harness' = harness
      /\ spent' = spent /\ asked' = asked \cup Selection(x) /\ asked' \subseteq Members
  BY <1>1, <1>2, LiveFacts DEF Request, Typed
<1>7. Fresh'
  <2>1. CASE x = Batch
    BY <1>2, <1>4, <1>5, <2>1 DEF Fresh
  <2>2. CASE x # Batch
    BY <1>1, <1>2, <1>5, <2>2, FlightFacts DEF Fresh
  <2> QED BY <2>1, <2>2
<1>8. Narrowed(x, rec) /\ Within(rec)
  BY <1>2, <1>4 DEF Narrowed, Within
<1>9. /\ seen' \in [Members -> SUBSET {"missing", "passed", "failed"}]
      /\ harness' \in [Members -> Nat] /\ spent' \in [Members -> Nat]
  BY <1>2, <1>6 DEF Typed
<1>10. \A n \in Expected(x) :
         /\ Tracks(rec.best[n], seen'[n]) /\ rec.attempts[n] = harness'[n]
         /\ Fails(rec.best[n]) =>
              spent'[n] >= Allowed(n) \/ (n \in rec.pending /\ spent'[n] >= rec.failure)
  BY <1>2, <1>4, <1>6 DEF Knows, Paid
<1>11. \A n \in Members \ Expected(x) :
         seen'[n] = seen[n] /\ harness'[n] = harness[n] /\ spent'[n] = spent[n]
  BY <1>6
<1>12. rec \in Run /\ rec.pc \in {"start", "sent"} /\ rec.first = run[x].first
  BY <1>4
<1> QED BY <1>1, <1>5, <1>6, <1>7, <1>8, <1>9, <1>10, <1>11, <1>12, LiveInv

LEMMA QueueTimesOutInv ==
    ASSUME Inv, NEW x \in Runs, QueueTimesOut(x)
    PROVE  Inv'
<1> USE Constant
<1>1. Live(x)
  BY DEF QueueTimesOut, Live
<1>2. CASE ~(run[x].infra + 1 < InfraMaxAttempts)
  <2>1. Incomplete(x, "InfraFailure")
    BY <1>2 DEF QueueTimesOut
  <2> QED BY <1>1, <2>1, IncompleteInv DEF TestVerdict
<1>3. CASE run[x].infra + 1 < InfraMaxAttempts
  <2> DEFINE rec == [run[x] EXCEPT !.pc = "start", !.infra = @ + 1]
  <2>1. /\ Typed /\ run[x] \in Run /\ run \in [Runs -> Run]
        /\ Narrowed(x, run[x]) /\ Within(run[x])
        /\ run[x].infra \in Nat /\ run[x].execution \in Nat /\ run[x].first \in Nat
        /\ \A n \in Expected(x) : Knows(run[x], n) /\ Paid(run[x], n)
    BY <1>1, FlightFacts
  <2>2. run[x].infra + 1 \in Nat
    BY <2>1
  <2>3. /\ rec \in Run /\ rec.pc = "start" /\ rec.first = run[x].first /\ rec.best = run[x].best
        /\ rec.pending = run[x].pending /\ rec.attempts = run[x].attempts
        /\ rec.failure = run[x].failure /\ rec.timeouts = run[x].timeouts
        /\ rec.execution = run[x].execution /\ rec.infra = run[x].infra + 1
    BY <2>1, <2>2 DEF Run
  <2>4. run' = [run EXCEPT ![x] = rec]
    BY <1>3, <2>1 DEF QueueTimesOut
  <2> HIDE DEF rec
  <2>5. /\ finished' = finished /\ config' = config /\ seen' = seen /\ harness' = harness
        /\ spent' = spent /\ asked' = asked
    BY <1>3 DEF QueueTimesOut, history
  <2>6. Fresh'
    <3>1. CASE x = Batch
      <4>1. run'[Batch] = rec /\ AttemptIndex(rec) # 0
        BY <2>1, <2>3, <2>4, <3>1 DEF AttemptIndex
      <4> QED BY <4>1 DEF Fresh, AttemptIndex
    <3>2. CASE x # Batch
      BY <1>1, <2>1, <2>4, <3>2, FlightFacts DEF Fresh
    <3> QED BY <3>1, <3>2
  <2>7. Narrowed(x, rec) /\ Within(rec)
    BY <1>3, <2>1, <2>3 DEF Narrowed, Within
  <2>8. /\ seen' \in [Members -> SUBSET {"missing", "passed", "failed"}]
        /\ harness' \in [Members -> Nat] /\ spent' \in [Members -> Nat] /\ asked' \subseteq Members
    BY <2>1, <2>5 DEF Typed
  <2>9. \A n \in Expected(x) :
          /\ Tracks(rec.best[n], seen'[n]) /\ rec.attempts[n] = harness'[n]
          /\ Fails(rec.best[n]) =>
               spent'[n] >= Allowed(n) \/ (n \in rec.pending /\ spent'[n] >= rec.failure)
    BY <2>1, <2>3, <2>5 DEF Knows, Paid
  <2>10. \A n \in Members \ Expected(x) :
           seen'[n] = seen[n] /\ harness'[n] = harness[n] /\ spent'[n] = spent[n]
    BY <2>5
  <2>11. rec \in Run /\ rec.pc \in {"start", "sent"} /\ rec.first = run[x].first
    BY <2>3
  <2> QED BY <1>1, <2>4, <2>5, <2>6, <2>7, <2>8, <2>9, <2>10, <2>11, LiveInv
<1> QED BY <1>2, <1>3

LEMMA ObservedInv ==
    ASSUME Inv, NEW x \in Runs, Observed(x)
    PROVE  Inv'
<1>1. Live(x) /\ Typed
  BY DEF Observed, Live, Inv
<1>2. Selection(x) = run[x].pending /\ run[x].pending \in SUBSET Members
  BY <1>1, LiveFacts
<1>3. PICK raw \in ProcessOutcome, physical \in BOOLEAN :
        \E obs \in Reports(run[x].pending, raw) : Fold(x, obs, raw, FALSE, physical)
  BY <1>2 DEF Observed
<1>4. PICK obs \in Reports(run[x].pending, raw) : Fold(x, obs, raw, FALSE, physical)
  BY <1>3
<1>5. /\ \A n \in DOMAIN obs : obs[n] \in TestVerdict
      /\ \A n \in Members : n \in DOMAIN obs => n \in run[x].pending
  BY <1>1, <1>2, <1>4, ReportFacts
<1> QED BY <1>1, <1>4, <1>5, FoldInv

LEMMA OutOfMemoryInv ==
    ASSUME Inv, NEW x \in Runs, OutOfMemory(x)
    PROVE  Inv'
<1>1. Live(x) /\ Typed
  BY DEF OutOfMemory, Live, Inv
<1>2. Selection(x) = run[x].pending /\ run[x].pending \in SUBSET Members
  BY <1>1, LiveFacts
<1>3. PICK physical \in BOOLEAN, obs \in Reports(run[x].pending, "exitN") :
        Fold(x, obs, "exitN", TRUE, physical)
  BY <1>2 DEF OutOfMemory
<1> QED BY <1>1, <1>2, <1>3, ReportFacts, FoldInv, ZenonT(40) DEF ProcessOutcome

LEMMA LogicalFailureInv ==
    ASSUME Inv, NEW x \in Runs, LogicalFailure(x)
    PROVE  Inv'
<1>1. Live(x) /\ Typed
  BY DEF LogicalFailure, Live, Inv
<1>2. run[x].pending \in SUBSET Members
  BY <1>1, LiveFacts
<1>3. PICK physical \in BOOLEAN, v \in {"Timeout", "Fail"}, obs \in Reports({}, "exitN") :
        Fold(x, [n \in DOMAIN obs \cup run[x].pending |->
                   IF n \in run[x].pending THEN v ELSE obs[n]], "exitN", FALSE, physical)
  BY DEF LogicalFailure
<1> DEFINE both == [n \in DOMAIN obs \cup run[x].pending |-> IF n \in run[x].pending THEN v ELSE obs[n]]
<1>4. /\ \A n \in DOMAIN obs : obs[n] \in TestVerdict
      /\ \A n \in Members : n \notin DOMAIN obs
  BY <1>1, ReportFacts
<1>5. /\ \A n \in DOMAIN both : both[n] \in TestVerdict
      /\ \A n \in Members : n \in DOMAIN both => n \in run[x].pending
  BY <1>4 DEF TestVerdict
<1>6. Fold(x, both, "exitN", FALSE, physical)
  BY <1>3
<1> HIDE DEF both
<1> QED BY <1>1, <1>5, <1>6, FoldInv DEF ProcessOutcome

LEMMA JoinInv ==
    ASSUME Inv, JoinIsolated
    PROVE  Inv'
<1> DEFINE rec == [run[Batch] EXCEPT !.pc = "done"]
<1>1. /\ Typed /\ Phases /\ run \in [Runs -> Run] /\ Batch \in Runs /\ run[Batch] \in Run
      /\ \A n \in Members : run[n].pc \in {"idle", "done"} /\ n \in Runs /\ n # Batch
  BY Constant DEF Inv, Typed, JoinIsolated
<1>2. /\ rec \in Run /\ rec.pc = "done" /\ rec.timeouts = run[Batch].timeouts
      /\ rec.execution = run[Batch].execution /\ rec.infra = run[Batch].infra
  BY <1>1 DEF Run
<1> HIDE DEF rec
<1>3. run' = [run EXCEPT ![Batch] = rec]
  BY DEF JoinIsolated, rec
<1>4. /\ run'[Batch] = rec /\ run' \in [Runs -> Run]
      /\ \A n \in Members : run'[n] = run[n]
  BY <1>1, <1>2, <1>3
<1>5. UNCHANGED <<config, finished, seen, harness, asked, spent>>
  BY DEF JoinIsolated, history
<1>6. Typed'
  BY <1>1, <1>4, <1>5 DEF Typed
<1>7. Phases' /\ Fresh'
  <2>1. ~Live(Batch) /\ \A n \in Members : ~Live(n)
    BY <1>1 DEF Live, JoinIsolated
  <2>2. config.members \subseteq Members
    BY <1>1, ExpectedFacts
  <2>3. \A n \in config.members : finished[n] # <<>>
    BY <1>1, <2>1, <2>2 DEF Phases
  <2> QED BY <1>1, <1>2, <1>4, <1>5, <2>3 DEF Phases, Fresh, Live
<1>8. ASSUME NEW x \in Runs PROVE Flight(x)' /\ Bounded(x)'
  <2>1. ~Live(x)'
    BY <1>1, <1>2, <1>4, Constant DEF Live
  <2>2. Bounded(x)
    BY DEF Inv
  <2>3. run'[x].execution = run[x].execution /\ run'[x].infra = run[x].infra
    BY <1>2, <1>4, Constant
  <2> QED BY <2>1, <2>2, <2>3 DEF Flight, Bounded
<1>9. ASSUME NEW n \in Members PROVE Ended(n)'
  <2>1. Ended(n)
    BY DEF Inv
  <2>2. \A x \in {n, Batch} : run'[x].timeouts = run[x].timeouts
    BY <1>2, <1>4
  <2> QED BY <1>5, <2>1, <2>2 DEF Ended, Allowed
<1> QED BY <1>6, <1>7, <1>8, <1>9 DEF Inv

LEMMA StepInv ==
    ASSUME Inv, [Next]_vars
    PROVE  Inv'
<1>1. CASE UNCHANGED vars
  <2>1. /\ config' = config /\ run' = run /\ finished' = finished /\ seen' = seen
        /\ harness' = harness /\ asked' = asked /\ spent' = spent
    BY <1>1 DEF vars, history
  <2>2. Typed' /\ Phases' /\ Fresh'
    BY <2>1 DEF Inv, Typed, Phases, Fresh, Live, AttemptIndex
  <2>3. \A x \in Runs : Flight(x)' /\ Bounded(x)'
    BY <2>1 DEF Inv, Flight, Bounded, Live, Narrowed, Within, Knows, Paid, StillFailing, Expected, Allowed
  <2>4. \A n \in Members : Ended(n)'
    BY <2>1 DEF Inv, Ended, Allowed
  <2> QED BY <2>2, <2>3, <2>4 DEF Inv
<1>2. ASSUME NEW x \in Runs, Step(x) PROVE Inv'
  <2>1. CASE Request(x)
    BY <2>1, RequestInv
  <2>2. CASE OverridesConflict(x)
    BY <2>2, IncompleteInv DEF OverridesConflict, Live, TestVerdict
  <2>3. CASE GroupFails(x)
    BY <2>3, IncompleteInv DEF GroupFails, Live, TestVerdict
  <2>4. CASE QueueTimesOut(x)
    BY <2>4, QueueTimesOutInv
  <2>5. CASE ActionTimesOut(x)
    BY <2>5, ActionTimesOutInv
  <2>6. CASE Observed(x)
    BY <2>6, ObservedInv
  <2>7. CASE OutOfMemory(x)
    BY <2>7, OutOfMemoryInv
  <2>8. CASE LogicalFailure(x)
    BY <2>8, LogicalFailureInv
  <2> QED BY <1>2, <2>1, <2>2, <2>3, <2>4, <2>5, <2>6, <2>7, <2>8 DEF Step, Answer
<1> QED BY <1>1, <1>2, JoinInv DEF Next, Returned

LEMMA InitInv ==
    ASSUME Init
    PROVE  Inv
<1> USE Constant
<1> DEFINE s == Start(Batch, 0, Unknown, None)
<1>1. config \in Config /\ config.members \subseteq Members /\ config.members # {}
  <2>1. config \in Config
    BY ConstantsAssumption DEF Init
  <2>2. config.members \in (SUBSET Members) \ {{}}
    BY <2>1 DEF Config
  <2> QED BY <2>1, <2>2
<1>2. /\ s \in Run /\ s.pc = "start" /\ s.pending = config.members /\ s.failure = 0
      /\ s.timeouts = 0 /\ s.execution = 0 /\ s.infra = 0
      /\ \A n \in Members : s.best[n] = NoObs /\ s.attempts[n] = 0
  BY <1>1 DEF Start, Run, Expected, Unknown, None
<1>3. Idle \in Run /\ Idle.pc = "idle" /\ Idle.execution = 0 /\ Idle.infra = 0
  <2>1. Idle = [s EXCEPT !.pc = "idle", !.pending = {}]
    BY DEF Idle
  <2> HIDE DEF s
  <2> QED BY <1>2, <2>1 DEF Run
<1> HIDE DEF s
<1>4. /\ run \in [Runs -> Run] /\ run[Batch] = s
      /\ \A n \in Members : run[n] = Idle
  <2>1. run = [x \in Runs |-> IF x = Batch THEN s ELSE Idle]
    BY DEF Init, s
  <2> QED BY <1>2, <1>3, <2>1
<1>5. \A n \in Members : finished[n] = <<>> /\ seen[n] = {} /\ harness[n] = 0 /\ spent[n] = 0
  BY DEF Init, None
<1>6. Typed
  <2>1. <<>> \in Seq([status : TestVerdict, integrity : Integrity, attempts : Nat])
    OBVIOUS
  <2> QED BY <1>1, <1>4, <2>1 DEF Typed, Init, None
<1>7. Phases /\ Fresh
  BY <1>1, <1>2, <1>3, <1>4, <1>5 DEF Phases, Fresh, Live, Init
<1>8. Flight(Batch) /\ Bounded(Batch)
  <2>1. Expected(Batch) = config.members
    BY DEF Expected
  <2>2. Narrowed(Batch, run[Batch])
    BY <1>1, <1>2, <1>4, <2>1 DEF Narrowed, StillFailing
  <2>3. Within(run[Batch]) /\ Bounded(Batch)
    BY <1>2, <1>4 DEF Within, Bounded
  <2>4. \A n \in config.members : finished[n] = <<>> /\ Knows(run[Batch], n) /\ Paid(run[Batch], n)
    BY <1>1, <1>2, <1>4, <1>5 DEF Knows, Paid, Tracks
  <2> QED BY <2>1, <2>2, <2>3, <2>4 DEF Flight
<1>9. \A n \in Members : Flight(n) /\ Bounded(n) /\ Ended(n)
  BY <1>3, <1>4, <1>5 DEF Flight, Live, Bounded, Ended
<1> QED BY <1>6, <1>7, <1>8, <1>9 DEF Inv

LEMMA Invariant == Spec => []Inv
BY InitInv, StepInv, PTL DEF Spec

-------------------------------------------------------------------------------
(* What follows from the invariant.                                          *)

\* execute_test_action returns one result for each member it was given.
THEOREM OneResultForEach == Spec => []OneResultEach
<1>1. Inv => OneResultEach
  <2> SUFFICES ASSUME Inv PROVE OneResultEach
    OBVIOUS
  <2>1. ASSUME NEW n \in Members PROVE Len(finished[n]) <= 1
    <3>1. CASE finished[n] = <<>>
      <4>1. Len(<<>>) = 0
        OBVIOUS
      <4> QED BY <3>1, <4>1
    <3>2. CASE finished[n] # <<>>
      <4>1. Ended(n)
        BY DEF Inv
      <4>2. Len(finished[n]) = 1
        BY <3>2, <4>1 DEF Ended
      <4> QED BY <4>2
    <3> QED BY <3>1, <3>2
  <2>2. ASSUME run[Batch].pc = "done", NEW n \in config.members PROVE Len(finished[n]) = 1
    <3>1. Typed /\ Phases /\ n \in Members
      BY Constant, ExpectedFacts DEF Inv
    <3>2. ~Live(Batch) /\ ~Live(n)
      BY <2>2, <3>1 DEF Phases, Live
    <3>3. finished[n] # <<>>
      BY <3>1, <3>2 DEF Phases
    <3> QED BY <3>1, <3>3 DEF Inv, Ended
  <2> QED BY <2>1, <2>2 DEF OneResultEach
<1> QED BY <1>1, Invariant, PTL

\* The result says what the attempts at the member, all of them, said.
THEOREM ResultsAreFaithful == Spec => []FaithfulOutcome
<1>1. Inv => FaithfulOutcome
  BY DEF Inv, Ended, FaithfulOutcome, Said
<1> QED BY <1>1, Invariant, PTL

\* Each attempt that the harness reported is recorded once.
THEOREM ObservationsAreKept == Spec => []ObservationsKept
<1>1. Inv => ObservationsKept
  BY DEF Inv, Ended, ObservationsKept
<1> QED BY <1>1, Invariant, PTL

\* No member is reported failing before its budget is used up.
THEOREM BudgetIsUsedUp == Spec => []FullBudget
<1>1. Inv => FullBudget
  BY DEF Inv, Ended, FullBudget
<1> QED BY <1>1, Invariant, PTL

\* The command line of a request selects what the attempt waits for.
THEOREM RetriesAreNarrowed == Spec => []RetriesNarrowed
<1>1. Inv => RetriesNarrowed
  BY LiveFacts DEF RetriesNarrowed, Live
<1> QED BY <1>1, Invariant, PTL

\* The loop ends within its budgets.
THEOREM AttemptsAreBounded == Spec => []AttemptsBounded
<1>1. Inv => AttemptsBounded
  BY DEF Inv, Bounded, AttemptsBounded
<1> QED BY <1>1, Invariant, PTL

\* The fold of an attempt sends nothing.
LEMMA AfterSends ==
    ASSUME Typed, NEW x \in Runs, NEW r, "pc" \in DOMAIN r, NEW t, After(x, r, t)
    PROVE  \A y \in Runs : run'[y] = run[y] \/ run'[y].pc # "sent"
<1>1. run \in [Runs -> Run]
  BY DEF Typed
<1>2. ASSUME NEW q, "pc" \in DOMAIN q, Return(x, q)
      PROVE  \A y \in Runs : run'[y] = run[y] \/ run'[y].pc # "sent"
  BY <1>1, <1>2 DEF Return
<1>3. ASSUME NEW q, "pc" \in DOMAIN q, NEW P, Again(x, q, P)
      PROVE  \A y \in Runs : run'[y] = run[y] \/ run'[y].pc # "sent"
  <2> DEFINE rec == [q EXCEPT !.pc = "start", !.infra = 0, !.pending = P, !.execution = @ + 1]
  <2>1. rec.pc = "start"
    BY <1>3
  <2>2. run' = [run EXCEPT ![x] = rec]
    BY <1>3 DEF Again
  <2> HIDE DEF rec
  <2> QED BY <1>1, <2>1, <2>2
<1>4. ASSUME Isolate(x, r) PROVE \A y \in Runs : run'[y] = run[y] \/ run'[y].pc # "sent"
  <2>1. \A n : Rerun(r, n).pc = "start"
    BY DEF Rerun, Start
  <2>2. [r EXCEPT !.pc = "isolating"].pc = "isolating"
    OBVIOUS
  <2> QED BY <1>4, <2>1, <2>2 DEF Isolate, StartReruns
<1>5. "pc" \in DOMAIN [r EXCEPT !.timeouts = @ + 1] /\ "pc" \in DOMAIN [r EXCEPT !.failure = @ + 1]
  OBVIOUS
<1>6. CASE AfterTimeout(x, r)
  BY <1>2, <1>3, <1>5, <1>6 DEF AfterTimeout
<1>7. CASE AfterFailure(x, r)
  BY <1>2, <1>3, <1>4, <1>5, <1>7 DEF AfterFailure
<1>8. CASE Return(x, r)
  BY <1>2, <1>8
<1> QED BY <1>6, <1>7, <1>8 DEF After

\* A run leaves "start" for "sent" by its own request.
LEMMA OnlyRequestSends ==
    ASSUME Inv, [Next]_vars, NEW x \in Runs, run[x].pc = "start", run'[x].pc = "sent"
    PROVE  Request(x)
<1>1. Typed /\ run \in [Runs -> Run]
  BY DEF Inv, Typed
<1>2. CASE UNCHANGED vars
  BY <1>2 DEF vars
<1>3. CASE JoinIsolated
  <2>1. [run[Batch] EXCEPT !.pc = "done"].pc = "done"
    BY <1>1, Constant DEF Run
  <2>2. run' = [run EXCEPT ![Batch] = [run[Batch] EXCEPT !.pc = "done"]]
    BY <1>3 DEF JoinIsolated
  <2> QED BY <1>1, <2>1, <2>2
<1>4. ASSUME NEW y \in Runs, Step(y), ~Request(x) PROVE FALSE
  <2>1. "pc" \in DOMAIN run[y]
    BY <1>1 DEF Run
  <2>2. \A B, A : /\ "pc" \in DOMAIN [run[y] EXCEPT !.best = B]
                  /\ "pc" \in DOMAIN [run[y] EXCEPT !.best = B, !.attempts = A]
    BY <2>1
  <2>3. run'[x] # run[x]
    OBVIOUS
  <2>4. CASE Request(y)
    BY <1>1, <1>4, <2>3, <2>4 DEF Request
  <2>5. ASSUME NEW status, Incomplete(y, status) PROVE FALSE
    BY <1>1, <2>2, <2>3, <2>5, AfterSends DEF Incomplete
  <2>6. ASSUME NEW obs, NEW raw, NEW oom, NEW physical, Fold(y, obs, raw, oom, physical) PROVE FALSE
    BY <1>1, <2>2, <2>3, <2>6, AfterSends DEF Fold
  <2>7. CASE OverridesConflict(y) \/ GroupFails(y)
    BY <2>5, <2>7 DEF OverridesConflict, GroupFails
  <2>8. CASE QueueTimesOut(y)
    <3>1. [run[y] EXCEPT !.pc = "start", !.infra = @ + 1].pc = "start"
      BY <2>1
    <3>2. CASE run' = [run EXCEPT ![y] = [run[y] EXCEPT !.pc = "start", !.infra = @ + 1]]
      BY <1>1, <2>3, <3>1, <3>2
    <3>3. run[y].infra + 1 < InfraMaxAttempts =>
            run' = [run EXCEPT ![y] = [run[y] EXCEPT !.pc = "start", !.infra = @ + 1]]
      BY <1>1, <2>8 DEF QueueTimesOut
    <3> QED BY <2>5, <2>8, <3>2, <3>3 DEF QueueTimesOut
  <2>9. CASE ActionTimesOut(y)
    BY <1>1, <2>2, <2>3, <2>9, AfterSends DEF ActionTimesOut
  <2>10. CASE Observed(y)
    BY <2>6, <2>10 DEF Observed
  <2>11. CASE OutOfMemory(y) \/ LogicalFailure(y)
    BY <2>6, <2>11 DEF OutOfMemory, LogicalFailure
  <2> QED BY <1>4, <2>4, <2>7, <2>8, <2>9, <2>10, <2>11 DEF Step, Answer
<1> QED BY <1>2, <1>3, <1>4 DEF Next, Returned

\* Once a member has been run, no request for it is answered by the cache: the
\* only cacheable index is the batch's first, and nobody was run before it.
THEOREM RetriesAreFresh == Spec => RetriesRunFresh
<1>1. ASSUME Inv, [Next]_vars, NEW x \in Runs,
             run[x].pc = "start", run'[x].pc = "sent", run'[x].caching
      PROVE  Selection(x) \cap asked = {}
  <2>1. Request(x) /\ Live(x) /\ run[x] \in Run /\ run \in [Runs -> Run]
    BY <1>1, OnlyRequestSends, FlightFacts DEF Live
  <2>2. run'[x].caching = CachingEnabled(config.cacheable, TRUE, FALSE, AttemptIndex(run[x]))
    BY <2>1 DEF Request, Run
  <2>3. AttemptIndex(run[x]) = 0
    BY <1>1, <2>2 DEF CachingEnabled
  <2>4. CASE x = Batch
    BY <1>1, <2>3, <2>4 DEF Inv, Fresh
  <2>5. CASE x # Batch
    <3>1. run[x].first >= 1 /\ run[x].first \in Nat /\ run[x].execution \in Nat /\ run[x].infra \in Nat
      BY <1>1, <2>1, <2>5, FlightFacts
    <3> QED BY <2>3, <3>1 DEF AttemptIndex
  <2> QED BY <2>4, <2>5
<1>2. Inv /\ [Next]_vars =>
        [\A x \in Runs : run[x].pc = "start" /\ run'[x].pc = "sent" /\ run'[x].caching =>
           Selection(x) \cap asked = {}]_vars
  BY <1>1
<1> QED BY <1>2, Invariant, PTL DEF RetriesRunFresh, Spec

-------------------------------------------------------------------------------
(* The verdict of a custom binary.                                           *)

\* What the ends e of its processes so far make of its only name.
Says(e, best) ==
    /\ e = {} => best = NoObs
    /\ e = {"exit0"} => best = [status |-> "Pass", integrity |-> "Complete"]
    /\ e = {"exitN"} => best = [status |-> "Fail", integrity |-> "Complete"]

\* It is alone in its action, which has no reruns.
UnitInv ==
    config.kind = "binary" =>
        /\ Cardinality(config.members) = 1 /\ run[Batch].pc # "isolating"
        /\ Live(Batch) => \A n \in config.members : Says(exits, run[Batch].best[n])
        /\ WholeUnitVerdict

\* The tail of the loop, of a run that has one member: it goes on with what it knows, or returns it.
LEMMA TailAlone ==
    ASSUME Typed, ~Batched(Batch), NEW r, r \in Run, NEW t, After(Batch, r, t)
    PROVE  /\ run'[Batch].pc \in {"start", "done"} /\ run'[Batch].best = r.best
           /\ \/ finished' = finished
              \/ \A n \in Members : finished'[n] = IF n \in Expected(Batch)
                                                   THEN Append(finished[n], Outcome(r, n)) ELSE finished[n]
<1>1. Batch \in Runs /\ run \in [Runs -> Run]
  BY Constant DEF Typed
<1>2. ASSUME NEW q, q \in Run, NEW pending, Again(Batch, q, pending), q.best = r.best
      PROVE  run'[Batch].pc = "start" /\ run'[Batch].best = r.best /\ finished' = finished
  <2>1. run'[Batch] = [q EXCEPT !.pc = "start", !.infra = 0, !.pending = pending, !.execution = @ + 1]
    BY <1>1, <1>2 DEF Again
  <2>2. finished' = finished
    BY <1>2 DEF Again
  <2> DEFINE e == q.execution + 1
  <2>3. run'[Batch] = [q EXCEPT !.pc = "start", !.infra = 0, !.pending = pending, !.execution = e]
    BY <2>1
  <2> HIDE DEF e
  <2>4. run'[Batch].pc = "start" /\ run'[Batch].best = q.best
    BY <1>2, <2>3 DEF Run
  <2> QED BY <1>2, <2>2, <2>4
<1>3. ASSUME NEW q, q \in Run, Return(Batch, q), q.best = r.best, q.attempts = r.attempts
      PROVE  /\ run'[Batch].pc = "done" /\ run'[Batch].best = r.best
             /\ \A n \in Members : finished'[n] = IF n \in Expected(Batch)
                                                  THEN Append(finished[n], Outcome(r, n)) ELSE finished[n]
  <2>1. run'[Batch] = [q EXCEPT !.pc = "done"]
    BY <1>1, <1>3 DEF Return
  <2>2. \A n : Outcome(q, n) = Outcome(r, n)
    BY <1>3 DEF Outcome
  <2> QED BY <1>3, <2>1, <2>2 DEF Return, Deliver, Run
<1>4. CASE Return(Batch, r)
  BY <1>3, <1>4
<1>5. CASE AfterTimeout(Batch, r)
  <2> DEFINE q == [r EXCEPT !.timeouts = @ + 1]
  <2>1. q \in Run /\ q.best = r.best /\ q.attempts = r.attempts
    BY DEF Run
  <2>2. Return(Batch, q) \/ Again(Batch, q, StillFailing(Batch, r.best))
    BY <1>5 DEF AfterTimeout
  <2> HIDE DEF q
  <2> QED BY <1>2, <1>3, <2>1, <2>2
<1>6. CASE AfterFailure(Batch, r)
  <2> DEFINE q == [r EXCEPT !.failure = @ + 1]
  <2>1. q \in Run /\ q.best = r.best
    BY DEF Run
  <2>2. Return(Batch, r) \/ Again(Batch, q, Retryable(Batch, r))
    BY <1>6 DEF AfterFailure
  <2> HIDE DEF q
  <2> QED BY <1>2, <1>4, <2>1, <2>2
<1> QED BY <1>4, <1>5, <1>6 DEF After

\* What is said by the ends is what is returned.
LEMMA UnitTail ==
    ASSUME Inv, UnitInv, config.kind = "binary", config' = config, Live(Batch),
           NEW r, r \in Run, NEW t, After(Batch, r, t),
           \A n \in config.members : Says(exits', r.best[n])
    PROVE  UnitInv'
<1>1. /\ Typed /\ Cardinality(config.members) = 1 /\ Expected(Batch) = config.members
      /\ \A n \in Members : finished[n] = <<>>
  BY ExpectedFacts, Constant DEF Inv, UnitInv, Phases
<1>2. /\ run'[Batch].pc \in {"start", "done"} /\ run'[Batch].best = r.best
      /\ \/ finished' = finished
         \/ \A n \in Members : finished'[n] = IF n \in Expected(Batch)
                                              THEN Append(finished[n], Outcome(r, n)) ELSE finished[n]
  BY <1>1, TailAlone DEF Batched
<1>3. ASSUME NEW n \in Members, finished'[n] # <<>>
      PROVE  /\ exits' = {"exit0"} => finished'[n][1].status = "Pass"
             /\ exits' = {"exitN"} => finished'[n][1].status = "Fail"
  <2>1. n \in config.members /\ finished'[n] = Append(<<>>, Outcome(r, n))
    BY <1>1, <1>2, <1>3
  <2>2. finished'[n][1] = Outcome(r, n)
    BY <2>1
  <2>3. exits' = {"exit0"} => Outcome(r, n).status = "Pass"
    BY <2>1 DEF Says, Outcome, NoObs
  <2>4. exits' = {"exitN"} => Outcome(r, n).status = "Fail"
    BY <2>1 DEF Says, Outcome, NoObs
  <2> QED BY <2>2, <2>3, <2>4
<1> QED BY <1>1, <1>2, <1>3 DEF UnitInv, WholeUnitVerdict, Live

LEMMA UnitInit == Init => UnitInv
<1> SUFFICES ASSUME Init, config.kind = "binary" PROVE UnitInv
  BY DEF UnitInv
<1>1. Cardinality(config.members) = 1 /\ exits = {} /\ \A n \in Members : finished[n] = <<>>
  BY DEF Init, Whole
<1>2. run[Batch] = Start(Batch, 0, Unknown, None)
  BY Constant DEF Init
<1>3. config.members \subseteq Members
  BY ConstantsAssumption DEF Init, Config
<1>4. run[Batch].pc = "start" /\ \A n \in config.members : run[Batch].best[n] = NoObs
  BY <1>2, <1>3, Constant DEF Start, Unknown
<1> QED BY <1>1, <1>4 DEF UnitInv, Says, WholeUnitVerdict

\* The batch is the only run in flight.
LEMMA OnlyTheBatch ==
    ASSUME Inv, UnitInv, config.kind = "binary", NEW x \in Runs, Live(x)
    PROVE  /\ x = Batch /\ run[Batch] \in Run /\ Batch \in Runs
           /\ run[Batch].pending = config.members /\ ~Batched(Batch)
           /\ config.members \subseteq Names /\ Whole
<1>1. x = Batch
  BY Constant DEF Inv, UnitInv, Phases
<1>2. /\ run[Batch].pending \subseteq config.members /\ run[Batch].pending # {} /\ run[Batch] \in Run
      /\ Expected(Batch) = config.members /\ config.members \subseteq Members
  BY <1>1, FlightFacts, LiveFacts, ExpectedFacts, Constant DEF Narrowed, Inv
<1>3. Cardinality(config.members) = 1
  BY DEF UnitInv
<1>4. IsFiniteSet(config.members)
  BY <1>2, ConstantsAssumption, FS_Subset
<1>5. \E m : config.members = {m}
  BY <1>3, <1>4, FS_Singleton
<1>6. run[Batch].pending = config.members
  BY <1>2, <1>5
<1> QED BY <1>1, <1>2, <1>3, <1>6, Constant DEF Batched, Whole

\* An attempt whose end does not decide it.
LEMMA UndecidedUnit ==
    ASSUME Inv, UnitInv, config.kind = "binary", config' = config, Live(Batch), Unreadable,
           NEW r, r \in Run, NEW t, After(Batch, r, t)
    PROVE  UnitInv'
<1>1. "none" \in exits'
  BY DEF Unreadable, Whole
<1>2. \A n : Says(exits', r.best[n])
  BY <1>1 DEF Says
<1> QED BY <1>2, UnitTail

\* The record of a run whose best observations and attempts are replaced.
LEMMA FoldedRun ==
    ASSUME NEW q \in Run, NEW incoming, \A n \in DOMAIN incoming : incoming[n] \in Obs,
           NEW att \in [Members -> Nat]
    PROVE  /\ [q EXCEPT !.best = FoldBest(@, incoming), !.attempts = att] \in Run
           /\ [q EXCEPT !.best = FoldBest(@, incoming), !.attempts = att].best = FoldBest(q.best, incoming)
<1>1. q.best \in [Names -> Obs \cup {NoObs}]
  BY DEF Run
<1> DEFINE b == FoldBest(q.best, incoming)
<1>2. b \in [Names -> Obs \cup {NoObs}]
  BY <1>1 DEF FoldBest, MergeBest
<1> HIDE DEF b
<1>3. [q EXCEPT !.best = b, !.attempts = att] \in Run /\ [q EXCEPT !.best = b, !.attempts = att].best = b
  BY <1>2 DEF Run
<1> QED BY <1>3 DEF b

LEMMA UnitIncomplete ==
    ASSUME Inv, UnitInv, config.kind = "binary", Live(Batch), NEW status \in TestVerdict,
           Incomplete(Batch, status)
    PROVE  UnitInv'
<1> DEFINE incoming == [n \in run[Batch].pending |-> [status |-> status,
                                                      integrity |-> "MissingTerminalResult"]]
           r == [run[Batch] EXCEPT !.best = FoldBest(@, incoming)]
<1>1. Unreadable /\ After(Batch, r, FALSE) /\ config' = config
  BY DEF Incomplete
<1>2. run[Batch] \in Run /\ run[Batch].attempts \in [Members -> Nat]
  BY OnlyTheBatch, LiveFacts, Constant
<1>3. \A n \in DOMAIN incoming : incoming[n] \in Obs
  BY DEF Obs, Integrity
<1> HIDE DEF incoming
<1>4. r = [run[Batch] EXCEPT !.best = FoldBest(@, incoming), !.attempts = run[Batch].attempts]
  BY <1>2 DEF Run
<1> HIDE DEF r
<1>5. r \in Run
  BY <1>2, <1>3, <1>4, FoldedRun
<1> QED BY <1>1, <1>5, UndecidedUnit

LEMMA UnitTimeout ==
    ASSUME Inv, UnitInv, config.kind = "binary", ActionTimesOut(Batch)
    PROVE  UnitInv'
<1> DEFINE incoming == [n \in run[Batch].pending |-> [status |-> "Timeout", integrity |-> "Complete"]]
           r == [run[Batch] EXCEPT !.best = FoldBest(@, incoming)]
<1>1. Unreadable /\ After(Batch, r, TRUE) /\ config' = config /\ Live(Batch)
  BY DEF ActionTimesOut, Live
<1>2. run[Batch] \in Run /\ run[Batch].attempts \in [Members -> Nat]
  BY <1>1, OnlyTheBatch, LiveFacts, Constant
<1>3. \A n \in DOMAIN incoming : incoming[n] \in Obs
  BY DEF Obs, Integrity, TestVerdict
<1> HIDE DEF incoming
<1>4. r = [run[Batch] EXCEPT !.best = FoldBest(@, incoming), !.attempts = run[Batch].attempts]
  BY <1>2 DEF Run
<1> HIDE DEF r
<1>5. r \in Run
  BY <1>2, <1>3, <1>4, FoldedRun
<1> QED BY <1>1, <1>5, UndecidedUnit

\* The fold of any answer: its record, and what it observed of the only name.
LEMMA UnitFold ==
    ASSUME Inv, UnitInv, config.kind = "binary", Live(Batch), NEW obs, NEW raw \in ProcessOutcome,
           NEW oom \in BOOLEAN, NEW physical \in BOOLEAN, \A n \in DOMAIN obs : obs[n] \in TestVerdict,
           Fold(Batch, obs, raw, oom, physical)
    PROVE  \E r : /\ r \in Run /\ After(Batch, r, FALSE) /\ config' = config
                  /\ ~oom /\ DOMAIN obs = {} =>
                       \A n \in config.members :
                          r.best[n] = MergeBest(run[Batch].best[n],
                                                [status |-> AbsentNameVerdict(raw, TRUE, TRUE),
                                                 integrity |-> "Complete"])
<1> DEFINE names == TestNames(run[Batch], obs)
           incoming == [n \in names |-> Observation(n, obs, raw, oom, Whole, Singleton(Batch, names))]
           recorded == IF physical /\ ~oom THEN names \cap DOMAIN obs ELSE {}
           att == Bump(run[Batch].attempts, recorded)
           r == [run[Batch] EXCEPT !.best = FoldBest(@, incoming), !.attempts = Bump(@, recorded)]
<1>1. After(Batch, r, FALSE) /\ config' = config
  BY DEF Fold
<1>2. /\ run[Batch] \in Run /\ run[Batch].attempts \in [Members -> Nat]
      /\ run[Batch].pending = config.members /\ ~Batched(Batch) /\ config.members \subseteq Names /\ Whole
  BY OnlyTheBatch, LiveFacts, Constant
<1>3. Singleton(Batch, names) /\ Whole = TRUE
  BY <1>2 DEF Singleton, Whole
<1>4. \A n \in DOMAIN incoming : incoming[n] \in Obs
  <2>1. AbsentNameVerdict(raw, Whole, Singleton(Batch, names)) \in TestVerdict
    BY DEF AbsentNameVerdict, ProcessOutcome, TestVerdict
  <2>2. ASSUME NEW n \in names PROVE Observation(n, obs, raw, oom, Whole, Singleton(Batch, names)) \in Obs
    <3> HIDE DEF names
    <3> QED BY <2>1 DEF Observation, Obs, TestVerdict, Integrity
  <2> QED BY <2>2
<1>5. att \in [Members -> Nat]
  BY <1>2 DEF Bump
<1>6. ASSUME ~oom, DOMAIN obs = {}, NEW n \in config.members
      PROVE  /\ n \in DOMAIN incoming
             /\ incoming[n] = [status |-> AbsentNameVerdict(raw, TRUE, TRUE), integrity |-> "Complete"]
  <2>1. n \in names
    BY <1>2, <1>6 DEF TestNames
  <2>2. n \notin DOMAIN obs
    BY <1>6
  <2>3. Singleton(Batch, names) = TRUE
    BY <1>3 DEF Singleton
  <2> HIDE DEF names
  <2>4. incoming[n] = Observation(n, obs, raw, oom, TRUE, TRUE)
    BY <1>3, <2>1, <2>3
  <2> QED BY <1>6, <2>1, <2>2, <2>4 DEF Observation
<1> HIDE DEF names, incoming, recorded
<1>7. r \in Run /\ r.best = FoldBest(run[Batch].best, incoming)
  BY <1>2, <1>4, <1>5, FoldedRun
<1> HIDE DEF r, att
<1>8. ASSUME ~oom, DOMAIN obs = {}, NEW n \in config.members
      PROVE  r.best[n] = MergeBest(run[Batch].best[n],
                                   [status |-> AbsentNameVerdict(raw, TRUE, TRUE), integrity |-> "Complete"])
  <2>1. n \in Names
    BY <1>2
  <2> QED BY <1>6, <1>7, <1>8, <2>1 DEF FoldBest
<1> QED BY <1>1, <1>7, <1>8

\* One more end says the same, or the ends disagree.
LEMMA SaysMore ==
    ASSUME NEW e, NEW raw \in ProcessOutcome, NEW best, Says(e, best)
    PROVE  Says(e \cup {raw}, MergeBest(best, [status |-> AbsentNameVerdict(raw, TRUE, TRUE),
                                               integrity |-> "Complete"]))
<1>1. e \cup {raw} # {}
  OBVIOUS
<1>2. CASE e \cup {raw} = {"exit0"}
  <2>1. raw = "exit0" /\ (e = {} \/ e = {"exit0"})
    BY <1>2
  <2> QED BY <1>2, <2>1 DEF Says, MergeBest, AbsentNameVerdict, NoObs, Missing, IsFailure
<1>3. CASE e \cup {raw} = {"exitN"}
  <2>1. raw = "exitN" /\ (e = {} \/ e = {"exitN"})
    BY <1>3
  <2> QED BY <1>3, <2>1 DEF Says, MergeBest, AbsentNameVerdict, NoObs, Missing, IsFailure
<1> QED BY <1>1, <1>2, <1>3 DEF Says

LEMMA UnitObserved ==
    ASSUME Inv, UnitInv, config.kind = "binary", Observed(Batch)
    PROVE  UnitInv'
<1>1. Live(Batch)
  BY DEF Observed, Live
<1>2. PICK raw \in ProcessOutcome :
        /\ \E physical \in BOOLEAN : \E obs \in Reports(Selection(Batch), raw) :
              Fold(Batch, obs, raw, FALSE, physical)
        /\ exits' = exits \cup {raw}
  BY DEF Observed, Whole
<1>3. PICK physical \in BOOLEAN : \E obs \in Reports(Selection(Batch), raw) :
              Fold(Batch, obs, raw, FALSE, physical)
  BY <1>2
<1>4. PICK obs \in Reports(Selection(Batch), raw) : Fold(Batch, obs, raw, FALSE, physical)
  BY <1>3
<1>5. DOMAIN obs = {}
  BY <1>4 DEF Reports
<1>6. \A n \in DOMAIN obs : obs[n] \in TestVerdict
  BY <1>5
<1>7. PICK r : /\ r \in Run /\ After(Batch, r, FALSE) /\ config' = config
               /\ \A n \in config.members :
                    r.best[n] = MergeBest(run[Batch].best[n],
                                          [status |-> AbsentNameVerdict(raw, TRUE, TRUE),
                                           integrity |-> "Complete"])
  BY <1>1, <1>4, <1>5, <1>6, UnitFold
<1>8. \A n \in config.members : Says(exits', r.best[n])
  BY <1>1, <1>2, <1>7, SaysMore DEF UnitInv
<1> QED BY <1>1, <1>7, <1>8, UnitTail

\* Killed for memory, or judged by the supervisor.
LEMMA UnitKilled ==
    ASSUME Inv, UnitInv, config.kind = "binary", OutOfMemory(Batch) \/ LogicalFailure(Batch)
    PROVE  UnitInv'
<1>1. Live(Batch) /\ Unreadable
  BY DEF OutOfMemory, LogicalFailure, Live
<1>2. \E physical \in BOOLEAN, oom \in BOOLEAN : \E obs :
         /\ \A n \in DOMAIN obs : obs[n] \in TestVerdict
         /\ Fold(Batch, obs, "exitN", oom, physical)
  <2>1. CASE OutOfMemory(Batch)
    <3>1. PICK physical \in BOOLEAN, obs \in Reports(Selection(Batch), "exitN") :
            Fold(Batch, obs, "exitN", TRUE, physical)
      BY <2>1 DEF OutOfMemory
    <3>2. DOMAIN obs = {}
      BY <3>1 DEF Reports
    <3> QED BY <3>1, <3>2
  <2>2. CASE LogicalFailure(Batch)
    <3>1. PICK physical \in BOOLEAN, v \in {"Timeout", "Fail"}, obs \in Reports({}, "exitN") :
            Fold(Batch, [n \in DOMAIN obs \cup run[Batch].pending |->
                           IF n \in run[Batch].pending THEN v ELSE obs[n]], "exitN", FALSE, physical)
      BY <2>2 DEF LogicalFailure
    <3> DEFINE both == [n \in DOMAIN obs \cup run[Batch].pending |->
                          IF n \in run[Batch].pending THEN v ELSE obs[n]]
    <3>2. DOMAIN obs = {}
      BY <3>1 DEF Reports
    <3>3. \A n \in DOMAIN both : both[n] \in TestVerdict
      BY <3>2 DEF TestVerdict
    <3>4. Fold(Batch, both, "exitN", FALSE, physical)
      BY <3>1
    <3> HIDE DEF both
    <3> QED BY <3>3, <3>4
  <2> QED BY <2>1, <2>2 DEF OutOfMemory, LogicalFailure
<1>3. PICK physical, oom, obs :
         /\ physical \in BOOLEAN /\ oom \in BOOLEAN
         /\ \A n \in DOMAIN obs : obs[n] \in TestVerdict
         /\ Fold(Batch, obs, "exitN", oom, physical)
  BY <1>2
<1>4. "exitN" \in ProcessOutcome
  BY DEF ProcessOutcome
<1>5. PICK r : r \in Run /\ After(Batch, r, FALSE) /\ config' = config
  BY <1>1, <1>3, <1>4, UnitFold
<1> QED BY <1>1, <1>5, UndecidedUnit

\* A step that goes on with the attempt at hand.
LEMMA UnitGoesOn ==
    ASSUME Inv, UnitInv, config.kind = "binary", config' = config, Live(Batch), finished' = finished,
           exits' = exits, run'[Batch].pc \in {"start", "sent"}, run'[Batch].best = run[Batch].best
    PROVE  UnitInv'
BY DEF UnitInv, WholeUnitVerdict, Whole, Live

LEMMA UnitStep == Inv /\ UnitInv /\ [Next]_vars => UnitInv'
<1> SUFFICES ASSUME Inv, UnitInv, [Next]_vars, config'.kind = "binary" PROVE UnitInv'
  BY DEF UnitInv
<1>1. config' = config
  <2>1. ASSUME NEW x \in Runs, NEW s, Incomplete(x, s) PROVE config' = config
    BY <2>1 DEF Incomplete
  <2>2. ASSUME NEW x \in Runs, NEW o, NEW raw, NEW m, NEW ph, Fold(x, o, raw, m, ph)
        PROVE  config' = config
    BY <2>2 DEF Fold
  <2>3. ASSUME NEW x \in Runs, Step(x) PROVE config' = config
    <3>1. CASE Request(x) BY <3>1 DEF Request
    <3>2. CASE OverridesConflict(x) BY <3>2, <2>1 DEF OverridesConflict
    <3>3. CASE GroupFails(x) BY <3>3, <2>1 DEF GroupFails
    <3>4. CASE QueueTimesOut(x) BY <3>4, <2>1 DEF QueueTimesOut
    <3>5. CASE ActionTimesOut(x) BY <3>5 DEF ActionTimesOut
    <3>6. CASE Observed(x) BY <3>6, <2>2 DEF Observed
    <3>7. CASE OutOfMemory(x) BY <3>7, <2>2 DEF OutOfMemory
    <3>8. CASE LogicalFailure(x) BY <3>8, <2>2 DEF LogicalFailure
    <3> QED BY <2>3, <3>1, <3>2, <3>3, <3>4, <3>5, <3>6, <3>7, <3>8 DEF Step, Answer
  <2> QED BY <2>3 DEF Next, JoinIsolated, Returned, vars
<1>2. config.kind = "binary"
  BY <1>1
<1>3. ASSUME NEW x \in Runs, Step(x) PROVE Live(x)
  BY <1>3 DEF Step, Answer, Request, OverridesConflict, GroupFails, QueueTimesOut, ActionTimesOut,
     Observed, OutOfMemory, LogicalFailure, Live
<1>4. ASSUME NEW x \in Runs, Step(x) PROVE x = Batch /\ Live(Batch)
  BY <1>2, <1>3, <1>4, OnlyTheBatch
<1>5. CASE Request(Batch)
  <2>1. Live(Batch)
    BY <1>5 DEF Request, Live
  <2>2. run \in [Runs -> Run] /\ Batch \in Runs
    BY Constant DEF Inv, Typed
  <2>3. /\ run' = [run EXCEPT ![Batch].pc = "sent",
                              ![Batch].caching = CachingEnabled(config.cacheable, TRUE, FALSE,
                                                                AttemptIndex(run[Batch]))]
        /\ finished' = finished /\ exits' = exits
    BY <1>5 DEF Request
  <2> DEFINE c == CachingEnabled(config.cacheable, TRUE, FALSE, AttemptIndex(run[Batch]))
  <2>4. run'[Batch] = [run[Batch] EXCEPT !.pc = "sent", !.caching = c]
    BY <2>2, <2>3
  <2> HIDE DEF c
  <2>5. run'[Batch].pc = "sent" /\ run'[Batch].best = run[Batch].best
    BY <2>2, <2>4 DEF Run
  <2> QED BY <1>1, <1>2, <2>1, <2>3, <2>5, UnitGoesOn
<1>6. CASE QueueTimesOut(Batch)
  <2>1. Live(Batch) /\ run \in [Runs -> Run] /\ Batch \in Runs
    BY <1>6, Constant DEF QueueTimesOut, Live, Inv, Typed
  <2>2. CASE Incomplete(Batch, "InfraFailure")
    BY <1>2, <2>1, <2>2, UnitIncomplete DEF TestVerdict
  <2>3. CASE /\ run' = [run EXCEPT ![Batch].pc = "start", ![Batch].infra = @ + 1]
             /\ UNCHANGED <<config, finished, history>>
    <3>1. run'[Batch].pc = "start" /\ run'[Batch].best = run[Batch].best
      BY <2>1, <2>3 DEF Run
    <3> QED BY <1>1, <1>2, <2>1, <2>3, <3>1, UnitGoesOn DEF history
  <2> QED BY <1>6, <2>2, <2>3 DEF QueueTimesOut
<1>7. CASE OverridesConflict(Batch) \/ GroupFails(Batch)
  <2>1. Live(Batch) /\ \E s \in TestVerdict : Incomplete(Batch, s)
    BY <1>7 DEF OverridesConflict, GroupFails, Live, TestVerdict
  <2> QED BY <1>2, <2>1, UnitIncomplete
<1>8. CASE ActionTimesOut(Batch)
  BY <1>2, <1>8, UnitTimeout
<1>9. CASE Observed(Batch)
  BY <1>2, <1>9, UnitObserved
<1>10. CASE OutOfMemory(Batch) \/ LogicalFailure(Batch)
  BY <1>2, <1>10, UnitKilled
<1>11. ~JoinIsolated
  BY <1>2 DEF JoinIsolated, UnitInv
<1>12. CASE UNCHANGED vars
  BY <1>12 DEF vars, history, UnitInv, WholeUnitVerdict, Whole, Live
<1> QED BY <1>4, <1>5, <1>6, <1>7, <1>8, <1>9, <1>10, <1>11, <1>12 DEF Next, Step, Answer, Returned

\* The verdict of a custom binary is its exit code, over any retries, unless its processes ended
\* differently from each other or one of them said nothing; for a target of listed tests there is
\* nothing to say, and for one of doc tests the code breaks the promise.
THEOREM ExitCodeIsVerdict == Spec => [](config.kind # "doctest" => WholeUnitVerdict)
<1>1. Inv /\ UnitInv => (config.kind # "doctest" => WholeUnitVerdict)
  BY DEF Inv, Typed, Config, UnitInv, WholeUnitVerdict, Whole
<1>2. Spec => []UnitInv
  BY Invariant, UnitInit, UnitStep, PTL DEF Spec
<1> QED BY <1>1, <1>2, Invariant, PTL
===============================================================================
