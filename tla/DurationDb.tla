------------------------------- MODULE DurationDb -------------------------------
(***************************************************************************)
(* DurationDb::flush (duration_db.rs): the sessions that end at the same   *)
(* time each append what they measured to the logs on disk and, when a log *)
(* has grown, fold the logs into the base files, under a lock file that is *)
(* waited for two seconds and broken when it is ten seconds old.           *)
(*                                                                         *)
(* What one flush appends to one log is a batch, named by its process; a   *)
(* base file is how often it counts each batch.                            *)
(***************************************************************************)
EXTENDS Naturals, Sequences, FiniteSets

CONSTANTS
    Sections,   \* the sections of the store in the order flush takes them
    Procs,      \* the processes that flush
    Fresh,      \* the sections each of them has something new for
    Threshold,  \* a log of more batches than this is compacted (512 KB)
    None,       \* no lock file
    Torn        \* a record of which a failed append left only a part

Section == {Sections[i] : i \in DOMAIN Sections}

ASSUME ConstantsAssumption ==
    /\ Sections \in Seq({"perf", "flake", "names"}) /\ Sections # <<>>
    /\ \A i, j \in DOMAIN Sections : Sections[i] = Sections[j] => i = j
    /\ IsFiniteSet(Procs) /\ None \notin Procs /\ Torn \notin Procs
    /\ Fresh \in [Procs -> SUBSET Section]
    /\ Threshold \in Nat

VARIABLES
    pc,       \* where each process stands in its flush
    at,       \* the section it is at, an index of Sections
    lock,     \* db.lock: the process that created it, or None
    held,     \* lock_acquired of each process
    log,      \* <section>.log: batches, and what a torn append left
    bin,      \* <section>.bin: how often each batch is counted
    snap,     \* db_disk of each process that compacts
    unsaved,  \* the sections whose records a process still holds in memory
    errors,   \* the sections a process has collected an error for
    replays,  \* history: compactions that ended with the log not truncated
    lapsed,   \* history: a flush went on without the lock, or broke a live one
    damaged   \* history: sections with a torn log or a file that was not read

disk == <<log, bin>>
history == <<replays, lapsed, damaged>>
vars == <<pc, at, lock, held, log, bin, snap, unsaved, errors, replays, lapsed, damaged>>

Nothing == [s \in Section |-> [p \in Procs |-> 0]]

Init ==
    /\ pc = [p \in Procs |-> "idle"] /\ at = [p \in Procs |-> 1]
    /\ lock = None /\ held = [p \in Procs |-> FALSE]
    /\ log = [s \in Section |-> <<>>] /\ bin = Nothing
    /\ snap = [p \in Procs |-> Nothing]
    /\ unsaved = Fresh /\ errors = [p \in Procs |-> {}]
    /\ replays = [s \in Section |-> 0] /\ lapsed = FALSE /\ damaged = {}

Here(p) == Sections[at[p]]
Alive(p) == pc[p] \notin {"done", "dead"}

\* A section is done: the loop goes on from its first step, or on to what follows.
Advance(p, first, after) ==
    IF at[p] < Len(Sections)
    THEN pc' = [pc EXCEPT ![p] = first] /\ at' = [at EXCEPT ![p] = @ + 1]
    ELSE pc' = [pc EXCEPT ![p] = after] /\ at' = [at EXCEPT ![p] = 1]

\* How often the records of a log that can be read count a batch: fixed-size
\* records behind a torn one are out of step, taken to yield nothing.
Logged(s, p) ==
    Cardinality({i \in DOMAIN log[s] : log[s][i] = p /\ \A j \in 1 .. i : log[s][j] # Torn})

\* Base and log merged: runs and samples add up, a name is inserted once.
Merge(s, base, logged) == IF s = "names" /\ base + logged > 0 THEN 1 ELSE base + logged

-------------------------------------------------------------------------------
(* The lock.                                                                 *)

\* The store's directory is there, or the flush fails at once.
Begin(p) ==
    /\ pc[p] = "idle"
    /\ \/ pc' = [pc EXCEPT ![p] = "locking"] /\ UNCHANGED errors
       \/ pc' = [pc EXCEPT ![p] = "done"] /\ errors' = [errors EXCEPT ![p] = Section]
    /\ UNCHANGED <<at, lock, held, disk, snap, unsaved, history>>

\* A slip: the lock file is opened, not created.
TakeLock_NotExclusive(p) ==
    /\ pc[p] = "locking"
    /\ lock' = p /\ held' = [held EXCEPT ![p] = TRUE]
    /\ pc' = [pc EXCEPT ![p] = "appending"]
    /\ UNCHANGED <<at, disk, snap, unsaved, errors, history>>

TakeLock(p) ==
    /\ pc[p] = "locking" /\ lock = None
    /\ lock' = p /\ held' = [held EXCEPT ![p] = TRUE]
    /\ pc' = [pc EXCEPT ![p] = "appending"]
    /\ UNCHANGED <<at, disk, snap, unsaved, errors, history>>

\* 200 tries, or an error that is not AlreadyExists: on without the lock.
GoWithout(p) ==
    /\ pc[p] = "locking"
    /\ pc' = [pc EXCEPT ![p] = "appending"]
    /\ lapsed' = TRUE
    /\ UNCHANGED <<at, lock, held, disk, snap, unsaved, errors, replays, damaged>>

\* The lock file was last modified more than ten seconds ago.
SeeStale(p) ==
    /\ pc[p] = "locking" /\ lock # None
    /\ pc' = [pc EXCEPT ![p] = "breaking"]
    /\ UNCHANGED <<at, lock, held, disk, snap, unsaved, errors, history>>

\* It is removed, and whatever lock file is there by now with it.
BreakLock(p) ==
    /\ pc[p] = "breaking"
    /\ pc' = [pc EXCEPT ![p] = "locking"]
    /\ lock' = None
    /\ lapsed' = (lapsed \/ (lock # None /\ Alive(lock)))
    /\ UNCHANGED <<at, held, disk, snap, unsaved, errors, replays, damaged>>

Unlock(p) ==
    /\ pc[p] = "unlocking"
    /\ pc' = [pc EXCEPT ![p] = "done"]
    /\ lock' = IF held[p] THEN None ELSE lock
    /\ held' = [held EXCEPT ![p] = FALSE] /\ snap' = [snap EXCEPT ![p] = Nothing]
    /\ UNCHANGED <<at, disk, unsaved, errors, history>>

-------------------------------------------------------------------------------
(* The logs.                                                                 *)

\* append_records: written and synced; or it fails, before it wrote anything,
\* half way through a record, or when everything but the sync is done.
Append_(p, s) ==
    \/ /\ log' = [log EXCEPT ![s] = Append(@, p)]
       /\ unsaved' = [unsaved EXCEPT ![p] = @ \ {s}]
       /\ UNCHANGED <<errors, damaged>>
    \/ /\ errors' = [errors EXCEPT ![p] = @ \cup {s}]
       /\ UNCHANGED unsaved
       /\ \/ UNCHANGED <<log, damaged>>
          \/ log' = [log EXCEPT ![s] = Append(@, p)] /\ UNCHANGED damaged
          \/ log' = [log EXCEPT ![s] = Append(@, Torn)] /\ damaged' = damaged \cup {s}

AppendSection(p) ==
    /\ pc[p] = "appending"
    /\ IF Here(p) \in Fresh[p] THEN Append_(p, Here(p))
       ELSE UNCHANGED <<log, unsaved, errors, damaged>>
    /\ Advance(p, "appending", "measuring")
    /\ UNCHANGED <<lock, held, bin, snap, replays, lapsed>>

-------------------------------------------------------------------------------
(* Compaction.                                                               *)

\* A log is too long; a size that cannot be read counts as zero.
Measure(p) ==
    /\ pc[p] = "measuring"
    /\ \/ (\E s \in Section : Len(log[s]) > Threshold) /\ pc' = [pc EXCEPT ![p] = "loadBin"]
       \/ pc' = [pc EXCEPT ![p] = "unlocking"]
    /\ UNCHANGED <<at, lock, held, disk, snap, unsaved, errors, history>>

\* load: a base file that cannot be read counts as empty.
LoadBin(p) ==
    /\ pc[p] = "loadBin"
    /\ pc' = [pc EXCEPT ![p] = "loadLog"]
    /\ \/ snap' = [snap EXCEPT ![p][Here(p)] = bin[Here(p)]] /\ UNCHANGED damaged
       \/ damaged' = damaged \cup {Here(p)} /\ UNCHANGED snap
    /\ UNCHANGED <<at, lock, held, disk, unsaved, errors, replays, lapsed>>

\* A slip: only the base files are loaded.
LoadLog_Ignored(p) ==
    /\ pc[p] = "loadLog"
    /\ Advance(p, "loadBin", "installing")
    /\ UNCHANGED <<lock, held, disk, snap, unsaved, errors, history>>

\* load: the records of the log on top, unless it cannot be read.
LoadLog(p) ==
    /\ pc[p] = "loadLog"
    /\ Advance(p, "loadBin", "installing")
    /\ \/ /\ snap' = [snap EXCEPT ![p][Here(p)] =
                        [q \in Procs |-> Merge(Here(p), @[q], Logged(Here(p), q))]]
          /\ UNCHANGED damaged
       \/ damaged' = damaged \cup {Here(p)} /\ UNCHANGED snap
    /\ UNCHANGED <<lock, held, disk, unsaved, errors, replays, lapsed>>

\* The state loaded is written aside and renamed to the base file; on an error
\* the section is left as it is.
Install(p) ==
    /\ pc[p] = "installing"
    /\ \/ /\ bin' = [bin EXCEPT ![Here(p)] = snap[p][Here(p)]]
          /\ pc' = [pc EXCEPT ![p] = "truncating"]
          /\ UNCHANGED <<at, errors>>
       \/ /\ errors' = [errors EXCEPT ![p] = @ \cup {Here(p)}]
          /\ Advance(p, "installing", "unlocking")
          /\ UNCHANGED bin
    /\ UNCHANGED <<lock, held, log, snap, unsaved, history>>

\* A slip: the log stays as it is.
Truncate_Forgotten(p) ==
    /\ pc[p] = "truncating"
    /\ Advance(p, "installing", "unlocking")
    /\ UNCHANGED <<lock, held, disk, snap, unsaved, errors, history>>

\* The log is truncated; a failure is reported, its records will be replayed.
Truncate(p) ==
    /\ pc[p] = "truncating"
    /\ \/ log' = [log EXCEPT ![Here(p)] = <<>>] /\ UNCHANGED <<errors, replays>>
       \/ /\ errors' = [errors EXCEPT ![p] = @ \cup {Here(p)}]
          /\ replays' = [replays EXCEPT ![Here(p)] = @ + 1]
          /\ UNCHANGED log
    /\ Advance(p, "installing", "unlocking")
    /\ UNCHANGED <<lock, held, bin, snap, unsaved, lapsed, damaged>>

-------------------------------------------------------------------------------
\* The process is killed, its memory gone: its lock file stays.
Crash(p) ==
    /\ Alive(p) /\ pc[p] # "idle"
    /\ pc' = [pc EXCEPT ![p] = "dead"]
    /\ replays' = IF pc[p] = "truncating" THEN [replays EXCEPT ![Here(p)] = @ + 1] ELSE replays
    /\ at' = [at EXCEPT ![p] = 1] /\ held' = [held EXCEPT ![p] = FALSE]
    /\ snap' = [snap EXCEPT ![p] = Nothing] /\ errors' = [errors EXCEPT ![p] = {}]
    /\ UNCHANGED <<lock, disk, unsaved, lapsed, damaged>>

Over == (\A p \in Procs : ~Alive(p)) /\ UNCHANGED vars

Step(p) ==
    \/ Begin(p) \/ TakeLock(p) \/ GoWithout(p) \/ SeeStale(p) \/ BreakLock(p) \/ Unlock(p)
    \/ AppendSection(p)
    \/ Measure(p) \/ LoadBin(p) \/ LoadLog(p) \/ Install(p) \/ Truncate(p)

Next == (\E p \in Procs : Step(p) \/ Crash(p)) \/ Over

Spec == Init /\ [][Next]_vars

-------------------------------------------------------------------------------
(* Properties.                                                               *)

Inside == {"appending", "measuring", "loadBin", "loadLog", "installing", "truncating", "unlocking"}

TypeOK ==
    /\ pc \in [Procs -> Inside \cup {"idle", "locking", "breaking", "done", "dead"}]
    /\ at \in [Procs -> 1 .. Len(Sections)]
    /\ lock \in Procs \cup {None} /\ held \in [Procs -> BOOLEAN]
    /\ log \in [Section -> Seq(Procs \cup {Torn})]
    /\ bin \in [Section -> [Procs -> Nat]] /\ snap \in [Procs -> [Section -> [Procs -> Nat]]]
    /\ unsaved \in [Procs -> SUBSET Section] /\ errors \in [Procs -> SUBSET Section]
    /\ replays \in [Section -> Nat] /\ lapsed \in BOOLEAN /\ damaged \subseteq Section

\* How often a session that loads the store counts the batch.
Counted(s, p) == Merge(s, bin[s][p], Logged(s, p))

\* What p appended, or ended without reporting as failed.
Saved(s, p) ==
    s \in Fresh[p] /\ (s \notin unsaved[p] \/ (pc[p] = "done" /\ s \notin errors[p]))

\* Compaction loses no batch that was saved, whichever of its steps fails or
\* whoever is killed between them, as long as the lock was respected and the
\* section's files could be read.
NothingLost ==
    \A s \in Section \ damaged, p \in Procs : ~lapsed /\ Saved(s, p) => Counted(s, p) >= 1

\* A batch is replayed once at most for every compaction that was cut off between
\* the new base file and the empty log, and a name never.
ReplaysBounded ==
    \A s \in Section \ damaged, p \in Procs :
        ~lapsed /\ (\A q \in Procs : ~(pc[q] = "truncating" /\ Here(q) = s))
            => Counted(s, p) <= 1 + (IF s = "names" THEN 0 ELSE replays[s])

\* One flush at a time, also when locks of dead processes are broken, as long as
\* nobody ran out of patience or broke the lock of a live process.
OneFlush == ~lapsed => Cardinality({p \in Procs : pc[p] \in Inside}) <= 1

\* "This guarantees minimal on-disk footprint without sacrificing concurrent data
\* safety": a batch that was saved is there, whatever the lock did.
ConcurrentDataSafe == \A s \in Section \ damaged, p \in Procs : Saved(s, p) => Counted(s, p) >= 1
===============================================================================
