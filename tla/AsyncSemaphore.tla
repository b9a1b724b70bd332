--------------------------- MODULE AsyncSemaphore ---------------------------
(***************************************************************************)
(* The asyncio.Semaphore that main.py creates at start-up                  *)
(* (main.py:95) and that _run_with_semaphore enters with `async with`      *)
(* (main.py:531).  The class is part of the Python 3.12 library, which the *)
(* Dockerfile pins; it is modelled here from its contract: first come      *)
(* first served, and a permit that is released while somebody waits is     *)
(* handed to the first waiter, who holds it from then on although it       *)
(* resumes only in a later turn of the event loop.                         *)
(***************************************************************************)
EXTENDS Naturals, Sequences

CONSTANTS
    Tasks,     \* the tasks that may acquire the semaphore
    Permits    \* its initial value

VARIABLES
    permits,    \* Semaphore._value
    waiting,    \* the waiters not woken yet, oldest first
    granted     \* the waiters woken that have not resumed yet

SemTypeOK ==
    /\ permits \in Nat
    /\ waiting \in Seq(Tasks)
    /\ granted \subseteq Tasks

SemInit ==
    /\ permits = Permits
    /\ waiting = <<>>
    /\ granted = {}

\* The semaphore of the next process.
SemRestart ==
    /\ permits' = Permits
    /\ waiting' = <<>>
    /\ granted' = {}

\* Semaphore.locked(): a newcomer may not overtake anybody.
Locked == permits = 0 \/ waiting # <<>> \/ granted # {}

\* Mutant: acquire() does not look whether the semaphore is locked.
AcquireUnchecked ==
    /\ permits' = permits - 1
    /\ UNCHANGED <<waiting, granted>>

\* acquire() that returns without suspending.
AcquireNow ==
    /\ ~Locked
    /\ permits' = permits - 1
    /\ UNCHANGED <<waiting, granted>>

\* acquire() that suspends behind the others.
AcquireLater(t) ==
    /\ Locked
    /\ waiting' = Append(waiting, t)
    /\ UNCHANGED <<permits, granted>>

\* The waiters acquire() wakes when it resumes: as many as there are permits.
Woken == IF permits <= Len(waiting) THEN permits ELSE Len(waiting)

\* acquire() that resumes after its waiter was granted a permit.
AcquireResumes(t) ==
    /\ t \in granted
    /\ permits' = permits - Woken
    /\ waiting' = SubSeq(waiting, Woken + 1, Len(waiting))
    /\ granted' = (granted \ {t}) \cup {waiting[i] : i \in 1 .. Woken}

\* Mutant: the permit goes to the counter and to the first waiter.
ReleaseTwice ==
    /\ permits' = permits + 1
    /\ granted' = granted \cup {waiting[i] : i \in 1 .. Len(waiting) \cap {1}}
    /\ waiting' = SubSeq(waiting, 2, Len(waiting))

\* release(): the permit goes to the first waiter, or back to the counter.
Release ==
    \/ /\ waiting = <<>>
       /\ permits' = permits + 1
       /\ UNCHANGED <<waiting, granted>>
    \/ /\ waiting # <<>>
       /\ granted' = granted \cup {Head(waiting)}
       /\ waiting' = Tail(waiting)
       /\ UNCHANGED permits

=============================================================================
