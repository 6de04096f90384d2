------------------------------- MODULE RwLock -------------------------------
(***************************************************************************)
(* The read-write lock of m5threads/pthread.c: a count of readers and the  *)
(* id of the writer, changed under a spinlock but also read outside of it. *)
(*                                                                         *)
(* A thread's id is the address of its control block, which mmap returned, *)
(* and 0 for the first thread.  The writer field is an int (NPTL), so that *)
(* pthread_self() is cut to IntBits and comes back sign-extended to the    *)
(* LongBits it is compared in: a writer whose id does not fit is taken for *)
(* a reader by pthread_rwlock_unlock.  With LinuxThreads the field is as   *)
(* wide as a pthread_t: IntBits = LongBits.                                *)
(***************************************************************************)
EXTENDS Integers, FiniteSets

CONSTANTS
  Ids,                \* the ids of the threads that use the lock
  IntBits, LongBits,  \* the widths of the stored and of the compared id
  Uses                \* times each thread takes the lock: a bound of the model

ASSUME RwLockAssumption ==
  /\ IntBits \in Nat \ {0} /\ LongBits \in Nat /\ IntBits <= LongBits
  /\ Ids \subseteq 0..(2^LongBits - 1) /\ Ids # {} /\ IsFiniteSet(Ids)
  /\ Uses \in Nat

VARIABLES
  access_lock,       \* TRUE when locked
  readers, writer,   \* of the lock; writer is -1 when nobody writes
  pc,                \* where a thread is, by line of pthread.c
  used               \* how often a thread has taken the lock

vars == <<access_lock, readers, writer, pc, used>>

\* What the assignment of a pthread_t to the writer field stores.
Stored(id) ==
  LET low == id % 2^IntBits IN IF low >= 2^(IntBits - 1) THEN low - 2^IntBits ELSE low

\* The writer field compared with a pthread_t.
AsId(w) == w % 2^LongBits

\* The field gives back the id that was stored into it.
FieldHolds(id) == AsId(Stored(id)) = id

\* An address of mmap is a multiple of the page size: neither it nor what is left
\* of it in the field can be taken for the -1 of an absent writer.
ASSUME IdsAreAddresses == \A t \in Ids : Stored(t) # -1 /\ t # AsId(-1)

Points ==
  {"out", "rspin398", "rlock404", "rtest405", "runlock407", "rretry411",
   "wspin422", "wspin426", "wlock432", "wtest433", "wunlock435", "wretry439",
   "reading", "writing", "rrelease449", "wrelease449", "unlock456"}

TypeOK ==
  /\ access_lock \in BOOLEAN
  /\ readers \in Int
  /\ writer \in -(2^(IntBits - 1))..(2^(IntBits - 1) - 1)
  /\ pc \in [Ids -> Points]
  /\ used \in [Ids -> 0..Uses]

\* pthread_rwlock_init
Init ==
  /\ access_lock = FALSE
  /\ readers = 0
  /\ writer = -1
  /\ pc = [t \in Ids |-> "out"]
  /\ used = [t \in Ids |-> 0]

Goto(t, from, to) == pc[t] = from /\ pc' = [pc EXCEPT ![t] = to]

spin_lock(t, from, to) ==
  /\ Goto(t, from, to)
  /\ ~access_lock
  /\ access_lock' = TRUE
  /\ UNCHANGED <<readers, writer, used>>

spin_unlock(t, from, to) ==
  /\ Goto(t, from, to)
  /\ access_lock' = FALSE
  /\ UNCHANGED <<readers, writer, used>>

Call(t) ==
  /\ used[t] < Uses
  /\ Goto(t, "out", "rspin398") \/ Goto(t, "out", "wspin422")
  /\ used' = [used EXCEPT ![t] = @ + 1]
  /\ UNCHANGED <<access_lock, readers, writer>>

-----------------------------------------------------------------------------
(* pthread_rwlock_rdlock *)

ReaderSpin(t) ==
  /\ Goto(t, "rspin398", "rlock404")
  /\ writer = -1
  /\ UNCHANGED <<access_lock, readers, writer, used>>

ReaderLock(t) == spin_lock(t, "rlock404", "rtest405")

ReaderEnter(t) ==
  /\ writer = -1
  /\ Goto(t, "rtest405", "runlock407")
  /\ readers' = readers + 1
  /\ UNCHANGED <<access_lock, writer, used>>

ReaderRefused(t) ==
  /\ writer # -1
  /\ Goto(t, "rtest405", "rretry411")
  /\ UNCHANGED <<access_lock, readers, writer, used>>

ReaderUnlock(t) ==
  spin_unlock(t, "runlock407", "reading") \/ spin_unlock(t, "rretry411", "rspin398")

rdlock(t) ==
  ReaderSpin(t) \/ ReaderLock(t) \/ ReaderEnter(t) \/ ReaderRefused(t) \/ ReaderUnlock(t)

-----------------------------------------------------------------------------
(* pthread_rwlock_wrlock *)

\* Lines 421-430: the loop ends on no writer, or after that on no readers.
WriterSpin(t) ==
  /\ \/ writer = -1 /\ Goto(t, "wspin422", "wlock432")
     \/ writer # -1 /\ Goto(t, "wspin422", "wspin426")
     \/ readers = 0 /\ Goto(t, "wspin426", "wlock432")
     \/ readers # 0 /\ Goto(t, "wspin426", "wspin422")
  /\ UNCHANGED <<access_lock, readers, writer, used>>

WriterLock(t) == spin_lock(t, "wlock432", "wtest433")

\* mutant: the writer does not wait for the readers
WriterEnterAmongReaders(t) ==
  /\ writer = -1
  /\ Goto(t, "wtest433", "wunlock435")
  /\ writer' = Stored(t)
  /\ UNCHANGED <<access_lock, readers, used>>

WriterEnter(t) ==
  /\ writer = -1 /\ readers = 0
  /\ Goto(t, "wtest433", "wunlock435")
  /\ writer' = Stored(t)
  /\ UNCHANGED <<access_lock, readers, used>>

WriterRefused(t) ==
  /\ ~(writer = -1 /\ readers = 0)
  /\ Goto(t, "wtest433", "wretry439")
  /\ UNCHANGED <<access_lock, readers, writer, used>>

WriterUnlock(t) ==
  spin_unlock(t, "wunlock435", "writing") \/ spin_unlock(t, "wretry439", "wspin422")

wrlock(t) ==
  WriterSpin(t) \/ WriterLock(t) \/ WriterEnter(t) \/ WriterRefused(t) \/ WriterUnlock(t)

-----------------------------------------------------------------------------
(* pthread_rwlock_unlock, the same code for both kinds of holder: the label *)
(* remembers which one it is, but only the writer field decides.            *)

UnlockLock(t) ==
  spin_lock(t, "reading", "rrelease449") \/ spin_lock(t, "writing", "wrelease449")

\* mutant: a released write lock leaves the writer behind
ReleaseReadersOnly(t) ==
  /\ Goto(t, "rrelease449", "unlock456") \/ Goto(t, "wrelease449", "unlock456")
  /\ readers' = readers - 1
  /\ UNCHANGED <<access_lock, writer, used>>

Release(t) ==
  /\ Goto(t, "rrelease449", "unlock456") \/ Goto(t, "wrelease449", "unlock456")
  /\ IF t = AsId(writer)
     THEN writer' = -1 /\ UNCHANGED readers
     ELSE readers' = readers - 1 /\ UNCHANGED writer
  /\ UNCHANGED <<access_lock, used>>

UnlockUnlock(t) == spin_unlock(t, "unlock456", "out")

unlock(t) == UnlockLock(t) \/ Release(t) \/ UnlockUnlock(t)

-----------------------------------------------------------------------------
Step(t) == Call(t) \/ rdlock(t) \/ wrlock(t) \/ unlock(t)

Next == \E t \in Ids : Step(t)

Spec == Init /\ [][Next]_vars

\* Every thread runs.  Nobody is promised the spinlock: spin_lock is a bare
\* exchange in a loop, which may lose to another thread each time.
FairSpec == Spec /\ \A t \in Ids : WF_vars(Step(t))

-----------------------------------------------------------------------------
(* Properties *)

Readers == {t \in Ids : pc[t] = "reading"}
Writers == {t \in Ids : pc[t] = "writing"}

\* pthread_rwlock_wrlock and pthread_rwlock_rdlock keep a writer alone, whatever
\* the width of the writer field.
WriterIsAlone ==
  /\ Cardinality(Writers) <= 1
  /\ Writers # {} => Readers = {}

\* The lock has been left closed: pthread_rwlock_unlock took a writer whose id
\* does not fit into the field for a reader.
LeftClosed ==
  /\ Readers = {} /\ Writers = {}
  /\ readers = -1
  /\ \E t \in Ids : ~FieldHolds(t) /\ used[t] > 0 /\ writer = Stored(t)

\* When no call is under way the fields say who holds the lock, or they are the
\* ones of a lock that a writer with too wide an id has left closed.  The
\* comparison in pthread_rwlock_unlock is all that tells a writer from a reader,
\* and this is the only harm that the int field does.
FieldsSayWho ==
  (\A t \in Ids : pc[t] \in {"out", "reading", "writing"}) =>
    \/ readers = Cardinality(Readers) /\ (writer = -1 <=> Writers = {})
    \/ LeftClosed

\* A holder never gets the spinlock that pthread_rwlock_unlock needs, because a
\* waiting writer goes round lines 420-440 and takes it again and again (line 426
\* lets it pass when there are no readers, also if there is a writer).
StarvedByWriter ==
  /\ <>[](\E t \in Ids : pc[t] \in {"reading", "writing"})
  /\ []<>(\E t \in Ids : pc[t] = "wtest433")

\* Every call returns, but for two reasons: the lock has been left closed, or the
\* live-lock that the comment of pthread_rwlock_rdlock wants to avoid, which only
\* the loop of pthread_rwlock_wrlock can cause.
AllReturn ==
  \/ <>(\A t \in Ids : pc[t] = "out" /\ used[t] = Uses)
  \/ <>[]LeftClosed
  \/ StarvedByWriter
=============================================================================
