---------------------------- MODULE RwLockProofs ----------------------------
(***************************************************************************)
(* The reader-writer lock of m5threads excludes, for any number of threads *)
(* and any width of its writer field, and the only harm that a narrow      *)
(* field does is to leave the lock closed.                                 *)
(***************************************************************************)
EXTENDS RwLock, FiniteSetTheorems, TLAPS

(***************************************************************************)
(* The inductive invariant                                                 *)
(***************************************************************************)

\* a thread between spin_lock and spin_unlock
Inside(t) ==
  pc[t] \in {"rtest405", "runlock407", "rretry411", "wtest433", "wunlock435",
             "wretry439", "rrelease449", "wrelease449", "unlock456"}

\* threads that have been let in and not been taken out
HasRead(t) == pc[t] \in {"runlock407", "reading", "rrelease449"}
HasWritten(t) == pc[t] \in {"wunlock435", "writing", "wrelease449"}
ReaderSet == {t \in Ids : HasRead(t)}

PcInv ==
  /\ access_lock \in BOOLEAN
  /\ pc \in [Ids -> Points]
  /\ used \in [Ids -> Nat]

\* a thread that has called anything has used the lock
UsedInv == \A t \in Ids : pc[t] # "out" => used[t] > 0

SpinlockInv ==
  /\ \A t \in Ids : Inside(t) => access_lock
  /\ \A t, u \in Ids : Inside(t) /\ Inside(u) => t = u

\* a writer is alone, and the writer field is its id, as far as that fits
WriterInv ==
  /\ \A t \in Ids : HasWritten(t) => writer = Stored(t)
  /\ \A t, u \in Ids : HasWritten(t) /\ HasWritten(u) => t = u
  /\ writer # -1 => ReaderSet = {}

\* the fields say who has been let in
Told ==
  /\ readers = Cardinality(ReaderSet)
  /\ writer # -1 => \E t \in Ids : HasWritten(t)

\* a writer has left and has not taken its id with it
Closed ==
  /\ readers = -1 /\ \A t \in Ids : ~HasWritten(t)
  /\ \E t \in Ids : ~FieldHolds(t) /\ used[t] > 0 /\ writer = Stored(t)

FieldsInv == WriterInv /\ (Told \/ Closed)

Inv == PcInv /\ UsedInv /\ SpinlockInv /\ FieldsInv

(***************************************************************************)
(* Lemmas                                                                  *)
(***************************************************************************)

\* the readers are finitely many
LEMMA ReadersFinite ==
  /\ IsFiniteSet(ReaderSet)
  /\ Cardinality(ReaderSet) \in Nat
  /\ Cardinality(ReaderSet) = 0 <=> ReaderSet = {}
<1>1. IsFiniteSet(Ids) /\ ReaderSet \in SUBSET Ids
  BY RwLockAssumption DEF ReaderSet
<1>2. IsFiniteSet(ReaderSet)
  BY <1>1, FS_Subset
<1> QED BY <1>2, FS_CardinalityType, FS_EmptySet

\* a step that lets nobody in or out
LEMMA FieldsKept ==
  ASSUME FieldsInv, readers' = readers, writer' = writer,
         \A t \in Ids : used'[t] >= used[t] /\ used[t] \in Nat /\ used'[t] \in Nat,
         \A t \in Ids : (HasRead(t)' <=> HasRead(t)) /\ (HasWritten(t)' <=> HasWritten(t))
  PROVE  FieldsInv'
<1>1. ReaderSet' = ReaderSet
  BY DEF ReaderSet
<1>2. WriterInv'
  BY <1>1 DEF FieldsInv, WriterInv
<1>3. Told => Told'
  BY <1>1 DEF Told
<1>4. Closed => Closed'
  BY DEF Closed
<1> QED BY <1>2, <1>3, <1>4 DEF FieldsInv

\* the invariant holds when the lock has been made
LEMMA InitInv == Init => Inv
<1> SUFFICES ASSUME Init PROVE Inv
  OBVIOUS
<1>1. PcInv
  <2>1. access_lock \in BOOLEAN
    BY Zenon DEF Init
  <2>2. pc \in [Ids -> Points] /\ used \in [Ids -> Nat]
    BY DEF Init, Points
  <2> QED BY <2>1, <2>2 DEF PcInv
<1>2. SpinlockInv /\ UsedInv
  BY DEF Init, SpinlockInv, UsedInv, Inside
<1>3. ReaderSet = {}
  BY DEF Init, ReaderSet, HasRead
<1>4. FieldsInv
  BY <1>3, FS_EmptySet DEF Init, FieldsInv, WriterInv, Told, HasWritten
<1> QED BY <1>1, <1>2, <1>4 DEF Inv

\* a call, the loops that wait outside of the spinlock, and a refused attempt
LEMMA WaitingInv ==
  ASSUME Inv, NEW t \in Ids,
         \/ Call(t) \/ ReaderSpin(t) \/ ReaderRefused(t) \/ WriterSpin(t) \/ WriterRefused(t)
  PROVE  Inv'
<1> USE DEF Call, ReaderSpin, ReaderRefused, WriterSpin, WriterRefused, Goto, Inv, PcInv
<1>1. PcInv'
  BY DEF Points
<1>2. SpinlockInv'
  BY DEF SpinlockInv, Inside
<1>3. UsedInv'
  BY DEF UsedInv
<1>4. FieldsInv'
  BY FieldsKept DEF HasRead, HasWritten
<1> QED BY <1>1, <1>2, <1>3, <1>4

\* taking the spinlock, to be let in or to be taken out
LEMMA LockInv ==
  ASSUME Inv, NEW t \in Ids, ReaderLock(t) \/ WriterLock(t) \/ UnlockLock(t)
  PROVE  Inv'
<1> USE DEF ReaderLock, WriterLock, UnlockLock, spin_lock, Goto, Inv, PcInv
<1>1. PcInv'
  BY DEF Points
<1>2. SpinlockInv'
  BY DEF SpinlockInv, Inside
<1>3. UsedInv'
  BY DEF UsedInv
<1>4. FieldsInv'
  BY FieldsKept DEF HasRead, HasWritten
<1> QED BY <1>1, <1>2, <1>3, <1>4

\* giving the spinlock back
LEMMA UnlockInv ==
  ASSUME Inv, NEW t \in Ids, ReaderUnlock(t) \/ WriterUnlock(t) \/ UnlockUnlock(t)
  PROVE  Inv'
<1> USE DEF ReaderUnlock, WriterUnlock, UnlockUnlock, spin_unlock, Goto, Inv, PcInv
<1>1. PcInv'
  BY DEF Points
<1>2. SpinlockInv'
  BY DEF SpinlockInv, Inside
<1>3. UsedInv'
  BY DEF UsedInv
<1>4. FieldsInv'
  BY FieldsKept DEF HasRead, HasWritten
<1> QED BY <1>1, <1>2, <1>3, <1>4

\* A reader is let in when no writer is: the test is made under the spinlock.
\* A lock that has been left closed lets nobody in, since its writer is set.
LEMMA ReaderEnterInv ==
  ASSUME Inv, NEW t \in Ids, ReaderEnter(t)
  PROVE  Inv'
<1> USE DEF ReaderEnter, Goto, Inv, PcInv
<1>1. PcInv' /\ UsedInv'
  BY DEF Points, UsedInv
<1>2. SpinlockInv'
  BY DEF SpinlockInv, Inside
<1>3. ReaderSet' = ReaderSet \cup {t} /\ t \notin ReaderSet
  BY DEF ReaderSet, HasRead
<1>4. Cardinality(ReaderSet') = Cardinality(ReaderSet) + 1
  BY <1>3, ReadersFinite, FS_AddElement
<1>5. \A u \in Ids : HasWritten(u)' <=> HasWritten(u)
  BY DEF HasWritten
<1>6. ~Closed
  BY IdsAreAddresses DEF Closed
<1>7. WriterInv'
  BY <1>5 DEF FieldsInv, WriterInv
<1>8. Told'
  BY <1>4, <1>5, <1>6 DEF FieldsInv, Told
<1> QED BY <1>1, <1>2, <1>7, <1>8 DEF FieldsInv

\* A writer is let in when nobody is.
LEMMA WriterEnterInv ==
  ASSUME Inv, NEW t \in Ids, WriterEnter(t)
  PROVE  Inv'
<1> USE DEF WriterEnter, Goto, Inv, PcInv
<1>1. PcInv' /\ UsedInv'
  BY DEF Points, UsedInv
<1>2. SpinlockInv'
  BY DEF SpinlockInv, Inside
<1>3. Told
  BY IdsAreAddresses DEF FieldsInv, Closed
<1>4. ReaderSet = {}
  BY <1>3, ReadersFinite DEF Told
<1>5. ReaderSet' = {}
  BY <1>4 DEF ReaderSet, HasRead
<1>6. \A u \in Ids : ~HasWritten(u)
  BY IdsAreAddresses DEF FieldsInv, WriterInv
<1>7. HasWritten(t)' /\ \A u \in Ids : HasWritten(u)' => u = t
  BY <1>6 DEF HasWritten
<1>8. WriterInv'
  BY <1>5, <1>7 DEF WriterInv
<1>9. Told'
  BY <1>3, <1>4, <1>5, <1>7 DEF Told
<1> QED BY <1>1, <1>2, <1>8, <1>9 DEF FieldsInv

\* A reader is taken out as a reader: there is no writer beside it, and no id is
\* taken for the -1 of the field.
LEMMA ReaderReleaseInv ==
  ASSUME Inv, NEW t \in Ids, Release(t), pc[t] = "rrelease449"
  PROVE  Inv'
<1> USE DEF Release, Goto, Inv, PcInv
<1>1. PcInv' /\ UsedInv'
  BY DEF Points, UsedInv
<1>2. SpinlockInv'
  BY DEF SpinlockInv, Inside
<1>3. t \in ReaderSet /\ ReaderSet' = ReaderSet \ {t}
  BY DEF ReaderSet, HasRead
<1>4. writer = -1 /\ t # AsId(writer) /\ ~Closed
  BY <1>3, IdsAreAddresses DEF FieldsInv, WriterInv, Closed
<1>5. writer' = writer /\ readers' = readers - 1
  BY <1>4
<1>6. Cardinality(ReaderSet') = Cardinality(ReaderSet) - 1
  BY <1>3, ReadersFinite, FS_RemoveElement
<1>7. \A u \in Ids : HasWritten(u)' <=> HasWritten(u)
  BY DEF HasWritten
<1>8. WriterInv'
  BY <1>4, <1>5, <1>7 DEF FieldsInv, WriterInv
<1>9. Told'
  BY <1>4, <1>5, <1>6 DEF FieldsInv, Told
<1> QED BY <1>1, <1>2, <1>8, <1>9 DEF FieldsInv

\* A writer is taken out as a writer if its id fits, and else leaves the lock
\* closed.
LEMMA WriterReleaseInv ==
  ASSUME Inv, NEW t \in Ids, Release(t), pc[t] = "wrelease449"
  PROVE  Inv'
<1> USE DEF Release, Goto, Inv, PcInv
<1>1. PcInv' /\ UsedInv'
  BY DEF Points, UsedInv
<1>2. SpinlockInv'
  BY DEF SpinlockInv, Inside
<1>3. HasWritten(t) /\ writer = Stored(t) /\ writer # -1
  BY IdsAreAddresses DEF FieldsInv, WriterInv, HasWritten
<1>4. \A u \in Ids : ~HasWritten(u)'
  BY <1>3 DEF FieldsInv, WriterInv, HasWritten
<1>5. ReaderSet = {} /\ ReaderSet' = {}
  BY <1>3 DEF FieldsInv, WriterInv, ReaderSet, HasRead
<1>6. WriterInv'
  BY <1>4, <1>5 DEF WriterInv
<1>7. readers = 0
  BY <1>3, <1>5, FS_EmptySet DEF FieldsInv, Told, Closed
<1>8. CASE FieldHolds(t)
  <2>1. writer' = -1 /\ readers' = 0
    BY <1>3, <1>7, <1>8 DEF FieldHolds
  <2>2. Told'
    BY <2>1, <1>5, FS_EmptySet DEF Told
  <2> QED BY <1>1, <1>2, <1>6, <2>2 DEF FieldsInv
<1>9. CASE ~FieldHolds(t)
  <2>1. writer' = Stored(t) /\ readers' = -1
    BY <1>3, <1>7, <1>9 DEF FieldHolds
  <2>2. used'[t] > 0
    BY DEF UsedInv
  <2>3. Closed'
    BY <1>4, <1>9, <2>1, <2>2 DEF Closed
  <2> QED BY <1>1, <1>2, <1>6, <2>3 DEF FieldsInv
<1> QED BY <1>8, <1>9

\* a step of nobody
LEMMA StutterInv ==
  ASSUME Inv, UNCHANGED vars
  PROVE  Inv'
<1> USE DEF vars, Inv, PcInv
<1>1. FieldsInv'
  BY FieldsKept DEF HasRead, HasWritten
<1> QED BY <1>1 DEF UsedInv, SpinlockInv, Inside

(***************************************************************************)
(* Theorems                                                                *)
(***************************************************************************)

\* In every reachable state the fields of the lock say who has been let in, or
\* the lock has been left closed.
THEOREM RwLockInvariant == Spec => []Inv
<1>1. Inv /\ [Next]_vars => Inv'
  <2> SUFFICES ASSUME Inv, [Next]_vars PROVE Inv'
    OBVIOUS
  <2>1. ASSUME NEW t \in Ids, Call(t) PROVE Inv'
    BY <2>1, WaitingInv
  <2>2. ASSUME NEW t \in Ids, rdlock(t) PROVE Inv'
    BY <2>2, WaitingInv, LockInv, UnlockInv, ReaderEnterInv DEF rdlock
  <2>3. ASSUME NEW t \in Ids, wrlock(t) PROVE Inv'
    BY <2>3, WaitingInv, LockInv, UnlockInv, WriterEnterInv DEF wrlock
  <2>4. ASSUME NEW t \in Ids, Release(t) PROVE Inv'
    BY <2>4, ReaderReleaseInv, WriterReleaseInv DEF Release, Goto
  <2>5. ASSUME NEW t \in Ids, unlock(t) PROVE Inv'
    BY <2>4, <2>5, LockInv, UnlockInv DEF unlock
  <2>6. CASE UNCHANGED vars
    BY <2>6, StutterInv
  <2> QED BY <2>1, <2>2, <2>3, <2>5, <2>6 DEF Next, Step
<1> QED BY InitInv, <1>1, PTL DEF Spec

\* A writer is alone between pthread_rwlock_wrlock and pthread_rwlock_unlock, for
\* any number of threads, any ids and any width of the writer field.
THEOREM RwLockExcludes == Spec => []WriterIsAlone
<1>1. Inv => WriterIsAlone
  <2> SUFFICES ASSUME Inv PROVE WriterIsAlone
    OBVIOUS
  <2>1. \A t, u \in Writers : t = u
    BY DEF Inv, FieldsInv, WriterInv, HasWritten, Writers
  <2>2. Cardinality(Writers) <= 1
    <3>1. CASE Writers = {}
      BY <3>1, FS_EmptySet
    <3>2. CASE Writers # {}
      <4>1. PICK t : t \in Writers
        BY <3>2
      <4>2. Writers = {t}
        BY <2>1, <4>1
      <4>3. Cardinality(Writers) = 1
        BY <4>2, FS_Singleton
      <4> QED BY <4>3
    <3> QED BY <3>1, <3>2
  <2>3. Writers # {} => writer # -1
    BY IdsAreAddresses DEF Inv, FieldsInv, WriterInv, HasWritten, Writers
  <2>4. writer # -1 => Readers = {}
    BY DEF Inv, FieldsInv, WriterInv, HasRead, ReaderSet, Readers
  <2> QED BY <2>2, <2>3, <2>4 DEF WriterIsAlone
<1> QED BY RwLockInvariant, <1>1, PTL

\* Whenever no call is under way, readers is the number of readers and writer is
\* -1 exactly if nobody writes; or the lock has been left closed by a writer
\* whose id the field does not hold, and nobody is inside.
THEOREM RwLockFields == Spec => []FieldsSayWho
<1>1. Inv => FieldsSayWho
  <2> SUFFICES ASSUME Inv, \A t \in Ids : pc[t] \in {"out", "reading", "writing"}
               PROVE  \/ readers = Cardinality(Readers) /\ (writer = -1 <=> Writers = {})
                      \/ LeftClosed
    BY DEF FieldsSayWho
  <2>1. Readers = ReaderSet
    BY DEF Readers, ReaderSet, HasRead
  <2>2. \A t \in Ids : HasWritten(t) <=> t \in Writers
    BY DEF HasWritten, Writers
  <2>3. Writers \subseteq Ids
    BY DEF Writers
  <2>4. CASE Told
    <3>1. writer = -1 <=> Writers = {}
      BY <2>2, <2>3, <2>4, IdsAreAddresses DEF Inv, FieldsInv, WriterInv, Told
    <3> QED BY <2>1, <2>4, <3>1 DEF Told
  <2>5. CASE Closed
    <3>1. Writers = {}
      BY <2>2, <2>3, <2>5 DEF Closed
    <3>2. Readers = {}
      BY <2>1, <2>5, IdsAreAddresses DEF Inv, FieldsInv, WriterInv, Closed
    <3> QED BY <2>5, <3>1, <3>2 DEF LeftClosed, Closed
  <2> QED BY <2>4, <2>5 DEF Inv, FieldsInv
<1> QED BY RwLockInvariant, <1>1, PTL
=============================================================================
