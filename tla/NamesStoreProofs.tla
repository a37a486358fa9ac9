-------------------------- MODULE NamesStoreProofs --------------------------
(***************************************************************************)
(* Proofs about the store of labels, for any writers, keys and labels.     *)
(* LabelSurvives holds whatever fails; that removals survive too is proved *)
(* for as long as no load and no write has failed.                         *)
(***************************************************************************)
EXTENDS NamesStore, TLAPS

(* Type correctness: the file is a complete map in every state, although   *)
(* a write can fail at any point (persistLocked).                          *)
THEOREM TypeCorrect == Spec => []TypeOK
<1>1. Init => TypeOK
  BY DEF Init, TypeOK, Map, Empty
<1>2. TypeOK /\ [Next]_vars => TypeOK'
  <2> SUFFICES ASSUME TypeOK, [Next]_vars PROVE TypeOK'
    OBVIOUS
  <2> USE DEF TypeOK, Map
  <2>1. CASE Load
    BY <2>1 DEF Load
  <2>2. CASE LoadFails
    BY <2>2 DEF LoadFails
  <2>3. CASE Crash
    BY <2>3 DEF Crash, Empty
  <2>4. ASSUME NEW w \in Writers, NEW k \in Keys, Delete(w, k) PROVE TypeOK'
    BY <2>4 DEF Delete, Lock
  <2>5. ASSUME NEW w \in Writers, NEW k \in Keys, NEW l \in Labels, Set(w, k, l)
        PROVE  TypeOK'
    BY <2>5 DEF Set, Lock
  <2>6. ASSUME NEW k \in Keys, DeleteNothing(k) PROVE TypeOK'
    BY <2>6 DEF DeleteNothing
  <2>7. ASSUME NEW w \in Writers, Persist(w) PROVE TypeOK'
    BY <2>7 DEF Persist
  <2>8. ASSUME NEW w \in Writers, PersistFails(w) PROVE TypeOK'
    BY <2>8 DEF PersistFails
  <2>9. CASE UNCHANGED vars
    BY <2>9 DEF vars
  <2> QED
    BY <2>1, <2>2, <2>3, <2>4, <2>5, <2>6, <2>7, <2>8, <2>9 DEF Next
<1> QED
  BY <1>1, <1>2, PTL DEF Spec

-----------------------------------------------------------------------------
(* What was acknowledged as a label stays, whatever fails.                 *)

Kept == LabelSurvives /\ LabelServed

LEMMA KeptNext == TypeOK /\ Kept /\ [Next]_vars => Kept'
<1> SUFFICES ASSUME TypeOK, Kept, [Next]_vars PROVE Kept'
  OBVIOUS
<1> USE NamesConstants DEF TypeOK, Map, Kept, LabelSurvives, LabelServed
<1>1. CASE Load
  BY <1>1 DEF Load
<1>2. CASE LoadFails
  BY <1>2 DEF LoadFails
<1>3. CASE Crash
  BY <1>3 DEF Crash
<1>4. ASSUME NEW w \in Writers, NEW k \in Keys, Delete(w, k) PROVE Kept'
  BY <1>4 DEF Delete, Lock
<1>5. ASSUME NEW w \in Writers, NEW k \in Keys, NEW l \in Labels, Set(w, k, l)
      PROVE  Kept'
  BY <1>5 DEF Set, Lock
<1>6. ASSUME NEW k \in Keys, DeleteNothing(k) PROVE Kept'
  BY <1>6 DEF DeleteNothing
<1>7. ASSUME NEW w \in Writers, Persist(w) PROVE Kept'
  <2>1. running
    BY <1>7 DEF Persist
  <2>2. \A q \in Keys : told'[q] \in Labels => names[q] = told'[q]
    BY <1>7, <2>1 DEF Persist
  <2> QED
    BY <1>7, <2>1, <2>2 DEF Persist
<1>8. ASSUME NEW w \in Writers, PersistFails(w) PROVE Kept'
  BY <1>8 DEF PersistFails
<1>9. CASE UNCHANGED vars
  BY <1>9 DEF vars
<1> QED
  BY <1>1, <1>2, <1>3, <1>4, <1>5, <1>6, <1>7, <1>8, <1>9 DEF Next

(* A label that was acknowledged stays in the file until its key is        *)
(* changed again: labels of other keys that are written, refused or lost   *)
(* in between do not disturb it.                                           *)
THEOREM LabelsSurvive == Spec => []LabelSurvives
<1>1. Init => Kept
  <2> SUFFICES ASSUME Init PROVE Kept
    OBVIOUS
  <2> QED
    BY DEF Init, Kept, LabelSurvives, LabelServed, Map
<1>2. TypeOK /\ Kept /\ [Next]_vars => Kept'
  BY KeptNext
<1>3. Kept => LabelSurvives
  BY DEF Kept
<1> QED
  BY <1>1, <1>2, <1>3, TypeCorrect, PTL DEF Spec

-----------------------------------------------------------------------------
(* While nothing has failed removals survive too.  Memory and file then    *)
(* differ in the change under way and nowhere else.                        *)

Durable == ServedIsDurable /\ ChangeUnderWay /\ DurableWhileDiskWorks

LEMMA DurableNext ==
  ASSUME TypeOK, Durable, [Next]_vars
  PROVE  Durable'
<1> USE NamesConstants
    DEF TypeOK, Map, Durable, ServedIsDurable, ChangeUnderWay,
        DurableWhileDiskWorks, AcknowledgedSurvives
<1>1. CASE Load
  BY <1>1 DEF Load
<1>2. CASE LoadFails
  BY <1>2 DEF LoadFails
<1>3. CASE Crash
  BY <1>3 DEF Crash
<1>4. ASSUME NEW w \in Writers, NEW k \in Keys, Delete(w, k) PROVE Durable'
  BY <1>4 DEF Delete, Lock
<1>5. ASSUME NEW w \in Writers, NEW k \in Keys, NEW l \in Labels, Set(w, k, l)
      PROVE  Durable'
  BY <1>5 DEF Set, Lock
<1>6. ASSUME NEW k \in Keys, DeleteNothing(k) PROVE Durable'
  BY <1>6 DEF DeleteNothing
<1>7. ASSUME NEW w \in Writers, Persist(w) PROVE Durable'
  <2>1. ~failed => running /\ \A q \in Keys \ {changing} : names[q] = file[q]
    BY <1>7 DEF Persist
  <2>2. ~failed => \A q \in Keys : told'[q] \in {names[q], Unknown}
    BY <1>7, <2>1 DEF Persist
  <2> QED
    BY <1>7, <2>2 DEF Persist
<1>8. ASSUME NEW w \in Writers, PersistFails(w) PROVE Durable'
  BY <1>8 DEF PersistFails
<1>9. CASE UNCHANGED vars
  BY <1>9 DEF vars
<1> QED
  BY <1>1, <1>2, <1>3, <1>4, <1>5, <1>6, <1>7, <1>8, <1>9 DEF Next

(* While no load and no write has failed, whatever was acknowledged, a     *)
(* label or its removal, is what the next process loads, and what this one *)
(* serves.                                                                 *)
THEOREM ChangesSurvive == Spec => [](DurableWhileDiskWorks /\ ServedIsDurable)
<1>1. Init => Durable
  BY DEF Init, Durable, ServedIsDurable, ChangeUnderWay, DurableWhileDiskWorks,
         AcknowledgedSurvives
<1>2. TypeOK /\ Durable /\ [Next]_vars => Durable'
  BY DurableNext
<1>3. Durable => DurableWhileDiskWorks /\ ServedIsDurable
  BY DEF Durable
<1> QED
  BY <1>1, <1>2, <1>3, TypeCorrect, PTL DEF Spec
=============================================================================
