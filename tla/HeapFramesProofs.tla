-------------------------- MODULE HeapFramesProofs --------------------------
(***************************************************************************)
(* For any set of threads and any number of frames: the safety properties  *)
(* of HeapFrames, and that it implements FrameOwnership.                   *)
(***************************************************************************)
EXTENDS HeapFrames, TLAPS

-----------------------------------------------------------------------------
(* Constants and arithmetic *)

\* The heap may have at least the frames it starts with.
LEMMA MaxFrameCountType ==
    /\ MaxFrameCount \in Nat \ {0}
    /\ CpuCount <= MaxFrameCount
<1> DEFINE m == MaxFramesPerCPU
<1>1. CpuCount \in Nat \ {0} /\ m \in Nat \ {0}
  BY FramesAssumption
<1>2. CpuCount * m = CpuCount + CpuCount * (m - 1)
  BY <1>1
<1>3. CpuCount * (m - 1) \in Nat
  BY <1>1
<1> QED
  BY <1>1, <1>2, <1>3 DEF MaxFrameCount

\* The index tryAcquireFrame computes is the index of a frame that exists.
LEMMA IndexInRange ==
    ASSUME NEW a \in Nat, NEW n \in Nat \ {0}
    PROVE  a % n \in 0..n - 1
  OBVIOUS

-----------------------------------------------------------------------------
(* The inductive invariant *)

\* Every frame index a thread keeps is that of a frame that exists, and is
\* there when the thread is about to use it.
IndicesValid ==
    \A t \in Threads :
      /\ current[t] < frameCount
      /\ target[t] < frameCount
      /\ pc[t] \in {"tryLock", "own", "link", "claim"} => target[t] # NoFrame
      /\ pc[t] = "tryLock" => i[t] < frameCount
      /\ pc[t] \in {"held", "release"} => current[t] # NoFrame

\* From test_and_set to the clear of the flag, the flag is set.
HoldersHaveFlag ==
    \A t \in Threads : FrameOf(t) # NoFrame => locked[FrameOf(t)]

\* frames_mutex_ is the creator's while it creates a frame, and only a thread
\* in acquireFrameSync has it.
MutexDiscipline ==
    \A t \in Threads :
      /\ pc[t] \in {"link", "claim"} => framesMutex = t
      /\ framesMutex = t => pc[t] \in {"scan", "tryLock", "own", "link", "claim"}

\* The part of the invariant about who has which frame.
OwnershipInv ==
    /\ FramesAreExclusive
    /\ HoldersHaveFlag
    /\ HolderIsRecorded
    /\ NoFrameIsLost

Inv ==
    /\ TypeOK
    /\ IndicesValid
    /\ MutexDiscipline
    /\ WaitOnlyAtLimit
    /\ HolderPassesChecks
    /\ OwnershipInv

LEMMA InitEstablishesInv == Init => Inv
<1> SUFFICES ASSUME Init PROVE Inv
  OBVIOUS
<1> USE MaxFrameCountType, FramesAssumption
<1>1. TypeOK
  BY DEF Init, TypeOK, Locations, Checks, Frames
<1>2. IndicesValid /\ MutexDiscipline /\ WaitOnlyAtLimit /\ HolderPassesChecks
  BY DEF Init, IndicesValid, MutexDiscipline, WaitOnlyAtLimit,
         HolderPassesChecks, Waiting, NoFrame
<1>3. FramesAreExclusive /\ HoldersHaveFlag /\ HolderIsRecorded /\ NoFrameIsLost
  BY DEF Init, FramesAreExclusive, HoldersHaveFlag, HolderIsRecorded,
         NoFrameIsLost, FrameOf
<1> QED
  BY <1>1, <1>2, <1>3 DEF Inv, OwnershipInv

LEMMA FrameOfType ==
    ASSUME TypeOK, NEW t \in Threads
    PROVE  FrameOf(t) \in Frames \cup {NoFrame}
  BY DEF TypeOK, FrameOf

-----------------------------------------------------------------------------
(* Types and indices *)

LEMMA AbortTypes ==
    ASSUME Inv, NEW check \in Checks, Abort(check)
    PROVE  TypeOK' /\ IndicesValid'
  BY DEF Inv, TypeOK, IndicesValid, Abort, threadVars, frameVars

LEMMA TypeStep ==
    ASSUME Inv, NEW t \in Threads,
           \/ Step(t) \/ TakeMutex(t) \/ Lock(t) \/ Construct(t)
           \/ Unlock(t) \/ Gc(t) \/ WakeSpuriously(t)
    PROVE  TypeOK' /\ IndicesValid'
<1> USE MaxFrameCountType, FramesAssumption
<1> USE DEF Inv, TypeOK, IndicesValid, At, Goto, frameVars, system, NoFrame,
            Frames, Locations, Checks
<1>1. CASE ScanNext(t)
  <2> DEFINE f == (Start(t) + i[t]) % frameCount
  <2>1. Start(t) + i[t] \in Nat /\ frameCount \in Nat \ {0}
    BY DEF Start
  <2>2. f \in 0..frameCount - 1
    BY <2>1, IndexInRange
  <2>3. CASE TryLockAllowed(t, f)
    <3>1. /\ target' = [target EXCEPT ![t] = f]
          /\ pc' = [pc EXCEPT ![t] = "tryLock"]
          /\ i[t] < frameCount
          /\ UNCHANGED <<i, current, locked, threadId, linked, filled,
                         frameCount, framesMutex, aborted, debug>>
      BY <1>1, <2>3 DEF ScanNext
    <3> QED
      BY <2>2, <3>1
  <2>4. CASE ~TryLockAllowed(t, f)
    BY <1>1, <2>4, AbortTypes DEF ScanNext
  <2> QED
    BY <2>3, <2>4
<1>2. CASE Lock(t)
  <2>1. CASE debug /\ IsLocked(t)
    BY <1>2, <2>1, AbortTypes DEF Lock
  <2>2. CASE ~(debug /\ IsLocked(t))
    <3>1. /\ pc' = [pc EXCEPT ![t] = "scan"]
          /\ i' = [i EXCEPT ![t] = 0]
          /\ UNCHANGED <<target, current, frameVars, framesMutex, system>>
      BY <1>2, <2>2 DEF Lock, StartScan
    <3> QED
      BY <3>1
  <2> QED
    BY <2>1, <2>2
<1>3. CASE TryLockBusy(t)
  BY <1>3 DEF TryLockBusy
<1>4. CASE TryLockFree(t)
  BY <1>4 DEF TryLockFree
<1>5. CASE Own(t)
  BY <1>5 DEF Own
<1>6. CASE EnterSync(t)
  BY <1>6 DEF EnterSync
<1>17. CASE Wait(t)
  BY <1>17 DEF Wait
<1>7. CASE NewFrame(t)
  BY <1>7 DEF NewFrame
<1>8. CASE LinkNewFrame(t)
  <2>1. CASE linked[target[t]] \/ filled[target[t]]
    BY <1>8, <2>1, AbortTypes DEF LinkNewFrame
  <2>2. CASE ~(linked[target[t]] \/ filled[target[t]])
    <3>1. /\ linked' = [linked EXCEPT ![target[t]] = TRUE]
          /\ pc' = [pc EXCEPT ![t] = "claim"]
          /\ UNCHANGED <<i, target, current, locked, threadId, filled,
                         frameCount, framesMutex, system>>
      BY <1>8, <2>2 DEF LinkNewFrame
    <3> QED
      BY <1>8, <3>1 DEF LinkNewFrame
  <2> QED
    BY <2>1, <2>2
<1>9. CASE ClaimNewFrame(t)
  <2>1. CASE locked[target[t]]
    BY <1>9, <2>1, AbortTypes DEF ClaimNewFrame
  <2>2. CASE ~locked[target[t]]
    <3>1. /\ locked' = [locked EXCEPT ![target[t]] = TRUE]
          /\ pc' = [pc EXCEPT ![t] = "own"]
          /\ UNCHANGED <<i, target, current, threadId, linked, filled,
                         frameCount, framesMutex, system>>
      BY <1>9, <2>2 DEF ClaimNewFrame
    <3> QED
      BY <1>9, <3>1 DEF ClaimNewFrame
  <2> QED
    BY <2>1, <2>2
<1>10. CASE ReleaseFlag(t)
  BY <1>10 DEF ReleaseFlag
<1>11. CASE NotifyOne(t)
  BY <1>11 DEF NotifyOne, Waiting
<1>12. CASE TakeMutex(t)
  BY <1>12 DEF TakeMutex, StartScan
<1>13. CASE Construct(t)
  <2>1. CASE debug /\ ~IsLocked(t)
    BY <1>13, <2>1, AbortTypes DEF Construct
  <2>2. CASE ~(debug /\ ~IsLocked(t))
    BY <1>13, <2>2 DEF Construct, threadVars
  <2> QED
    BY <2>1, <2>2
<1>14. CASE Unlock(t)
  <2>1. CASE debug /\ ~IsLocked(t)
    BY <1>14, <2>1, AbortTypes DEF Unlock
  <2>2. CASE ~(debug /\ ~IsLocked(t))
    <3>1. /\ threadId' = [threadId EXCEPT ![current[t]] = NoThread]
          /\ pc' = [pc EXCEPT ![t] = "release"]
          /\ UNCHANGED <<i, target, current, locked, linked, filled,
                         frameCount, framesMutex, system>>
      BY <1>14, <2>2 DEF Unlock
    <3> QED
      BY <1>14, <3>1 DEF Unlock
  <2> QED
    BY <2>1, <2>2
<1>15. CASE Gc(t)
  <2>1. CASE IsLocked(t)
    BY <1>15, <2>1, AbortTypes DEF Gc
  <2>2. CASE ~IsLocked(t)
    BY <1>15, <2>2 DEF Gc, threadVars
  <2> QED
    BY <2>1, <2>2
<1>16. CASE WakeSpuriously(t)
  BY <1>16 DEF WakeSpuriously
<1> QED
  BY <1>1, <1>2, <1>3, <1>4, <1>5, <1>6, <1>7, <1>8, <1>9, <1>10, <1>11,
     <1>12, <1>13, <1>14, <1>15, <1>16, <1>17 DEF Step

-----------------------------------------------------------------------------
(* The mutex, the wait set and the checks of a thread that has a frame *)

\* A thread between lock() and unlock() sees itself as locked.
LEMMA HolderIsLocked ==
    ASSUME Inv, NEW t \in Threads, pc[t] = "held"
    PROVE  IsLocked(t)
  BY FramesAssumption DEF Inv, OwnershipInv, HolderIsRecorded, IsLocked,
     TypeOK, IndicesValid

LEMMA AbortControl ==
    ASSUME Inv, NEW check \in Checks \ {"current", "unlock"}, Abort(check)
    PROVE  MutexDiscipline' /\ WaitOnlyAtLimit' /\ HolderPassesChecks'
  BY DEF Inv, MutexDiscipline, WaitOnlyAtLimit, HolderPassesChecks, Waiting,
         Abort, threadVars, frameVars

LEMMA ControlStep ==
    ASSUME Inv, NEW t \in Threads,
           \/ Step(t) \/ TakeMutex(t) \/ Lock(t) \/ Construct(t)
           \/ Unlock(t) \/ Gc(t) \/ WakeSpuriously(t)
    PROVE  MutexDiscipline' /\ WaitOnlyAtLimit' /\ HolderPassesChecks'
<1> USE MaxFrameCountType, FramesAssumption
<1> USE DEF Inv, TypeOK, MutexDiscipline, WaitOnlyAtLimit, HolderPassesChecks,
            Waiting, At, Goto, frameVars, system, Checks
<1>1. CASE ScanNext(t)
  BY <1>1, AbortControl DEF ScanNext
<1>2. CASE Lock(t)
  BY <1>2, AbortControl DEF Lock, StartScan
<1>3. CASE TryLockBusy(t)
  BY <1>3 DEF TryLockBusy
<1>4. CASE TryLockFree(t)
  BY <1>4 DEF TryLockFree
<1>5. CASE Own(t)
  BY <1>5 DEF Own
<1>6. CASE EnterSync(t)
  BY <1>6 DEF EnterSync
<1>7. CASE Wait(t)
  BY <1>7 DEF Wait
<1>8. CASE NewFrame(t)
  BY <1>8 DEF NewFrame
<1>9. CASE LinkNewFrame(t)
  BY <1>9, AbortControl DEF LinkNewFrame
<1>10. CASE ClaimNewFrame(t)
  BY <1>10, AbortControl DEF ClaimNewFrame
<1>11. CASE ReleaseFlag(t)
  BY <1>11 DEF ReleaseFlag
<1>12. CASE NotifyOne(t)
  BY <1>12 DEF NotifyOne
<1>13. CASE TakeMutex(t)
  BY <1>13 DEF TakeMutex, StartScan
<1>14. CASE Construct(t)
  BY <1>14, HolderIsLocked DEF Construct, threadVars
<1>15. CASE Unlock(t)
  BY <1>15, HolderIsLocked DEF Unlock
<1>16. CASE Gc(t)
  BY <1>16, AbortControl DEF Gc, threadVars
<1>17. CASE WakeSpuriously(t)
  BY <1>17 DEF WakeSpuriously
<1> QED
  BY <1>1, <1>2, <1>3, <1>4, <1>5, <1>6, <1>7, <1>8, <1>9, <1>10, <1>11,
     <1>12, <1>13, <1>14, <1>15, <1>16, <1>17 DEF Step

-----------------------------------------------------------------------------
(* Who has which frame *)

\* A step that takes no frame, gives none back and records no id.
LEMMA QuietStep ==
    ASSUME TypeOK, OwnershipInv,
           UNCHANGED <<current, locked, threadId>>, frameCount' >= frameCount,
           frameCount' \in Nat,
           \A u \in Threads : /\ FrameOf(u)' = FrameOf(u)
                              /\ pc'[u] = "held" <=> pc[u] = "held"
    PROVE  OwnershipInv'
<1> USE DEF TypeOK, OwnershipInv
<1>1. FramesAreExclusive' /\ HoldersHaveFlag'
  BY DEF FramesAreExclusive, HoldersHaveFlag
<1>2. HolderIsRecorded'
  BY MaxFrameCountType, FramesAssumption DEF HolderIsRecorded, Frames
<1>3. NoFrameIsLost'
  BY DEF NoFrameIsLost
<1> QED
  BY <1>1, <1>2, <1>3

\* A step that sets the flag of a free frame.
LEMMA TakingStep ==
    ASSUME TypeOK, OwnershipInv,
           NEW t \in Threads, NEW f \in Frames, ~locked[f], FrameOf(t) = NoFrame,
           locked' = [locked EXCEPT ![f] = TRUE],
           UNCHANGED <<current, threadId, frameCount>>,
           FrameOf(t)' = f,
           \A u \in Threads : /\ u # t => FrameOf(u)' = FrameOf(u)
                              /\ pc'[u] = "held" <=> pc[u] = "held"
    PROVE  OwnershipInv'
<1> USE DEF TypeOK, OwnershipInv
<1>1. \A u \in Threads : FrameOf(u) # f
  BY DEF HoldersHaveFlag, Frames, NoFrame
<1>2. FramesAreExclusive'
  BY <1>1 DEF FramesAreExclusive, Frames, NoFrame
<1>3. HoldersHaveFlag'
  <2> SUFFICES ASSUME NEW u \in Threads, FrameOf(u)' # NoFrame
               PROVE  locked'[FrameOf(u)']
    BY DEF HoldersHaveFlag
  <2>1. CASE u = t
    BY <2>1
  <2>2. CASE u # t
    BY <2>2, FrameOfType DEF HoldersHaveFlag
  <2> QED
    BY <2>1, <2>2
<1>4. HolderIsRecorded'
  BY DEF HolderIsRecorded
<1>5. NoFrameIsLost'
  BY <1>1 DEF NoFrameIsLost, Frames, NoFrame
<1> QED
  BY <1>2, <1>3, <1>4, <1>5

\* The step that records the owner: the frame was the thread's already.
LEMMA RecordingStep ==
    ASSUME Inv, NEW t \in Threads, Own(t)
    PROVE  OwnershipInv' /\ \A u \in Threads : FrameOf(u)' = FrameOf(u)
<1> USE DEF Inv, OwnershipInv, At, Goto, NoFrame
<1> DEFINE f == target[t]
<1>1. /\ pc[t] = "own" /\ pc' = [pc EXCEPT ![t] = "held"]
      /\ threadId' = [threadId EXCEPT ![f] = t]
      /\ current' = [current EXCEPT ![t] = f]
      /\ target' = [target EXCEPT ![t] = NoFrame]
      /\ UNCHANGED <<locked, frameCount>>
  BY DEF Own
<1>2. f \in Frames /\ f \in 0..frameCount - 1 /\ FrameOf(t) = f
  BY <1>1, FramesAssumption DEF TypeOK, IndicesValid, FrameOf, Frames
<1>3. \A u \in Threads : FrameOf(u)' = FrameOf(u)
  BY <1>1, <1>2 DEF TypeOK, FrameOf
<1>4. FramesAreExclusive' /\ HoldersHaveFlag'
  BY <1>1, <1>3 DEF FramesAreExclusive, HoldersHaveFlag
<1>5. HolderIsRecorded'
  <2> SUFFICES ASSUME NEW u \in Threads, pc'[u] = "held"
               PROVE  /\ current'[u] \in 0..frameCount' - 1
                      /\ locked'[current'[u]]
                      /\ threadId'[current'[u]] = u
    BY DEF HolderIsRecorded
  <2>1. CASE u = t
    BY <1>1, <1>2, <2>1 DEF TypeOK, HoldersHaveFlag
  <2>2. CASE u # t
    <3>1. pc[u] = "held" /\ current'[u] = current[u] /\ FrameOf(u) = current[u]
      BY <1>1, <2>2 DEF TypeOK, FrameOf
    <3>2. current[u] # f
      BY <1>2, <2>2, <3>1 DEF FramesAreExclusive, Frames
    <3> QED
      BY <1>1, <3>1, <3>2 DEF TypeOK, HolderIsRecorded
  <2> QED
    BY <2>1, <2>2
<1>6. NoFrameIsLost'
  <2> SUFFICES ASSUME NEW g \in Frames
               PROVE  /\ locked'[g] => \E u \in Threads : FrameOf(u)' = g
                      /\ threadId'[g] # NoThread =>
                           pc'[threadId'[g]] = "held" /\ current'[threadId'[g]] = g
    BY DEF NoFrameIsLost
  <2>1. locked'[g] => \E u \in Threads : FrameOf(u)' = g
    BY <1>1, <1>3 DEF NoFrameIsLost
  <2>2. CASE g = f
    BY <1>1, <1>2, <2>1, <2>2 DEF TypeOK
  <2>3. CASE g # f
    BY <1>1, <2>1, <2>3 DEF TypeOK, NoFrameIsLost
  <2> QED
    BY <2>2, <2>3
<1> QED
  BY <1>3, <1>4, <1>5, <1>6

\* The two stores of unlock: the id goes first, then the flag.
LEMMA ForgettingStep ==
    ASSUME Inv, NEW t \in Threads, Unlock(t)
    PROVE  OwnershipInv' /\ \A u \in Threads : FrameOf(u)' = FrameOf(u)
<1> USE DEF Inv, OwnershipInv, At, Goto, NoFrame
<1> DEFINE f == current[t]
<1>1. /\ pc[t] = "held" /\ pc' = [pc EXCEPT ![t] = "release"]
      /\ threadId' = [threadId EXCEPT ![f] = NoThread]
      /\ UNCHANGED <<current, target, locked, frameCount>>
  BY HolderIsLocked DEF Unlock
<1>2. f \in Frames /\ FrameOf(t) = f
  BY <1>1 DEF TypeOK, IndicesValid, FrameOf
<1>3. \A u \in Threads : FrameOf(u)' = FrameOf(u)
  BY <1>1, <1>2 DEF TypeOK, FrameOf
<1>4. FramesAreExclusive' /\ HoldersHaveFlag'
  BY <1>1, <1>3 DEF FramesAreExclusive, HoldersHaveFlag
<1>5. HolderIsRecorded'
  <2> SUFFICES ASSUME NEW u \in Threads, pc'[u] = "held"
               PROVE  /\ current[u] \in 0..frameCount - 1
                      /\ locked[current[u]]
                      /\ threadId'[current[u]] = u
    BY <1>1 DEF HolderIsRecorded
  <2>1. u # t /\ pc[u] = "held" /\ FrameOf(u) = current[u]
    BY <1>1 DEF TypeOK, FrameOf
  <2>2. current[u] # f
    BY <1>2, <2>1 DEF FramesAreExclusive, Frames
  <2> QED
    BY <1>1, <2>1, <2>2 DEF TypeOK, HolderIsRecorded
<1>6. NoFrameIsLost'
  <2>1. \A g \in Frames : locked'[g] => \E u \in Threads : FrameOf(u)' = g
    BY <1>1, <1>3 DEF NoFrameIsLost
  <2>2. ASSUME NEW g \in Frames, threadId'[g] # NoThread
        PROVE  pc'[threadId'[g]] = "held" /\ current'[threadId'[g]] = g
    BY <1>1, <2>2 DEF TypeOK, NoFrameIsLost
  <2> QED
    BY <2>1, <2>2 DEF NoFrameIsLost
<1> QED
  BY <1>3, <1>4, <1>5, <1>6

LEMMA ReturningStep ==
    ASSUME Inv, NEW t \in Threads, ReleaseFlag(t)
    PROVE  /\ OwnershipInv'
           /\ FrameOf(t) # NoFrame /\ FrameOf(t)' = NoFrame
           /\ \A u \in Threads \ {t} : FrameOf(u)' = FrameOf(u)
<1> USE DEF Inv, OwnershipInv, At, Goto, NoFrame
<1> DEFINE f == current[t]
<1>1. /\ pc[t] = "release" /\ pc' = [pc EXCEPT ![t] = "notify"]
      /\ locked' = [locked EXCEPT ![f] = FALSE]
      /\ UNCHANGED <<current, target, threadId, frameCount>>
  BY DEF ReleaseFlag
<1>2. f \in Frames /\ FrameOf(t) = f /\ f # NoFrame
  BY <1>1 DEF TypeOK, IndicesValid, FrameOf, Frames
<1>3. FrameOf(t)' = NoFrame /\ \A u \in Threads \ {t} : FrameOf(u)' = FrameOf(u)
  BY <1>1 DEF TypeOK, FrameOf
<1>4. \A u \in Threads \ {t} : FrameOf(u) # f
  BY <1>2 DEF FramesAreExclusive
<1>5. FramesAreExclusive'
  BY <1>3 DEF FramesAreExclusive
<1>6. HoldersHaveFlag'
  <2> SUFFICES ASSUME NEW u \in Threads, FrameOf(u)' # NoFrame
               PROVE  locked'[FrameOf(u)']
    BY DEF HoldersHaveFlag
  <2>1. u # t /\ FrameOf(u)' = FrameOf(u) /\ FrameOf(u) # f
    BY <1>3, <1>4
  <2>2. locked[FrameOf(u)] /\ FrameOf(u) \in Frames
    BY <2>1, FrameOfType DEF HoldersHaveFlag
  <2> QED
    BY <1>1, <2>1, <2>2 DEF TypeOK
<1>7. HolderIsRecorded'
  <2> SUFFICES ASSUME NEW u \in Threads, pc'[u] = "held"
               PROVE  /\ current[u] \in 0..frameCount - 1
                      /\ locked'[current[u]]
                      /\ threadId[current[u]] = u
    BY <1>1 DEF HolderIsRecorded
  <2>1. u # t /\ pc[u] = "held" /\ FrameOf(u) = current[u]
    BY <1>1 DEF TypeOK, FrameOf
  <2>2. current[u] # f /\ current[u] \in Frames
    BY <1>4, <2>1 DEF TypeOK, IndicesValid
  <2> QED
    BY <1>1, <2>1, <2>2 DEF TypeOK, HolderIsRecorded
<1>8. NoFrameIsLost'
  <2>1. ASSUME NEW g \in Frames, locked'[g]
        PROVE  \E u \in Threads : FrameOf(u)' = g
    <3>1. g # f /\ locked[g]
      BY <1>1, <1>2, <2>1 DEF TypeOK
    <3>2. PICK u \in Threads : FrameOf(u) = g
      BY <3>1 DEF NoFrameIsLost
    <3> QED
      BY <1>2, <1>3, <3>1, <3>2
  <2>2. ASSUME NEW g \in Frames, threadId'[g] # NoThread
        PROVE  pc'[threadId'[g]] = "held" /\ current'[threadId'[g]] = g
    BY <1>1, <2>2 DEF TypeOK, NoFrameIsLost
  <2> QED
    BY <2>1, <2>2 DEF NoFrameIsLost
<1> QED
  BY <1>2, <1>3, <1>5, <1>6, <1>7, <1>8

-----------------------------------------------------------------------------
(* What a step does, as FrameOwnership sees it *)

SameFrames == \A u \in Threads : FrameOf(u)' = FrameOf(u)

Takes(t) ==
    /\ FrameOf(t) = NoFrame
    /\ \E f \in 0..frameCount - 1 :
         /\ \A u \in Threads : FrameOf(u) # f
         /\ FrameOf(t)' = f
    /\ \A u \in Threads \ {t} : FrameOf(u)' = FrameOf(u)
    /\ UNCHANGED frameCount

Returns(t) ==
    /\ FrameOf(t) # NoFrame
    /\ FrameOf(t)' = NoFrame
    /\ \A u \in Threads \ {t} : FrameOf(u)' = FrameOf(u)
    /\ UNCHANGED frameCount

Grows ==
    /\ SameFrames
    /\ frameCount < MaxFrameCount
    /\ frameCount' = frameCount + 1

Moves(t) ==
    \/ SameFrames /\ UNCHANGED frameCount
    \/ Takes(t)
    \/ Returns(t)
    \/ Grows

\* The step that sets the flag of a frame, in the loop or in newFrame.
LEMMA FlagStep ==
    ASSUME Inv, NEW t \in Threads,
           pc[t] \in {"tryLock", "claim"}, ~locked[target[t]],
           locked' = [locked EXCEPT ![target[t]] = TRUE],
           pc' = [pc EXCEPT ![t] = "own"],
           UNCHANGED <<target, current, threadId, frameCount>>
    PROVE  OwnershipInv' /\ Takes(t)
<1> USE DEF Inv, OwnershipInv, NoFrame
<1> DEFINE f == target[t]
<1>1. f \in Frames /\ f \in 0..frameCount - 1
  BY FramesAssumption DEF TypeOK, IndicesValid, Frames
<1>2. FrameOf(t) = NoFrame /\ FrameOf(t)' = f
  BY DEF TypeOK, FrameOf
<1>3. \A u \in Threads : /\ u # t => FrameOf(u)' = FrameOf(u)
                         /\ pc'[u] = "held" <=> pc[u] = "held"
  BY DEF TypeOK, FrameOf
<1>4. \A u \in Threads : FrameOf(u) # f
  BY <1>1 DEF HoldersHaveFlag, Frames
<1>5. OwnershipInv'
  BY <1>1, <1>2, <1>3, TakingStep
<1> QED
  BY <1>1, <1>2, <1>3, <1>4, <1>5 DEF Takes

\* The steps that leave flags, ids and current frames alone.
LEMMA OtherStep ==
    ASSUME Inv, TypeOK',
           UNCHANGED <<current, locked, threadId>>,
           \/ UNCHANGED frameCount
           \/ frameCount < MaxFrameCount /\ frameCount' = frameCount + 1,
           \A u \in Threads :
             \/ pc'[u] = pc[u] /\ target'[u] = target[u]
             \/ {pc[u], pc'[u]} \cap {"own", "held", "release"} = {}
    PROVE  OwnershipInv' /\ (Grows \/ (SameFrames /\ UNCHANGED frameCount))
<1> USE DEF Inv, TypeOK
<1>1. /\ SameFrames
      /\ \A u \in Threads : pc'[u] = "held" <=> pc[u] = "held"
  BY DEF SameFrames, FrameOf
<1>2. frameCount' >= frameCount /\ frameCount' \in Nat
  BY MaxFrameCountType, FramesAssumption
<1>3. OwnershipInv'
  BY <1>1, <1>2, QuietStep DEF SameFrames
<1>4. CASE UNCHANGED frameCount
  BY <1>1, <1>3, <1>4
<1>5. CASE frameCount < MaxFrameCount /\ frameCount' = frameCount + 1
  BY <1>1, <1>3, <1>5 DEF Grows
<1> QED
  BY <1>4, <1>5

LEMMA AbortOther ==
    ASSUME Inv, NEW check \in Checks, Abort(check)
    PROVE  OwnershipInv' /\ SameFrames /\ UNCHANGED frameCount
<1>1. TypeOK'
  BY AbortTypes
<1> QED
  BY <1>1, OtherStep DEF Abort, threadVars, frameVars, Grows

LEMMA OwnershipStep ==
    ASSUME Inv, TypeOK', NEW t \in Threads,
           \/ Step(t) \/ TakeMutex(t) \/ Lock(t) \/ Construct(t)
           \/ Unlock(t) \/ Gc(t) \/ WakeSpuriously(t)
    PROVE  OwnershipInv' /\ Moves(t)
<1> USE DEF At, Goto, frameVars, Moves, Checks
<1>0. pc \in [Threads -> Locations] /\ target \in [Threads -> Frames \cup {NoFrame}]
  BY DEF Inv, TypeOK
<1>1. CASE ScanNext(t)
  BY <1>0, <1>1, AbortOther, OtherStep DEF ScanNext
<1>2. CASE Lock(t)
  BY <1>0, <1>2, AbortOther, OtherStep DEF Lock, StartScan
<1>3. CASE TryLockBusy(t)
  BY <1>0, <1>3, OtherStep DEF TryLockBusy
<1>4. CASE TryLockFree(t)
  BY <1>4, FlagStep DEF TryLockFree
<1>5. CASE Own(t)
  BY <1>5, RecordingStep DEF Own, SameFrames
<1>6. CASE EnterSync(t)
  BY <1>0, <1>6, OtherStep DEF EnterSync
<1>7. CASE Wait(t)
  BY <1>0, <1>7, OtherStep DEF Wait
<1>8. CASE NewFrame(t)
  BY <1>0, <1>8, OtherStep DEF NewFrame
<1>9. CASE LinkNewFrame(t)
  BY <1>0, <1>9, AbortOther, OtherStep DEF LinkNewFrame
<1>10. CASE ClaimNewFrame(t)
  BY <1>10, AbortOther, FlagStep DEF ClaimNewFrame
<1>11. CASE ReleaseFlag(t)
  BY <1>11, ReturningStep DEF ReleaseFlag, Returns
<1>12. CASE NotifyOne(t)
  BY <1>0, <1>12, OtherStep DEF NotifyOne, Waiting
<1>13. CASE TakeMutex(t)
  BY <1>0, <1>13, OtherStep DEF TakeMutex, StartScan
<1>14. CASE Construct(t)
  BY <1>14, HolderIsLocked, OtherStep DEF Construct, threadVars
<1>15. CASE Unlock(t)
  BY <1>15, HolderIsLocked, ForgettingStep DEF Unlock, SameFrames
<1>16. CASE Gc(t)
  BY <1>16, AbortOther, OtherStep DEF Gc, threadVars
<1>17. CASE WakeSpuriously(t)
  BY <1>0, <1>17, OtherStep DEF WakeSpuriously
<1> QED
  BY <1>1, <1>2, <1>3, <1>4, <1>5, <1>6, <1>7, <1>8, <1>9, <1>10, <1>11,
     <1>12, <1>13, <1>14, <1>15, <1>16, <1>17 DEF Step

-----------------------------------------------------------------------------
(* Theorems *)

LEMMA StutterPreserves ==
    ASSUME Inv, UNCHANGED vars
    PROVE  Inv' /\ SameFrames /\ UNCHANGED frameCount
<1> USE DEF vars
<1>1. TypeOK' /\ IndicesValid' /\ MutexDiscipline' /\ WaitOnlyAtLimit' /\ HolderPassesChecks'
  BY DEF Inv, TypeOK, IndicesValid, MutexDiscipline, WaitOnlyAtLimit, Waiting,
         HolderPassesChecks
<1>2. OwnershipInv' /\ SameFrames
  BY DEF Inv, OwnershipInv, FramesAreExclusive, HoldersHaveFlag,
         HolderIsRecorded, NoFrameIsLost, FrameOf, SameFrames
<1> QED
  BY <1>1, <1>2 DEF Inv

LEMMA StepPreserves ==
    ASSUME Inv, NEW t \in Threads,
           \/ Step(t) \/ TakeMutex(t) \/ Lock(t) \/ Construct(t)
           \/ Unlock(t) \/ Gc(t) \/ WakeSpuriously(t)
    PROVE  Inv' /\ Moves(t)
<1>1. TypeOK' /\ IndicesValid'
  BY TypeStep
<1>2. MutexDiscipline' /\ WaitOnlyAtLimit' /\ HolderPassesChecks'
  BY ControlStep
<1>3. OwnershipInv' /\ Moves(t)
  BY <1>1, OwnershipStep
<1> QED
  BY <1>1, <1>2, <1>3 DEF Inv

\* The invariant holds in every reachable state, whatever the number of
\* threads, processors and frames.
THEOREM Invariance == Spec => []Inv
<1>1. Init => Inv
  BY InitEstablishesInv
<1>2. Inv /\ [Next]_vars => Inv'
  BY StepPreserves, StutterPreserves DEF Next
<1> QED
  BY <1>1, <1>2, PTL DEF Spec

\* Every variable keeps its type; in particular no frame index leaves the
\* memory reserved for frames and the frame count stays in its bounds.
THEOREM TypeCorrectness == Spec => []TypeOK
<1>1. Inv => TypeOK
  BY DEF Inv
<1> QED
  BY <1>1, Invariance, PTL

\* Two threads never have the same frame.
THEOREM Exclusion == Spec => []FramesAreExclusive
<1>1. Inv => FramesAreExclusive
  BY DEF Inv, OwnershipInv
<1> QED
  BY <1>1, Invariance, PTL

\* A thread between lock() and unlock() has its flag and its id in its frame.
THEOREM Recording == Spec => []HolderIsRecorded
<1>1. Inv => HolderIsRecorded
  BY DEF Inv, OwnershipInv
<1> QED
  BY <1>1, Invariance, PTL

\* A set flag, and a recorded id, always belong to a thread that has the
\* frame.
THEOREM NoLoss == Spec => []NoFrameIsLost
<1>1. Inv => NoFrameIsLost
  BY DEF Inv, OwnershipInv
<1> QED
  BY <1>1, Invariance, PTL

\* The checks of unlock() and of Frame::current() never fail for a client
\* that locks and unlocks in turn.
THEOREM HolderChecks == Spec => []HolderPassesChecks
<1>1. Inv => HolderPassesChecks
  BY DEF Inv
<1> QED
  BY <1>1, Invariance, PTL

\* Nobody waits for a frame while the heap could add one.
THEOREM WaitingAtLimit == Spec => []WaitOnlyAtLimit
<1>1. Inv => WaitOnlyAtLimit
  BY DEF Inv
<1> QED
  BY <1>1, Invariance, PTL

\* lock() and unlock() implement the abstract ownership of frames: every step
\* is an Acquire, a Release, a Grow or a step that FrameOwnership cannot see.
THEOREM Implementation == Spec => ImplementsOwnership
<1>1. Init => Ownership!Init
  BY MaxFrameCountType, FramesAssumption
     DEF Init, Ownership!Init, Ownership!Nothing, FrameOf, NoFrame
<1>2. Inv /\ [Next]_vars => [Ownership!Next]_(Ownership!vars)
  <2> SUFFICES ASSUME Inv, [Next]_vars
               PROVE  Ownership!Next \/ UNCHANGED Ownership!vars
    OBVIOUS
  <2> USE DEF NoFrame, Ownership!Nothing
  <2>1. CASE UNCHANGED vars
    BY <2>1, StutterPreserves DEF SameFrames, Ownership!vars
  <2>2. ASSUME NEW t \in Threads, Moves(t)
        PROVE  Ownership!Next \/ UNCHANGED Ownership!vars
    <3>1. CASE SameFrames /\ UNCHANGED frameCount
      BY <3>1 DEF SameFrames, Ownership!vars
    <3>2. CASE Takes(t)
      BY <3>2 DEF Takes, Ownership!Next, Ownership!Acquire, Ownership!Taken
    <3>3. CASE Returns(t)
      BY <3>3 DEF Returns, Ownership!Next, Ownership!Release
    <3>4. CASE Grows
      BY <3>4 DEF Grows, SameFrames, Ownership!Next, Ownership!Grow
    <3> QED
      BY <2>2, <3>1, <3>2, <3>3, <3>4 DEF Moves
  <2> QED
    BY <2>1, <2>2, StepPreserves DEF Next
<1> QED
  BY <1>1, <1>2, Invariance, PTL DEF Spec, ImplementsOwnership, Ownership!Spec

\* No step puts one thread's id in place of another's, and the frame count
\* never goes down.
THEOREM Handover == Spec => HandoverThroughRelease
<1> DEFINE Good ==
      /\ frameCount' >= frameCount
      /\ \A f \in Frames :
           threadId'[f] # threadId[f] => NoThread \in {threadId[f], threadId'[f]}
<1>1. Inv /\ [Next]_vars => [Good]_vars
  <2> SUFFICES ASSUME Inv, NEW t \in Threads,
                      \/ Step(t) \/ TakeMutex(t) \/ Lock(t) \/ Construct(t)
                      \/ Unlock(t) \/ Gc(t) \/ WakeSpuriously(t)
               PROVE  Good
    BY DEF Next
  <2> USE DEF Goto, At, frameVars
  <2>1. frameCount \in Nat /\ threadId \in [Frames -> Threads \cup {NoThread}]
    BY MaxFrameCountType, FramesAssumption DEF Inv, TypeOK
  <2>2. CASE Own(t)
    <3>1. threadId[target[t]] = NoThread
      BY <2>2, <2>1 DEF Inv, TypeOK, OwnershipInv, NoFrameIsLost, FrameOf,
         FramesAreExclusive, Own, IndicesValid, NoFrame
    <3> QED
      BY <2>1, <2>2, <3>1 DEF Own
  <2>3. CASE Unlock(t)
    BY <2>1, <2>3, HolderIsLocked DEF Unlock
  <2>4. CASE NewFrame(t)
    BY <2>1, <2>4 DEF NewFrame
  <2>5. CASE ~Own(t) /\ ~Unlock(t) /\ ~NewFrame(t)
    <3>1. UNCHANGED <<threadId, frameCount>>
      BY <2>5 DEF Step, ScanNext, TryLockBusy, TryLockFree, EnterSync, Wait,
         LinkNewFrame, ClaimNewFrame, ReleaseFlag, NotifyOne, TakeMutex, Lock,
         Construct, Gc, WakeSpuriously, Abort
    <3> QED
      BY <2>1, <3>1
  <2> QED
    BY <2>2, <2>3, <2>4, <2>5
<1> QED
  BY <1>1, Invariance, PTL DEF Spec, HandoverThroughRelease

=============================================================================
