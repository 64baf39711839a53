----------------------------- MODULE HeapFrames -----------------------------
(***************************************************************************)
(* Heap::lock, Heap::unlock and the check of Heap::gc: how threads share   *)
(* the frames of a heap.  A frame is taken with an atomic flag; a thread   *)
(* first scans all frames without any mutex, starting at the frame it had  *)
(* last, and only when they are all busy takes frames_mutex_, tries again, *)
(* and then adds a frame or, at the limit, waits on frame_released_.       *)
(* Releasing a frame and notifying happen without the mutex.               *)
(*                                                                         *)
(* A step is one access to state that other threads may access at the same *)
(* time.  Accesses are interleaved in program order (no weak memory).      *)
(*                                                                         *)
(*   source                          here                                  *)
(*   Frame::current_ (thread_local)  current[t]                            *)
(*   Frame::locked_, thread_id_      locked[f], threadId[f]                *)
(*   Space::next_generation_ # null  linked[f]    (of the frame's nursery) *)
(*   ~Space::blocks_.empty()         filled[f]    (of the frame's nursery) *)
(*   the wait set of frame_released_ the threads at "wait"                 *)
(***************************************************************************)
EXTENDS Integers, FiniteSets

CONSTANTS
    Threads,            \* the threads that use the heap
    NoThread,           \* std::thread::id(), the id of no thread
    CpuCount,           \* frames the heap starts with
    MaxFramesPerCPU     \* 4 in heap.cpp

ASSUME FramesAssumption ==
    /\ NoThread \notin Threads
    /\ CpuCount \in Nat \ {0}
    /\ MaxFramesPerCPU \in Nat \ {0}

MaxFrameCount == CpuCount * MaxFramesPerCPU

Frames == 0..MaxFrameCount - 1

NoFrame == -1           \* nullptr

VARIABLES
    pc,                 \* pc[t]: where thread t is
    i,                  \* i[t]: the loop counter of tryAcquireFrame
    target,             \* target[t]: the frame t is calling tryLock on
    current,
    locked,
    threadId,
    linked,
    filled,
    frameCount,
    framesMutex,        \* the thread that has frames_mutex_, or NoThread
    aborted,            \* the check that ended the process, or "no"
    debug               \* whether the build has WORTHY_DCHECK; never changes

vars == <<pc, i, target, current, locked, threadId, linked, filled,
          frameCount, framesMutex, aborted, debug>>

threadVars == <<pc, i, target, current>>
frameVars  == <<locked, threadId, linked, filled, frameCount>>
system     == <<aborted, debug>>

Locations == {"idle",                   \* outside lock() .. unlock()
              "scan",                   \* the loop of tryAcquireFrame
              "tryLock",                \* before test_and_set
              "own",                    \* after a successful test_and_set
              "mutex",                  \* waiting for frames_mutex_
              "wait",                   \* in the wait set of frame_released_
              "link",                   \* newFrame, after ++frame_count_
              "claim",                  \* before the tryLock of the new frame
              "held",                   \* between lock() and unlock()
              "release",                \* unlock, after thread_id_ is reset
              "notify"}                 \* unlock, after locked_ is cleared

Checks == {"lock", "tryLock", "link", "claim", "current", "unlock", "gc"}

\* Heap::isLocked, as thread t evaluates it.
IsLocked(t) == current[t] # NoFrame /\ threadId[current[t]] # NoThread

\* The frame tryAcquireFrame starts with.
Start(t) == IF current[t] = NoFrame THEN 0 ELSE current[t]

\* The check in Frame::tryLock.
TryLockAllowed(t, f) == debug => (current[t] = f => threadId[f] = NoThread)

\* While the process runs, thread t is at location.
At(t, location) == aborted = "no" /\ pc[t] = location

Goto(t, location) == pc' = [pc EXCEPT ![t] = location]

\* fatal() ends the process: no thread takes another step.
Abort(check) ==
    /\ aborted' = check
    /\ UNCHANGED <<threadVars, frameVars, framesMutex, debug>>

Init ==
    /\ pc = [t \in Threads |-> "idle"]
    /\ i = [t \in Threads |-> 0]
    /\ target = [t \in Threads |-> NoFrame]
    /\ current = [t \in Threads |-> NoFrame]
    /\ locked = [f \in Frames |-> FALSE]
    /\ threadId = [f \in Frames |-> NoThread]
    /\ linked = [f \in Frames |-> f < CpuCount]
    /\ filled = [f \in Frames |-> FALSE]
    /\ frameCount = CpuCount
    /\ framesMutex = NoThread
    /\ aborted = "no"
    /\ debug \in BOOLEAN

-----------------------------------------------------------------------------
(* Heap::lock *)

StartScan(t) ==
    /\ Goto(t, "scan")
    /\ i' = [i EXCEPT ![t] = 0]

Lock(t) ==
    /\ At(t, "idle")
    /\ IF debug /\ IsLocked(t)
         THEN Abort("lock")
         ELSE /\ StartScan(t)
              /\ UNCHANGED <<target, current, frameVars, framesMutex, system>>

\* Mutant of ScanNext: the loop runs once too often.
ScanNextOneMore(t) ==
    LET f == (Start(t) + i[t]) % frameCount IN
    /\ At(t, "scan")
    /\ i[t] <= frameCount
    /\ IF TryLockAllowed(t, f)
         THEN /\ target' = [target EXCEPT ![t] = f]
              /\ Goto(t, "tryLock")
              /\ UNCHANGED <<i, current, frameVars, framesMutex, system>>
         ELSE Abort("tryLock")

\* The next iteration of the loop in tryAcquireFrame, up to test_and_set.
ScanNext(t) ==
    LET f == (Start(t) + i[t]) % frameCount IN
    /\ At(t, "scan")
    /\ i[t] < frameCount
    /\ IF TryLockAllowed(t, f)
         THEN /\ target' = [target EXCEPT ![t] = f]
              /\ Goto(t, "tryLock")
              /\ UNCHANGED <<i, current, frameVars, framesMutex, system>>
         ELSE Abort("tryLock")

\* Mutant of TryLockBusy: the loop does not advance.
TryLockBusyAgain(t) ==
    /\ At(t, "tryLock")
    /\ locked[target[t]]
    /\ target' = [target EXCEPT ![t] = NoFrame]
    /\ Goto(t, "scan")
    /\ UNCHANGED <<i, current, frameVars, framesMutex, system>>

\* Frame::tryLock finds the flag set: the loop goes on.
TryLockBusy(t) ==
    /\ At(t, "tryLock")
    /\ locked[target[t]]
    /\ i' = [i EXCEPT ![t] = @ + 1]
    /\ target' = [target EXCEPT ![t] = NoFrame]
    /\ Goto(t, "scan")
    /\ UNCHANGED <<current, frameVars, framesMutex, system>>

\* Mutant of TryLockFree: the flag is set without looking at it.
TryLockAlways(t) ==
    /\ At(t, "tryLock")
    /\ locked' = [locked EXCEPT ![target[t]] = TRUE]
    /\ Goto(t, "own")
    /\ UNCHANGED <<i, target, current, threadId, linked, filled, frameCount,
                   framesMutex, system>>

\* Frame::tryLock sets the flag.
TryLockFree(t) ==
    /\ At(t, "tryLock")
    /\ ~locked[target[t]]
    /\ locked' = [locked EXCEPT ![target[t]] = TRUE]
    /\ Goto(t, "own")
    /\ UNCHANGED <<i, target, current, threadId, linked, filled, frameCount,
                   framesMutex, system>>

\* Mutant of Own: the thread id is not recorded.
OwnAnonymously(t) ==
    /\ At(t, "own")
    /\ current' = [current EXCEPT ![t] = target[t]]
    /\ target' = [target EXCEPT ![t] = NoFrame]
    /\ i' = [i EXCEPT ![t] = 0]
    /\ framesMutex' = IF framesMutex = t THEN NoThread ELSE framesMutex
    /\ Goto(t, "held")
    /\ UNCHANGED <<locked, threadId, linked, filled, frameCount, system>>

\* The rest of Frame::tryLock, and the return of lock(): the unique_lock of
\* acquireFrameSync, if t has it, goes.
Own(t) ==
    /\ At(t, "own")
    /\ threadId' = [threadId EXCEPT ![target[t]] = t]
    /\ current' = [current EXCEPT ![t] = target[t]]
    /\ target' = [target EXCEPT ![t] = NoFrame]
    /\ i' = [i EXCEPT ![t] = 0]
    /\ framesMutex' = IF framesMutex = t THEN NoThread ELSE framesMutex
    /\ Goto(t, "held")
    /\ UNCHANGED <<locked, linked, filled, frameCount, system>>

\* The scan without the mutex found nothing: acquireFrameSync.
EnterSync(t) ==
    /\ At(t, "scan")
    /\ i[t] >= frameCount
    /\ framesMutex # t
    /\ i' = [i EXCEPT ![t] = 0]
    /\ Goto(t, "mutex")
    /\ UNCHANGED <<target, current, frameVars, framesMutex, system>>

\* frames_mutex_ is taken, on entry or when wait() returns; either way the
\* next thing is another scan.
TakeMutex(t) ==
    /\ At(t, "mutex")
    /\ framesMutex = NoThread
    /\ framesMutex' = t
    /\ StartScan(t)
    /\ UNCHANGED <<target, current, frameVars, system>>

\* Mutant of Wait: it waits below the limit too.
WaitAnyway(t) ==
    /\ At(t, "scan")
    /\ i[t] >= frameCount
    /\ framesMutex = t
    /\ framesMutex' = NoThread
    /\ i' = [i EXCEPT ![t] = 0]
    /\ Goto(t, "wait")
    /\ UNCHANGED <<target, current, frameVars, system>>

\* At the limit: frame_released_.wait(lock), which gives the mutex back.
Wait(t) ==
    /\ At(t, "scan")
    /\ i[t] >= frameCount
    /\ framesMutex = t
    /\ frameCount = MaxFrameCount
    /\ framesMutex' = NoThread
    /\ i' = [i EXCEPT ![t] = 0]
    /\ Goto(t, "wait")
    /\ UNCHANGED <<target, current, frameVars, system>>

\* wait() may return without a notification.
WakeSpuriously(t) ==
    /\ At(t, "wait")
    /\ Goto(t, "mutex")
    /\ UNCHANGED <<i, target, current, frameVars, framesMutex, system>>

\* Below the limit: newFrame constructs a frame and increments frame_count_,
\* which makes it visible to the scans of other threads.
NewFrame(t) ==
    /\ At(t, "scan")
    /\ i[t] >= frameCount
    /\ framesMutex = t
    /\ frameCount < MaxFrameCount
    /\ frameCount' = frameCount + 1
    /\ target' = [target EXCEPT ![t] = frameCount]
    /\ i' = [i EXCEPT ![t] = 0]
    /\ Goto(t, "link")
    /\ UNCHANGED <<current, locked, threadId, linked, filled, framesMutex, system>>

\* Space::setNextGeneration on the new nursery.
LinkNewFrame(t) ==
    /\ At(t, "link")
    /\ IF linked[target[t]] \/ filled[target[t]]
         THEN Abort("link")
         ELSE /\ linked' = [linked EXCEPT ![target[t]] = TRUE]
              /\ Goto(t, "claim")
              /\ UNCHANGED <<i, target, current, locked, threadId, filled,
                             frameCount, framesMutex, system>>

\* tryLock on the new frame, and WORTHY_CHECK(locked).
ClaimNewFrame(t) ==
    /\ At(t, "claim")
    /\ IF locked[target[t]]
         THEN Abort("claim")
         ELSE /\ locked' = [locked EXCEPT ![target[t]] = TRUE]
              /\ Goto(t, "own")
              /\ UNCHANGED <<i, target, current, threadId, linked, filled,
                             frameCount, framesMutex, system>>

-----------------------------------------------------------------------------
(* Between lock() and unlock() *)

\* internal::construct: an object goes to the nursery of Frame::current().
Construct(t) ==
    /\ At(t, "held")
    /\ IF debug /\ ~IsLocked(t)
         THEN Abort("current")
         ELSE /\ filled' = [filled EXCEPT ![current[t]] = TRUE]
              /\ UNCHANGED <<threadVars, locked, threadId, linked, frameCount,
                             framesMutex, system>>

(* Heap::unlock *)

\* Mutant of Unlock: the thread id stays.
UnlockKeepsId(t) ==
    /\ At(t, "held")
    /\ IF debug /\ ~IsLocked(t)
         THEN Abort("unlock")
         ELSE /\ Goto(t, "release")
              /\ UNCHANGED <<i, target, current, frameVars, framesMutex, system>>

\* Mutant of Unlock: the flag is cleared first.
UnlockFlagFirst(t) ==
    /\ At(t, "held")
    /\ IF debug /\ ~IsLocked(t)
         THEN Abort("unlock")
         ELSE /\ locked' = [locked EXCEPT ![current[t]] = FALSE]
              /\ Goto(t, "release")
              /\ UNCHANGED <<i, target, current, threadId, linked, filled,
                             frameCount, framesMutex, system>>

Unlock(t) ==
    /\ At(t, "held")
    /\ IF debug /\ ~IsLocked(t)
         THEN Abort("unlock")
         ELSE /\ threadId' = [threadId EXCEPT ![current[t]] = NoThread]
              /\ Goto(t, "release")
              /\ UNCHANGED <<i, target, current, locked, linked, filled,
                             frameCount, framesMutex, system>>

ReleaseFlag(t) ==
    /\ At(t, "release")
    /\ locked' = [locked EXCEPT ![current[t]] = FALSE]
    /\ Goto(t, "notify")
    /\ UNCHANGED <<i, target, current, threadId, linked, filled, frameCount,
                   framesMutex, system>>

Waiting == {t \in Threads : pc[t] = "wait"}

\* notify_one: some waiting thread, if there is one, is to take the mutex.
NotifyOne(t) ==
    /\ At(t, "notify")
    /\ IF Waiting = {}
         THEN Goto(t, "idle")
         ELSE \E u \in Waiting : pc' = [pc EXCEPT ![t] = "idle", ![u] = "mutex"]
    /\ UNCHANGED <<i, target, current, frameVars, framesMutex, system>>

(* Heap::gc, called outside lock() .. unlock(): the check, and of the        *)
(* collection only that it empties the nurseries of all frames.              *)
Gc(t) ==
    /\ At(t, "idle")
    /\ IF IsLocked(t)
         THEN Abort("gc")
         ELSE /\ filled' = [f \in Frames |-> filled[f] /\ f >= frameCount]
              /\ UNCHANGED <<threadVars, locked, threadId, linked, frameCount,
                             framesMutex, system>>

-----------------------------------------------------------------------------
\* The steps a thread inside lock() or unlock() takes on its own.
Step(t) ==
    \/ ScanNext(t) \/ TryLockBusy(t) \/ TryLockFree(t) \/ Own(t)
    \/ EnterSync(t) \/ Wait(t)
    \/ NewFrame(t) \/ LinkNewFrame(t) \/ ClaimNewFrame(t)
    \/ ReleaseFlag(t) \/ NotifyOne(t)

Next ==
    \E t \in Threads :
      \/ Step(t) \/ TakeMutex(t)
      \/ Lock(t) \/ Construct(t) \/ Unlock(t) \/ Gc(t)
      \/ WakeSpuriously(t)

Spec == Init /\ [][Next]_vars

(* A thread inside lock() or unlock() goes on, a mutex that stays free is    *)
(* taken, and a client that has a frame unlocks.  Nobody has to call lock(), *)
(* to allocate or to collect, no wakeup has to be spurious, and nothing is   *)
(* assumed about who gets a contended mutex.                                 *)
Fairness ==
    \A t \in Threads :
      /\ WF_vars(Step(t))
      /\ WF_vars(TakeMutex(t))
      /\ WF_vars(Unlock(t))

FairSpec == Spec /\ Fairness

-----------------------------------------------------------------------------
(* Properties *)

TypeOK ==
    /\ pc \in [Threads -> Locations]
    /\ i \in [Threads -> 0..MaxFrameCount]
    /\ target \in [Threads -> Frames \cup {NoFrame}]
    /\ current \in [Threads -> Frames \cup {NoFrame}]
    /\ locked \in [Frames -> BOOLEAN]
    /\ threadId \in [Frames -> Threads \cup {NoThread}]
    /\ linked \in [Frames -> BOOLEAN]
    /\ filled \in [Frames -> BOOLEAN]
    /\ frameCount \in CpuCount..MaxFrameCount
    /\ framesMutex \in Threads \cup {NoThread}
    /\ aborted \in Checks \cup {"no"}
    /\ debug \in BOOLEAN

\* The frame a thread has, from test_and_set to the clear of the flag.
FrameOf(t) ==
    IF pc[t] = "own" THEN target[t]
    ELSE IF pc[t] \in {"held", "release"} THEN current[t]
    ELSE NoFrame

\* Two threads never have the same frame, so that a nursery is filled by one
\* thread at a time (Frame::tryLock and unlock, the scans of
\* tryAcquireFrame and the frame newFrame adds).
FramesAreExclusive ==
    \A t, u \in Threads :
      t # u /\ FrameOf(t) # NoFrame => FrameOf(t) # FrameOf(u)

\* While a thread is between lock() and unlock(), its current frame exists,
\* has its flag set and carries its id: no late step of a previous owner's
\* unlock() takes them away (the order of the two stores in Frame::unlock).
HolderIsRecorded ==
    \A t \in Threads : pc[t] = "held" =>
      /\ current[t] \in 0..frameCount - 1
      /\ locked[current[t]]
      /\ threadId[current[t]] = t

\* No frame is lost: a flag is set only while some thread has the frame, and
\* a thread id is recorded only while its thread is between lock() and
\* unlock().
NoFrameIsLost ==
    \A f \in Frames :
      /\ locked[f] => \E t \in Threads : FrameOf(t) = f
      /\ threadId[f] # NoThread =>
           pc[threadId[f]] = "held" /\ current[threadId[f]] = f

\* A client that locks and unlocks in turn never fails the checks of
\* Heap::unlock, Frame::unlock and Frame::current.
HolderPassesChecks == aborted \notin {"current", "unlock"}

\* A thread waits on frame_released_ only when the heap has all the frames it
\* may have, and never with frames_mutex_ (acquireFrameSync).
WaitOnlyAtLimit ==
    \A t \in Waiting : frameCount = MaxFrameCount /\ framesMutex # t

\* A frame changes hands only through its release: no step replaces one
\* thread's id in it by another's, and frames are never taken away.
HandoverThroughRelease ==
    [][/\ frameCount' >= frameCount
       /\ \A f \in Frames :
            threadId'[f] # threadId[f] => NoThread \in {threadId[f], threadId'[f]}]_vars

\* lock() and unlock() give frames out as FrameOwnership promises.
Ownership ==
    INSTANCE FrameOwnership
      WITH MaxFrames <- MaxFrameCount,
           has <- [t \in Threads |-> FrameOf(t)],
           size <- frameCount

ImplementsOwnership == Ownership!Spec

\* lock() does not spin: it gets to a frame, to the mutex queue or to the
\* wait set; and unlock() returns.  At none of these places has the thread
\* frames_mutex_, so nobody keeps it for ever.
CallsSettle ==
    \A t \in Threads :
      pc[t] \notin {"idle", "held", "mutex", "wait"}
        ~> (pc[t] \in {"idle", "held", "mutex", "wait"} \/ aborted # "no")

(* What comments and checks of the code say, and the code does not do. *)

\* "We have to wait for one to become available again": a thread that waits
\* while a frame stays free does not wait for ever.
WaiterGetsFreeFrame ==
    \A t \in Threads :
      (pc[t] = "wait" /\ \E f \in Frames : ~locked[f])
        ~> (pc[t] # "wait" \/ (\A f \in Frames : locked[f]) \/ aborted # "no")

\* "Create and lock a new frame", WORTHY_CHECK(locked): the frame a thread
\* creates is its own.
NewFrameIsOwn == aborted # "claim"

\* WORTHY_CHECK(!isLocked()) in gc() holds for a thread that has unlocked.
GcAfterUnlock == aborted # "gc"

=============================================================================
