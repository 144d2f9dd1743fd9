----------------------------- MODULE EventLoop -----------------------------
(* EventLoop::run() (EventLoop.cpp) with the timers of EventReceiver.cpp, and *)
(* the threads that hand it work: a thread pool starts a project's timer and  *)
(* posts events to a connection.  What the fds and the events are for is left *)
(* to the module that extends this one.                                       *)
EXTENDS Integers, Sequences, FiniteSets, Subsequences

CONSTANTS
    Project,        \* an EventReceiver with a single-shot timer
    Connection,     \* an EventReceiver that is deleted while the loop runs
    Timeout,        \* the interval of Project's timer
    MaxNow,         \* bound: the clock stops
    MaxWork         \* bound: timers, events and fds of others that the loop is given

ASSUME TimeoutAssumption == Timeout \in Nat /\ MaxNow \in Nat /\ MaxWork \in Nat

VARIABLES
    now,            \* the clock
    at,             \* where run() is
    armed,          \* what select() waits for: [fds, deadline], deadline 0 when no timer is set
    piped,          \* select() found the pipe readable
    due,            \* the copy of the timers that run() goes through
    todo,           \* the fds run() still has to call back
    mTimerData,     \* sequence of [handle, when], sorted
    mNextTimerHandle,
    mTimers,        \* Project's timers by handle
    starting,       \* the handle a pool thread has added and not yet put into mTimers, or 0
    mFdData,        \* the fds that are read
    mEvents,        \* posted events: [to, what], in order
    mEventPipe,     \* bytes in the pipe: subset of {"wake", "e"}
    owed,           \* threads between push_back and write of postEvent()
    work,           \* what counts for MaxWork
    alive           \* EventReceivers that exist

loopVars  == <<at, armed, piped, due, todo>>
timerVars == <<mTimerData, mNextTimerHandle, mTimers, starting>>
eventVars == <<mEvents, mEventPipe, owed>>
eventLoopVars == <<now, loopVars, timerVars, mFdData, eventVars, work, alive>>

Due(t) == t.when <= now
Work == work < MaxWork /\ work' = work + 1
Disarmed == [fds |-> {}, deadline |-> 0]

EventLoopInit(receivers) ==
    /\ now = 1 /\ at = "arm" /\ armed = Disarmed
    /\ piped = FALSE /\ due = <<>> /\ todo = {}
    /\ mTimerData = <<>> /\ mNextTimerHandle = 0 /\ mTimers = {} /\ starting = 0
    /\ mFdData = {} /\ mEvents = <<>> /\ mEventPipe = {} /\ owed = {} /\ work = 0
    /\ alive = receivers

-----------------------------------------------------------------------------
(* Calls into the loop. *)

(* lower_bound() *)
Inserted(t) ==
    LET before == {k \in DOMAIN mTimerData : mTimerData[k].when < t.when}
    IN Subsequence(mTimerData, before) \o <<t>>
           \o Subsequence(mTimerData, DOMAIN mTimerData \ before)

addTimerSilently ==                   \* mutant: the loop is not woken
    /\ mNextTimerHandle' = mNextTimerHandle + 1
    /\ mTimerData' = Inserted([handle |-> mNextTimerHandle', when |-> now + Timeout])
    /\ UNCHANGED mEventPipe

addTimer ==
    /\ mNextTimerHandle' = mNextTimerHandle + 1
    /\ mTimerData' = Inserted([handle |-> mNextTimerHandle', when |-> now + Timeout])
    /\ mEventPipe' = mEventPipe \cup {"wake"}

WithoutTimer(h) ==
    Subsequence(mTimerData, {k \in DOMAIN mTimerData : mTimerData[k].handle # h})

addFileDescriptor(fd) ==
    /\ mFdData' = mFdData \cup {fd}
    /\ mEventPipe' = mEventPipe \cup {"wake"}

removeFileDescriptor(fd) == mFdData' = mFdData \ {fd}

Event(to, what) == [to |-> to, what |-> what]

(* postEvent() by the loop's own thread. *)
PostedByLoop(events, to, what) ==
    /\ mEvents' = Append(events, Event(to, what))
    /\ mEventPipe' = mEventPipe \cup {"e"}

(* postEvent() by another thread is two steps: the event, then the byte. *)
Pushed(thread, new) ==
    /\ mEvents' = mEvents \o new
    /\ owed' = owed \cup {thread}

PostByte(thread) ==
    /\ thread \in owed
    /\ owed' = owed \ {thread}
    /\ mEventPipe' = mEventPipe \cup {"e"}
    /\ UNCHANGED <<now, loopVars, timerVars, mFdData, mEvents, work, alive>>

keepEvents(events, receiver) == events        \* mutant: posted events stay

(* ~EventReceiver() *)
removeEvents(events, receiver) ==
    Subsequence(events, {k \in DOMAIN events : events[k].to # receiver})

-----------------------------------------------------------------------------
(* The pool. *)

(* Timer::start(): stop() forgets the timer of before, which is left to fire  *)
(* in vain; startTimer() adds the new one and only then enters it.             *)
StartTimer ==
    /\ Project \in alive /\ starting = 0
    /\ now + Timeout <= MaxNow
    /\ Work
    /\ addTimer
    /\ starting' = mNextTimerHandle' /\ mTimers' = {}
    /\ UNCHANGED <<now, loopVars, mFdData, mEvents, owed, alive>>

StartTimerEnd ==
    /\ starting # 0
    /\ mTimers' = mTimers \cup {starting} /\ starting' = 0
    /\ UNCHANGED <<now, loopVars, mTimerData, mNextTimerHandle, mFdData, eventVars, work, alive>>

(* A message for a client that is still there: LogObject::log(), writeAsync(). *)
Post ==
    /\ Connection \in alive /\ "pool" \notin owed /\ Work
    /\ Pushed("pool", <<Event(Connection, "message")>>)
    /\ UNCHANGED <<now, loopVars, timerVars, mFdData, mEventPipe, alive>>

(* Time passes.  A thread is not held up for a whole Timeout between the two   *)
(* statements of startTimer().                                                *)
Tick ==
    /\ now < MaxNow
    /\ starting # 0 => \A k \in DOMAIN mTimerData :
                          mTimerData[k].handle = starting => now + 1 < mTimerData[k].when
    /\ now' = now + 1
    /\ UNCHANGED <<loopVars, timerVars, mFdData, eventVars, work, alive>>

-----------------------------------------------------------------------------
(* run() *)

Arm ==
    /\ at = "arm"
    /\ armed' = [fds |-> mFdData,
                 deadline |-> IF mTimerData = <<>> THEN 0 ELSE mTimerData[1].when]
    /\ at' = "select"
    /\ UNCHANGED <<now, piped, due, todo, timerVars, mFdData, eventVars, work, alive>>

(* select() comes back; the timers are looked at only if there was a deadline. *)
Wake(readable) ==
    /\ at = "select"
    /\ \/ mEventPipe # {} \/ armed.fds \cap readable # {}
       \/ armed.deadline # 0 /\ armed.deadline <= now
    /\ piped' = (mEventPipe # {})
    /\ todo' = armed.fds \cap readable
    /\ due' = IF armed.deadline = 0 THEN <<>>
              ELSE Subsequence(mTimerData, {k \in DOMAIN mTimerData : Due(mTimerData[k])})
    /\ at' = "timers" /\ armed' = Disarmed
    /\ UNCHANGED <<now, timerVars, mFdData, eventVars, work, alive>>

timerEventCallBack(h) == mTimers' = mTimers \ {h} /\ mTimerData' = WithoutTimer(h)

(* reinsertTimer() and timerEventCallBack().  Nobody else removes a timer, and  *)
(* all timers here are single-shot: fired or stopped before, the timer goes.  *)
FireTimer ==
    /\ at = "timers" /\ due # <<>>
    /\ timerEventCallBack(Head(due).handle)
    /\ due' = Tail(due)
    /\ UNCHANGED <<now, at, armed, piped, todo, mNextTimerHandle, starting, mFdData, eventVars,
                   work, alive>>

(* handlePipe() reads until the pipe is empty; an 'e' sends the posted events. *)
ReadByte ==
    /\ at = "timers" /\ due = <<>> /\ piped
    /\ \E byte \in mEventPipe :
         /\ mEventPipe' = mEventPipe \ {byte}
         /\ at' = IF byte = "e" THEN "events" ELSE at
    /\ UNCHANGED <<now, armed, piped, due, todo, timerVars, mFdData, mEvents, owed, work, alive>>

PipeDone ==
    /\ at = "timers" /\ due = <<>> /\ (piped => mEventPipe = {})
    /\ at' = "fds" /\ piped' = FALSE
    /\ UNCHANGED <<now, armed, due, todo, timerVars, mFdData, eventVars, work, alive>>

(* sendPostedEvents(): the mutex is not held while an event is delivered. *)
Sending(to, what) ==
    /\ at = "events" /\ mEvents # <<>>
    /\ Head(mEvents) = Event(to, what)

DeliverMessage ==
    /\ Sending(Connection, "message")
    /\ mEvents' = Tail(mEvents)
    /\ UNCHANGED <<now, loopVars, timerVars, mFdData, mEventPipe, owed, work, alive>>

DeleteReceiver(r) ==
    /\ Sending(r, "delete")
    /\ alive' = alive \ {r}
    /\ mEvents' = removeEvents(Tail(mEvents), r)
    /\ UNCHANGED <<now, loopVars, timerVars, mFdData, mEventPipe, owed, work>>

EventsDone ==
    /\ at = "events" /\ mEvents = <<>>
    /\ at' = "timers"
    /\ UNCHANGED <<now, armed, piped, due, todo, timerVars, mFdData, eventVars, work, alive>>

(* An fd that an earlier callback removed is passed over. *)
Callable(fd) == at = "fds" /\ fd \in todo \cap mFdData

(* The client hangs up: Connection::deleteLater(). *)
ClientGone ==
    /\ at = "fds" /\ Connection \in alive
    /\ \A k \in DOMAIN mEvents : mEvents[k] # Event(Connection, "delete")
    /\ PostedByLoop(mEvents, Connection, "delete")
    /\ UNCHANGED <<now, loopVars, timerVars, mFdData, owed, work, alive>>

RoundEnd ==
    /\ at = "fds" /\ todo \cap mFdData = {}
    /\ at' = "arm" /\ todo' = {}
    /\ UNCHANGED <<now, armed, piped, due, timerVars, mFdData, eventVars, work, alive>>

LoopStep(readable) ==
    \/ Arm \/ Wake(readable) \/ FireTimer \/ ReadByte \/ PipeDone
    \/ DeliverMessage \/ EventsDone \/ RoundEnd \/ DeleteReceiver(Connection)

PoolStep == StartTimer \/ StartTimerEnd \/ Post \/ PostByte("pool")

-----------------------------------------------------------------------------
(* While the loop sleeps, whatever it was not told to wait for has left a byte *)
(* in its pipe: an fd, an earlier timer, an event -- unless the poster is just  *)
(* about to write it (addTimer, addFileDescriptor, postEvent of EventLoop.cpp). *)
SelectIsCurrent ==
    at = "select" =>
        /\ mFdData \subseteq armed.fds \/ mEventPipe # {}
        /\ \/ mTimerData = <<>> \/ mEventPipe # {}
           \/ /\ armed.deadline # 0
              /\ \A k \in DOMAIN mTimerData : armed.deadline <= mTimerData[k].when
        /\ mEvents = <<>> \/ "e" \in mEventPipe \/ owed # {}

(* No event waits for a receiver that was deleted (EventReceiver.cpp ~EventReceiver, *)
(* Process.cpp ~Process).                                                      *)
EventsToLiving == \A k \in DOMAIN mEvents : mEvents[k].to \in alive

(* A timer that was started fires or is stopped. *)
StartedTimersEnd == \A h \in 1 .. MaxWork : h \in mTimers ~> h \notin mTimers
=============================================================================
