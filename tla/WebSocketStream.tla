--------------------------- MODULE WebSocketStream ---------------------------
(***************************************************************************)
(* handleConnection: one streaming connection from the upgrade to its      *)
(* cleanup.  onStart, cleanup and finish run on one event loop and give    *)
(* way only at their awaits, so each action is what runs between two       *)
(* awaits.  onStart asks the rate limiter, whose state is shared with the  *)
(* HTTP routes, and takes a slot, which the worker that runs the job       *)
(* releases too.                                                           *)
(***************************************************************************)
EXTENDS RateLimiter

CONSTANTS Conns,        \* connections, of one user and from one address
          User, Address,
          SlotLimit,    \* concurrencyLimitForTier
          MaxRequests,  \* bound: requests after which HTTP routes ask no more
          MaxTroubles   \* bound: Redis commands that fail

ASSUME StreamAssumption ==
  /\ LimiterAssumption
  /\ User \in Users /\ Address \in Addresses
  /\ SlotLimit \in Nat /\ MaxRequests \in Nat /\ MaxTroubles \in Nat

VARIABLES
  conn,     \* the locals of each handleConnection
  slots,    \* the user's slot set in Redis: connections with a slot
  others,   \* and the number of slots of the user's other jobs
  job,      \* the job of a connection, as far as workers have come with it
  troubles  \* bound

slotVars == <<slots, others>>
vars == <<limiterVars, conn, slotVars, job, troubles>>

\* `start` is the await of onStart and `cleanup` that of cleanup; `closes` says
\* that finish called it and closes the socket after it.  `decs` counts the
\* decrements of activeWebsockets, and `silent` says that the client has vanished
\* without closing.
NewConn == [ws |-> "none", start |-> "idle", settled |-> FALSE, cleanedUp |-> FALSE,
            cleanup |-> "none", closes |-> FALSE, slotJobId |-> FALSE,
            subscriber |-> "none", lifetimeTimer |-> "none", decs |-> 0,
            isAlive |-> TRUE, silent |-> FALSE]

Init ==
  /\ LimiterInit
  /\ conn = [c \in Conns |-> NewConn]
  /\ slots = {} /\ others = 0
  /\ job = [c \in Conns |-> "none"]
  /\ troubles = 0

Trouble == troubles < MaxTroubles /\ troubles' = troubles + 1

(***************************************************************************)
(* cleanup and finish, on the locals s                                     *)
(***************************************************************************)

\* The socket is closed, and with it the heartbeat's interest in it.
Closed(s) == [s EXCEPT !.ws = "closed", !.isAlive = TRUE, !.silent = FALSE]

\* After the last await: the gauge, and for finish the socket.
Uncount(s) == LET over == [s EXCEPT !.cleanup = "done", !.decs = @ + 1]
              IN  IF s.closes THEN Closed(over) ELSE over

HasSubscriber(s) == s.subscriber \in {"new", "listening"}

\* After the slot: the timer, then the subscriber if there is one by now.
ClearTimer(s) ==
  LET cleared == [s EXCEPT !.lifetimeTimer = IF @ = "set" THEN "over" ELSE @]
  IN  IF HasSubscriber(s) THEN [cleared EXCEPT !.cleanup = "quit"] ELSE Uncount(cleared)

\* Mutant of cleanup: it runs for every caller.
CleanupEachTime(s) ==
  LET begun == [s EXCEPT !.cleanedUp = TRUE]
  IN  IF s.slotJobId THEN [begun EXCEPT !.cleanup = "release"] ELSE ClearTimer(begun)

cleanup(s) ==
  LET begun == [s EXCEPT !.cleanedUp = TRUE]
  IN  IF s.cleanedUp THEN s
      ELSE IF s.slotJobId THEN [begun EXCEPT !.cleanup = "release"] ELSE ClearTimer(begun)

finish(s) ==
  IF s.settled THEN s ELSE cleanup([s EXCEPT !.settled = TRUE, !.closes = TRUE])

Becomes(c, s) == conn' = [conn EXCEPT ![c] = s]
At(c, label) == [conn[c] EXCEPT !.start = label]

\* onStart ends with an error frame and finish, directly or through its catch.
Fails(c) == Becomes(c, finish(At(c, "over")))

\* Mutant of ReleaseSlot: cleanup ends when releaseSlot failed.
ReleaseOrGiveUp(c) ==
  /\ conn[c].cleanup = "release"
  /\ \/ /\ slots' = slots \ {c} /\ UNCHANGED troubles
        /\ Becomes(c, ClearTimer([conn[c] EXCEPT !.slotJobId = FALSE]))
     \/ Trouble /\ UNCHANGED slots /\ Becomes(c, [conn[c] EXCEPT !.cleanup = "done"])
  /\ UNCHANGED <<limiterVars, others, job>>

\* releaseSlot, best effort.
ReleaseSlot(c) ==
  /\ conn[c].cleanup = "release"
  /\ \/ slots' = slots \ {c} /\ UNCHANGED troubles
     \/ Trouble /\ UNCHANGED slots
  /\ Becomes(c, ClearTimer([conn[c] EXCEPT !.slotJobId = FALSE]))
  /\ UNCHANGED <<limiterVars, others, job>>

\* subscriber.quit(), or disconnect() when that fails.
Quit(c) ==
  /\ conn[c].cleanup = "quit"
  /\ Becomes(c, Uncount([conn[c] EXCEPT !.subscriber = "gone"]))
  /\ UNCHANGED <<limiterVars, slotVars, job, troubles>>

(***************************************************************************)
(* onStart                                                                 *)
(***************************************************************************)

Connect(c) ==
  /\ conn[c].ws = "none"
  /\ Becomes(c, [conn[c] EXCEPT !.ws = "open"])
  /\ UNCHANGED <<limiterVars, slotVars, job, troubles>>

\* The first frame: a valid start, or not.
OnMessage(c) ==
  /\ conn[c].ws = "open" /\ ~conn[c].silent /\ conn[c].start = "idle"
  /\ Becomes(c, At(c, "rate")) \/ Fails(c)
  /\ UNCHANGED <<limiterVars, slotVars, job, troubles>>

\* The limiter's verdict; without Redis it is to go on.
RateVerdict(c) ==
  /\ conn[c].start = "rate"
  /\ \/ \E p \in Replicas :
          /\ evaluateRateLimit(User, Address, p)
          /\ IF Blocked(User, Address, p) THEN Fails(c) ELSE Becomes(c, At(c, "slot"))
          /\ UNCHANGED troubles
     \/ Trouble /\ Becomes(c, At(c, "slot")) /\ UNCHANGED limiterVars
  /\ UNCHANGED <<slotVars, job>>

\* Mutant of SlotFree: one job more than the limit.
SlotFreeOneMore == Cardinality(slots) + others <= SlotLimit

SlotFree == Cardinality(slots) + others < SlotLimit

\* Mutant of SlotVerdict: the subscription is not awaited before the job is queued.
SubscribeUnawaited(c) ==
  /\ conn[c].start = "slot"
  /\ SlotFree /\ slots' = slots \cup {c}
  /\ Becomes(c, [At(c, "enqueue") EXCEPT !.slotJobId = TRUE, !.subscriber = "new"])
  /\ UNCHANGED <<limiterVars, others, job, troubles>>

\* acquireSlot's answer, which without Redis is yes.  The subscriber is made.
SlotVerdict(c) ==
  /\ conn[c].start = "slot"
  /\ \/ /\ \/ SlotFree /\ slots' = slots \cup {c} /\ UNCHANGED troubles
           \/ Trouble /\ UNCHANGED slots
        /\ Becomes(c, [At(c, "subscribe") EXCEPT !.slotJobId = TRUE, !.subscriber = "new"])
     \/ /\ ~SlotFree
        /\ Fails(c)
        /\ UNCHANGED <<slots, troubles>>
  /\ UNCHANGED <<limiterVars, others, job>>

\* Mutant of Subscribed: no timer.
SubscribedUntimed(c) ==
  /\ conn[c].start = "subscribe"
  /\ IF HasSubscriber(conn[c])
       THEN Becomes(c, [At(c, "enqueue") EXCEPT !.subscriber = "listening"])
       ELSE Fails(c)
  /\ UNCHANGED <<limiterVars, slotVars, job, troubles>>

\* subscribe resolves: the timer and the message handler.  A cleanup that has
\* meanwhile set subscriber to null makes `subscriber.on` throw.
Subscribed(c) ==
  /\ conn[c].start = "subscribe"
  /\ LET timed == [conn[c] EXCEPT !.lifetimeTimer = "set"]
     IN  IF HasSubscriber(timed)
           THEN Becomes(c, [timed EXCEPT !.start = "enqueue", !.subscriber = "listening"])
           ELSE Becomes(c, finish([timed EXCEPT !.start = "over"]))
  /\ UNCHANGED <<limiterVars, slotVars, job, troubles>>

\* The transaction of enqueueJob takes effect.
Enqueue(c) ==
  /\ conn[c].start = "enqueue" /\ job[c] = "none"
  /\ job' = [job EXCEPT ![c] = "queued"]
  /\ UNCHANGED <<limiterVars, conn, slotVars, troubles>>

\* Its reply: the accepted frame.
Accepted(c) ==
  /\ conn[c].start = "enqueue" /\ job[c] # "none"
  /\ Becomes(c, At(c, "over"))
  /\ UNCHANGED <<limiterVars, slotVars, job, troubles>>

\* subscribe or enqueueJob rejects, the latter with or without effect.
OnStartRaises(c) ==
  /\ conn[c].start \in {"subscribe", "enqueue"}
  /\ Trouble
  /\ Fails(c)
  /\ UNCHANGED <<limiterVars, slotVars, job>>

(***************************************************************************)
(* Events                                                                  *)
(***************************************************************************)

\* 'close': the client left.
Disconnect(c) ==
  /\ conn[c].ws = "open" /\ ~conn[c].silent
  /\ Becomes(c, cleanup(Closed(conn[c])))
  /\ UNCHANGED <<limiterVars, slotVars, job, troubles>>

Vanish(c) ==
  /\ conn[c].ws = "open" /\ ~conn[c].silent
  /\ Becomes(c, [conn[c] EXCEPT !.silent = TRUE])
  /\ UNCHANGED <<limiterVars, slotVars, job, troubles>>

\* Mutant of Heartbeat: it pings, and never looks at the answer.
HeartbeatOnlyPings(c) ==
  /\ conn[c].ws = "open"
  /\ Becomes(c, [conn[c] EXCEPT !.isAlive = FALSE])
  /\ UNCHANGED <<limiterVars, slotVars, job, troubles>>

\* The interval: terminate who has not answered the last ping, ping the others.
Heartbeat(c) ==
  /\ conn[c].ws = "open"
  /\ Becomes(c, IF conn[c].isAlive THEN [conn[c] EXCEPT !.isAlive = FALSE]
                                   ELSE cleanup(Closed(conn[c])))
  /\ UNCHANGED <<limiterVars, slotVars, job, troubles>>

Pong(c) ==
  /\ conn[c].ws = "open" /\ ~conn[c].silent /\ ~conn[c].isAlive
  /\ Becomes(c, [conn[c] EXCEPT !.isAlive = TRUE])
  /\ UNCHANGED <<limiterVars, slotVars, job, troubles>>

\* 'error', and the 'close' that follows.
SocketError(c) ==
  /\ conn[c].ws = "open"
  /\ Becomes(c, finish(Closed(conn[c])))
  /\ UNCHANGED <<limiterVars, slotVars, job, troubles>>

LifetimeOver(c) ==
  /\ conn[c].lifetimeTimer = "set"
  /\ Becomes(c, finish([conn[c] EXCEPT !.lifetimeTimer = "over"]))
  /\ UNCHANGED <<limiterVars, slotVars, job, troubles>>

Listening(c) == conn[c].subscriber = "listening"

\* An output message for a client that is too slow.  Other output and status
\* messages only become frames.
Backpressure(c) ==
  /\ job[c] = "queued" /\ Listening(c)
  /\ Becomes(c, finish(conn[c]))
  /\ UNCHANGED <<limiterVars, slotVars, job, troubles>>

\* The worker publishes done; who listens sends the exit frame and finishes.
WorkerDone(c) ==
  /\ job[c] = "queued"
  /\ job' = [job EXCEPT ![c] = "published"]
  /\ IF Listening(c) THEN Becomes(c, finish(conn[c])) ELSE UNCHANGED conn
  /\ UNCHANGED <<limiterVars, slotVars, troubles>>

\* The worker releases the slot.
WorkerRelease(c) ==
  /\ job[c] = "published"
  /\ job' = [job EXCEPT ![c] = "done"]
  /\ slots' = slots \ {c}
  /\ UNCHANGED <<limiterVars, conn, others, troubles>>

\* A POST of the same user: rateLimitMiddleware, and a slot if it gets that far.
HttpRequest ==
  /\ asked < MaxRequests
  /\ \E p \in Replicas :
       /\ evaluateRateLimit(User, Address, p)
       /\ others' = IF ~Blocked(User, Address, p) /\ SlotFree THEN others + 1 ELSE others
  /\ UNCHANGED <<conn, slots, job, troubles>>

HttpJobEnds ==
  /\ others > 0
  /\ others' = others - 1
  /\ UNCHANGED <<limiterVars, conn, slots, job, troubles>>

Tick == LimiterTick /\ UNCHANGED <<conn, slotVars, job, troubles>>

StartStep(c) ==
  RateVerdict(c) \/ SlotVerdict(c) \/ Subscribed(c) \/ Enqueue(c) \/ Accepted(c)
CleanupStep(c) == ReleaseSlot(c) \/ Quit(c)
WorkerStep(c) == WorkerDone(c) \/ WorkerRelease(c)

Next ==
  \/ \E c \in Conns : \/ Connect(c) \/ OnMessage(c) \/ StartStep(c) \/ OnStartRaises(c)
                      \/ CleanupStep(c) \/ Disconnect(c) \/ SocketError(c)
                      \/ Vanish(c) \/ Heartbeat(c) \/ Pong(c)
                      \/ LifetimeOver(c) \/ Backpressure(c) \/ WorkerStep(c)
  \/ HttpRequest \/ HttpJobEnds \/ Tick

\* Awaited commands are answered and timers fire.  A worker need not answer,
\* and no client need come or leave.
Fairness ==
  \A c \in Conns : /\ WF_vars(StartStep(c)) /\ WF_vars(CleanupStep(c))
                   /\ WF_vars(LifetimeOver(c)) /\ WF_vars(Heartbeat(c))

Spec == Init /\ [][Next]_vars
FairSpec == Spec /\ Fairness

(***************************************************************************)
(* Properties                                                              *)
(***************************************************************************)

Connection ==
  [ws: {"none", "open", "closed"},
   start: {"idle", "rate", "slot", "subscribe", "enqueue", "over"},
   settled: BOOLEAN, cleanedUp: BOOLEAN, closes: BOOLEAN, slotJobId: BOOLEAN,
   cleanup: {"none", "release", "quit", "done"},
   subscriber: {"none", "new", "listening", "gone"},
   lifetimeTimer: {"none", "set", "over"}, decs: Nat,
   isAlive: BOOLEAN, silent: BOOLEAN]

\* Every variable has its type.
TypeOK ==
  /\ conn \in [Conns -> Connection]
  /\ slots \subseteq Conns /\ others \in 0..SlotLimit
  /\ job \in [Conns -> {"none", "queued", "published", "done"}]
  /\ troubles \in 0..MaxTroubles
  /\ now \in 0..MaxTime /\ asked \in Nat
  /\ zset \in [Keys -> SUBSET Member] /\ admitted \in [Keys -> SUBSET Member]

\* "Subscribe BEFORE enqueuing so we cannot miss early output" (websocket.ts): a
\* job that a worker may have begun is listened to, unless the client has left.
EarlyOutputIsHeard ==
  \A c \in Conns : job[c] # "none" => Listening(c) \/ conn[c].cleanedUp

\* "The gauge must be decremented exactly once per connection" (websocket.ts):
\* once the socket is closed it soon has been, and never again, whichever of
\* finish, the close event and the error event came first.
ClosedIsUncounted ==
  \A c \in Conns : conn[c].ws = "closed" ~> [](conn[c].decs = 1)

\* A stream that was started is closed, even if no worker ever answers
\* (websocket.ts, MAX_STREAM_LIFETIME_MS).
StreamEnds ==
  \A c \in Conns : conn[c].start # "idle" ~> conn[c].ws = "closed"

\* "Ping/pong heartbeat that terminates dead connections" (websocket.ts): a client
\* that vanished is noticed, also before it has sent its start frame.
VanishedIsDropped ==
  \A c \in Conns : conn[c].silent ~> conn[c].ws = "closed"

\* The subscriber of a connection that is not yet being cleaned up is closed in
\* the end, whoever begins the cleanup and whichever command fails.
SubscriberIsClosed ==
  \A c \in Conns : HasSubscriber(conn[c]) /\ ~conn[c].cleanedUp
                     ~> conn[c].subscriber = "gone"
=============================================================================
