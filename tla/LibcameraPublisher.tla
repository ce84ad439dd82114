-------------------------- MODULE LibcameraPublisher --------------------------
(***************************************************************************)
(* LibcameraPublisher: a worker that acquires the camera, fills a pool of  *)
(* requests and sleeps until stop(); libcamera completes the requests on a *)
(* thread of its own, one at a time, and the handler gives each back.      *)
(* Threads: the owner in start() and stop(), the worker run_(), the        *)
(* handler.  External: libcamera and the outcome of each of its calls.     *)
(***************************************************************************)
EXTENDS Naturals

CONSTANTS
    Requests,      (* one request per allocated buffer                      *)
    Rows, RowBytes,(* height and width of the Y plane asked for             *)
    Planes,        (* planes that libcamera may deliver: the length it      *)
                   (* reports and the stride the driver used                *)
    MaxFrame       (* bound on frame_id_                                    *)

VARIABLES
    owner,      (* where the owner is                                       *)
    running,    (* running_                                                 *)
    worker,     (* where the worker is; "none" when thread_ is not joinable *)
    delivered,  (* the last id handed to the callback in this session       *)
    held,       (* what run_() has to give back                             *)
    request,    (* where each request is                                    *)
    handler,    (* where the handler is                                     *)
    plane,      (* the plane the handler copies                             *)
    frame_id,   (* frame_id_                                                *)
    pool,       (* history: the requests that were queued at the start      *)
    refused,    (* history: those the camera cancelled or did not take back *)
    missed      (* history: notify_all() found the worker about to sleep    *)

vars == <<owner, running, worker, delivered, held, request, handler, plane,
          frame_id, pool, refused, missed>>

OwnerPoints == {"down", "up", "notify", "join", "aborted"}
SetupPoints == {"manager", "cameras", "acquire", "configure", "allocate", "start", "fill"}
WaitPoints  == {"check", "sleep", "asleep"}
WorkerPoints == {"none", "ended", "teardown"} \cup SetupPoints \cup WaitPoints
NoPlane == [length |-> 0, stride |-> 0]
Places == {"away", "queued", "handled"}

TypeOK ==
    /\ owner \in OwnerPoints /\ worker \in WorkerPoints
    /\ running \in BOOLEAN /\ missed \in BOOLEAN
    /\ delivered \in Nat /\ frame_id \in Nat
    /\ plane \in Planes \cup {NoPlane}
    /\ held \subseteq {"manager", "camera", "buffers", "stream"}
    /\ request \in [Requests -> Places]
    /\ handler \in {"idle", "buffer", "copy", "emit", "requeue"}
    /\ pool \subseteq Requests /\ refused \subseteq Requests

Init ==
    /\ owner = "down" /\ running = FALSE /\ worker = "none" /\ delivered = 0
    /\ held = {} /\ request = [r \in Requests |-> "away"]
    /\ handler = "idle" /\ plane = NoPlane /\ frame_id = 0
    /\ pool = {} /\ refused = {} /\ missed = FALSE

poolVars == <<request, pool, refused>>
handlerVars == <<handler, plane, frame_id, delivered>>

-----------------------------------------------------------------------------
(* start() and stop().                                                     *)

\* start() reports success as soon as the thread exists.
Start ==
    /\ owner = "down" /\ ~running /\ worker = "none"
    /\ owner' = "up"
    /\ running' = TRUE
    /\ worker' = "manager"
    /\ delivered' = 0
    /\ UNCHANGED <<held, poolVars, handler, plane, frame_id, missed>>

\* A std::thread is assigned to thread_ while that is joinable: std::terminate().
StartAborts ==
    /\ owner = "down" /\ ~running /\ worker # "none"
    /\ owner' = "aborted"
    /\ UNCHANGED <<running, worker, held, poolVars, handlerVars, missed>>

\* stop() returns at once when the worker has given up, and joins nothing.
Stop ==
    /\ owner = "up"
    /\ owner' = IF running THEN "notify" ELSE "down"
    /\ running' = FALSE
    /\ UNCHANGED <<worker, held, poolVars, handlerVars, missed>>

\* Mutant of Notify: nobody is notified.
NotifyForgotten ==
    /\ owner = "notify"
    /\ owner' = "join"
    /\ UNCHANGED <<running, worker, held, poolVars, handlerVars, missed>>

\* notify_all() without run_mutex_: only a worker that sleeps already hears it.
Notify ==
    /\ owner = "notify"
    /\ owner' = "join"
    /\ worker' = IF worker = "asleep" THEN "check" ELSE worker
    /\ missed' = (worker = "sleep")
    /\ UNCHANGED <<running, held, poolVars, handlerVars>>

Join ==
    /\ owner = "join" /\ worker = "ended"
    /\ owner' = "down"
    /\ worker' = "none"
    /\ UNCHANGED <<running, held, poolVars, handlerVars, missed>>

-----------------------------------------------------------------------------
(* run_().                                                                 *)

\* Mutant of Releases: an exit added late forgets the camera.
ReleasesManagerOnly(point) ==
    IF point \in {"manager"} THEN {} ELSE {"manager"}

\* What each failure exit of run_() gives back.
Releases(point) ==
    CASE point = "manager"                    -> {}
      [] point \in {"cameras", "acquire"}     -> {"manager"}
      [] point \in {"configure", "allocate"}  -> {"manager", "camera"}
      [] point = "start"                      -> {"manager", "camera", "buffers"}

\* A step of the set-up succeeds and gains a resource ...
Gain(from, to, what) ==
    /\ worker = from /\ worker' = to
    /\ held' = held \cup what
    /\ UNCHANGED <<owner, running, poolVars, handlerVars, missed>>

\* ... or fails: the worker gives back what it holds, clears running_ and ends.
GiveUp ==
    /\ worker \in SetupPoints \ {"fill"}
    /\ held' = held \ Releases(worker)
    /\ running' = FALSE
    /\ worker' = "ended"
    /\ UNCHANGED <<owner, poolVars, handlerVars, missed>>

StartManager  == Gain("manager", "cameras", {"manager"})
FindCamera    == Gain("cameras", "acquire", {})
AcquireCamera == Gain("acquire", "configure", {"camera"})
Configure     == Gain("configure", "allocate", {})
Allocate      == Gain("allocate", "start", {"buffers"})
StartCamera   == Gain("start", "fill", {"stream"})

\* An allocation without buffers is freed like one with them.
AllocateNone ==
    /\ worker = "allocate"
    /\ held' = held \ Releases(worker)
    /\ running' = FALSE
    /\ worker' = "ended"
    /\ UNCHANGED <<owner, poolVars, handlerVars, missed>>

\* Every buffer becomes a request and is queued, except where libcamera fails.
Fill ==
    /\ worker = "fill"
    /\ worker' = "check"
    /\ \E q \in SUBSET Requests :
           /\ pool' = q
           /\ request' = [r \in Requests |-> IF r \in q THEN "queued" ELSE "away"]
    /\ refused' = {}
    /\ UNCHANGED <<owner, running, held, handlerVars, missed>>

\* The predicate of run_cv_.wait() is evaluated; sleep comes after that.
Check ==
    /\ worker = "check"
    /\ worker' = IF running THEN "sleep" ELSE "teardown"
    /\ UNCHANGED <<owner, running, held, poolVars, handlerVars, missed>>

Sleep ==
    /\ worker = "sleep"
    /\ worker' = "asleep"
    /\ UNCHANGED <<owner, running, held, poolVars, handlerVars, missed>>

SpuriousWake ==
    /\ worker = "asleep"
    /\ worker' = "check"
    /\ UNCHANGED <<owner, running, held, poolVars, handlerVars, missed>>

\* cam->stop() waits for the handler and cancels what is queued; then buffers,
\* camera and manager are given back.
Teardown ==
    /\ worker = "teardown" /\ handler = "idle"
    /\ worker' = "ended"
    /\ held' = {}
    /\ request' = [r \in Requests |-> "away"]
    /\ UNCHANGED <<owner, running, pool, refused, handlerVars, missed>>

-----------------------------------------------------------------------------
(* The requestCompleted handler.                                           *)

\* Mutant of stride: the row width is taken for the stride of a padded plane.
strideUnpadded(length) == IF length \div Rows > RowBytes THEN RowBytes ELSE length \div Rows

\* strideFromPlane().
stride(length) == IF length \div Rows < RowBytes THEN RowBytes ELSE length \div Rows

\* copyPlaneStrideAware() of Rows rows throws when a row leaves the plane, and
\* MMapPlaneRO::map() when there is none.
Copies(length) ==
    length > 0 /\ \A y \in 0..Rows-1 : y * stride(length) + RowBytes <= length

\* A completed request is given back only while running_ holds.
Complete(r) ==
    /\ "stream" \in held /\ handler = "idle" /\ frame_id < MaxFrame
    /\ request[r] = "queued"
    /\ IF running
       THEN handler' = "buffer" /\ request' = [request EXCEPT ![r] = "handled"]
       ELSE handler' = "idle"   /\ request' = [request EXCEPT ![r] = "away"]
    /\ UNCHANGED <<owner, running, worker, delivered, held, plane, frame_id, pool, refused,
                   missed>>

\* A request that comes back cancelled, as the camera may do at any time, is
\* not given back at all.
Cancel(r) ==
    /\ "stream" \in held /\ handler = "idle"
    /\ request[r] = "queued"
    /\ request' = [request EXCEPT ![r] = "away"]
    /\ refused' = refused \cup {r}
    /\ UNCHANGED <<owner, running, worker, held, pool, handlerVars, missed>>

\* A request without a usable buffer goes back; any other takes the next id.
Inspect ==
    /\ handler = "buffer"
    /\ \/ handler' = "requeue" /\ UNCHANGED <<plane, frame_id>>
       \/ /\ handler' = "copy"
          /\ plane' \in Planes
          /\ frame_id' = frame_id + 1
    /\ UNCHANGED <<owner, running, worker, delivered, held, poolVars, missed>>

\* Mutant of Copy: a frame that cannot be copied takes its request along.
CopyOrDrop ==
    /\ handler = "copy"
    /\ handler' = IF Copies(plane.length) THEN "emit" ELSE "idle"
    /\ UNCHANGED <<owner, running, worker, delivered, held, poolVars, plane, frame_id, missed>>

\* Allocation and mapping may throw for any plane.
Copy ==
    /\ handler = "copy"
    /\ \/ Copies(plane.length) /\ handler' = "emit"
       \/ handler' = "requeue"
    /\ UNCHANGED <<owner, running, worker, delivered, held, poolVars, plane, frame_id, missed>>

\* The frame callback.
Emit ==
    /\ handler = "emit"
    /\ handler' = "requeue"
    /\ delivered' = frame_id
    /\ UNCHANGED <<owner, running, worker, held, poolVars, plane, frame_id, missed>>

\* queueRequest() may refuse, which no caller looks at.
Requeue ==
    /\ handler = "requeue"
    /\ handler' = "idle" /\ plane' = NoPlane
    /\ \E place \in {"queued", "away"} :
           /\ request' = [r \in Requests |-> IF request[r] = "handled" THEN place ELSE request[r]]
           /\ refused' = refused \cup {r \in Requests : request[r] = "handled" /\ place = "away"}
    /\ UNCHANGED <<owner, running, worker, delivered, held, frame_id, pool, missed>>

-----------------------------------------------------------------------------
OwnerStep   == Notify \/ Join
WorkerStep  == StartManager \/ FindCamera \/ AcquireCamera \/ Configure \/ Allocate
               \/ StartCamera \/ Fill \/ Check \/ Sleep \/ Teardown
HandlerStep == Inspect \/ Copy \/ Emit \/ Requeue

Next ==
    \/ Start \/ StartAborts \/ Stop \/ OwnerStep
    \/ WorkerStep \/ GiveUp \/ AllocateNone \/ SpuriousWake
    \/ HandlerStep \/ \E r \in Requests : Complete(r) \/ Cancel(r)

\* The threads are scheduled; the camera need not deliver nor the owner call,
\* and a wake-up nobody asked for is not relied upon.
Fairness == WF_vars(OwnerStep) /\ WF_vars(WorkerStep \/ GiveUp) /\ WF_vars(HandlerStep)

Spec == Init /\ [][Next]_vars /\ Fairness

-----------------------------------------------------------------------------
(* Properties.                                                             *)

\* Whatever step of the set-up fails, and however stop() and the handler race,
\* a worker that has ended holds nothing and a handler never outlives the
\* buffers it copies from.  Only what a call gives back is counted: the closure
\* connected to requestCompleted, which nothing disconnects, keeps a reference to
\* the camera beyond that.
NothingLeaked ==
    /\ worker \in {"none", "ended"} => held = {}
    /\ handler # "idle" => held = {"manager", "camera", "buffers", "stream"}

\* The program loses no request: while the camera runs, each that is neither
\* queued nor in the handler is one that the camera itself cancelled or did not
\* take back; bad buffers and failed copies never run it dry.
PoolKept ==
    running /\ worker \in WaitPoints =>
        \A r \in pool \ refused :
            request[r] = "queued" \/ (request[r] = "handled" /\ handler # "idle")

\* The slack behind the last row is less than one byte for each row.
LittleSlack(p) == Rows * p.stride <= p.length /\ p.length < Rows * (p.stride + 1)

\* No plane that holds all rows is refused, one that does not is never emitted,
\* and the rows of a frame were read where the driver put them exactly when the
\* plane has little slack: with more of it, or with a last row that is not
\* padded, the estimated stride is wrong and the frame is torn.
WholeFrames ==
    /\ handler = "copy" /\ plane.length >= Rows * RowBytes => Copies(plane.length)
    /\ handler = "emit" =>
           /\ plane.length >= Rows * RowBytes
           /\ stride(plane.length) = plane.stride <=> LittleSlack(plane)

\* stop() returns, unless its notification came between the worker's test of
\* running_ and its sleep.
StopReturns == owner \in {"notify", "join"} ~> owner \in {"down", "aborted"} \/ missed

=============================================================================
