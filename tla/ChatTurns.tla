------------------------------ MODULE ChatTurns ------------------------------
(***************************************************************************)
(* The turns of one chat session: the route that accepts them, the         *)
(* persisted FIFO queue, the drain task that processes them, the executor  *)
(* threads that run the chat agent, and the image jobs those submit.       *)
(*                                                                         *)
(* The event loop runs one step at a time between its awaits; executor     *)
(* threads, the route threads and a crash of the server interleave with    *)
(* it.  Writing the reply, announcing it and dequeuing the turn are        *)
(* separate writes of separate files.                                      *)
(***************************************************************************)
EXTENDS Conversations, FiniteSets

CONSTANTS
    NoTurn,
    PoolSize,       \* threads of the event loop's executor
    MaxRestarts,    \* restarts of the server
    MaxThreadWrites \* conversation updates by other threads

ASSUME NoTurnAssumption == NoTurn \notin Turns
ASSUME BoundsAssumption == PoolSize \in Nat /\ MaxRestarts \in Nat /\ MaxThreadWrites \in Nat

VARIABLES
    exists,     \* whether the session's conversation file exists
    file,       \* its messages
    queue,      \* queue.json
    inflight,   \* inflight.json
    draining,   \* whether a drain task runs (or is scheduled)
    stage,      \* how far the loop is with the current turn
    current,    \* the turn being processed
    threads,    \* executor threads that run the agent
    job,        \* image jobs, in memory
    held,       \* the file as another thread read it before writing it back
    told,       \* the notification feed
    restarts, threadWrites,
    order,      \* history: turns as they were accepted
    runs,       \* history: how often each was started
    lost,       \* history: turns dropped by a torn write of queue.json
    reverted    \* history: turns whose message a stale write-back changed

fileVars == <<exists, file>>
diskVars == <<queue, inflight>>
loopVars == <<draining, stage, current>>
bounds == <<restarts, threadWrites>>
history == <<order, lost, reverted>>
vars == <<fileVars, diskVars, loopVars, threads, job, held, told, bounds, history, runs>>

Thread == [turn : Turns, run : Nat, slot : BOOLEAN, image : {"none", "tool", "forced"}]
Job == [status : {"unused", "queued", "running", "done", "failed", "gone"},
        turn : Turns \cup {NoTurn}]
Unheld == [kind |-> "none"]
Reading == [kind : {"retry", "other"}, turn : Turns \cup {NoTurn}, file : File]
Notes == {"chat_turn_ready", "chat_turn_failed", "chat_image_ready", "chat_image_failed"}

Elements(s) == {s[i] : i \in DOMAIN s}
Accepted == Elements(order)
Waiting == Elements(queue) \cup ({inflight} \ {NoTurn})

TypeOK ==
    /\ exists \in BOOLEAN /\ file \in File
    /\ queue \in Seq(Turns) /\ inflight \in Turns \cup {NoTurn}
    /\ draining \in BOOLEAN
    /\ stage \in {"resuming", "free", "awaiting", "written", "told"}
    /\ current \in Turns \cup {NoTurn}
    /\ threads \subseteq Thread
    /\ job \in [Jobs -> Job]
    /\ held \in Reading \cup {Unheld}
    /\ told \subseteq [kind : Notes, turn : Turns]
    /\ restarts \in Nat /\ threadWrites \in Nat
    /\ order \in Seq(Turns)
    /\ runs \in [Turns -> Nat]
    /\ lost \subseteq Turns /\ reverted \subseteq Turns

Init ==
    /\ exists = TRUE
    /\ file = [t \in Turns |-> NoMessage]
    /\ queue = <<>> /\ inflight = NoTurn
    /\ draining = FALSE /\ stage = "free" /\ current = NoTurn
    /\ threads = {}
    /\ job = [j \in Jobs |-> [status |-> "unused", turn |-> NoTurn]]
    /\ held = Unheld
    /\ told = {}
    /\ restarts = 0 /\ threadWrites = 0
    /\ order = <<>> /\ runs = [t \in Turns |-> 0]
    /\ lost = {} /\ reverted = {}

\* Between two awaits nothing else runs on the event loop.
LoopFree == stage \in {"free", "awaiting"}

-----------------------------------------------------------------------------
(* The route and the drain task.                                           *)

\* Faulty variant: the newest turn first.
AcceptFirst(t) ==
    /\ LoopFree /\ exists /\ t \notin Accepted
    /\ file' = [file EXCEPT ![t] = Placeholder]
    /\ queue' = <<t>> \o queue
    /\ order' = Append(order, t)
    /\ draining' = TRUE
    /\ UNCHANGED <<exists, inflight, stage, current, threads, job, held, told, bounds,
                   runs, lost, reverted>>

\* POST /chat: append both messages, enqueue the turn, kick the drain.
Accept(t) ==
    /\ LoopFree /\ exists /\ t \notin Accepted
    /\ file' = [file EXCEPT ![t] = Placeholder]
    /\ queue' = Append(queue, t)
    /\ order' = Append(order, t)
    /\ draining' = TRUE
    /\ UNCHANGED <<exists, inflight, stage, current, threads, job, held, told, bounds,
                   runs, lost, reverted>>

\* Faulty variant: only queue.json is looked at.
NextQueuedTurnDue == draining /\ stage \in {"resuming", "free"} /\ queue # <<>>

\* The drain task takes the next turn.  After a restart it does so before the
\* first request is served.
NextTurnDue == draining /\ stage \in {"resuming", "free"} /\ Waiting # {}

\* Peek the queue, or put an in-flight turn that is no longer queued back into
\* it; remember the turn as in flight and hand it to an executor thread.  A
\* turn of a deleted session is dropped.
Begin ==
    /\ NextTurnDue
    /\ LET t == IF queue = <<>> THEN inflight ELSE Head(queue) IN
       /\ queue' = IF queue = <<>> THEN <<inflight>> ELSE queue
       /\ inflight' = t /\ current' = t
       /\ \/ /\ exists
             /\ stage' = "awaiting"
             /\ runs' = [runs EXCEPT ![t] = @ + 1]
             /\ threads' = threads \cup
                   {[turn |-> t, run |-> runs[t] + 1, slot |-> FALSE, image |-> "none"]}
          \/ /\ ~exists
             /\ stage' = "told"
             /\ UNCHANGED <<runs, threads>>
    /\ UNCHANGED <<fileVars, draining, job, held, told, bounds, history>>

\* Nothing is left: the drain task ends.
Drained ==
    /\ draining /\ stage = "free" /\ Waiting = {}
    /\ draining' = FALSE
    /\ UNCHANGED <<fileVars, diskVars, stage, current, threads, job, held, told, bounds,
                   history, runs>>

\* The thread whose result the drain task waits for.
Awaited(th) == stage = "awaiting" /\ th.turn = current /\ th.run = runs[current]

\* Faulty variant: a failure is not announced.
FailTurnSilently(t) ==
    /\ file' = Failed(file, t)
    /\ stage' = "told"
    /\ UNCHANGED told

\* _fail_turn: nothing is announced if the message is gone (KeyError).
FailTurn(t) ==
    /\ file' = Failed(file, t)
    /\ stage' = "told"
    /\ told' = IF exists /\ Has(file, t)
               THEN told \cup {[kind |-> "chat_turn_failed", turn |-> t]} ELSE told

\* The agent returns: its reply, which may be blank, replaces the placeholder.
RunReturns(th, reply) ==
    /\ th \in threads /\ th.slot
    /\ threads' = threads \ {th}
    /\ \/ /\ Awaited(th) /\ Has(file, current)
          /\ file' = LET answered == WithText(file, current, reply) IN
                     IF th.image = "forced" THEN WithAction(answered, current, "queued")
                     ELSE answered
          /\ stage' = "written"
          /\ UNCHANGED told
       \/ /\ Awaited(th) /\ ~Has(file, current)
          /\ FailTurn(current)
       \/ /\ ~Awaited(th) /\ reply = "answer"
          /\ UNCHANGED <<file, stage, told>>
    /\ UNCHANGED <<exists, diskVars, draining, current, job, held, bounds, history, runs>>

RunRaises(th) ==
    /\ th \in threads /\ th.slot
    /\ threads' = threads \ {th}
    /\ \/ Awaited(th) /\ FailTurn(current)
       \/ ~Awaited(th) /\ UNCHANGED <<file, stage, told>>
    /\ UNCHANGED <<exists, diskVars, draining, current, job, held, bounds, history, runs>>

\* wait_for gives up: a thread that has a slot goes on, one that waits for a
\* slot is cancelled.
TimeOut ==
    /\ stage = "awaiting"
    /\ FailTurn(current)
    /\ threads' = {th \in threads : th.slot}
    /\ UNCHANGED <<exists, diskVars, draining, current, job, held, bounds, history, runs>>

\* Transcript, counters, trajectory and reviews, then the notification; an
\* exception on the way turns the reply into a failure.
Announce ==
    /\ stage = "written"
    /\ told' = told \cup {[kind |-> "chat_turn_ready", turn |-> current]}
    /\ stage' = "told"
    /\ UNCHANGED <<fileVars, diskVars, draining, current, threads, job, held, bounds,
                   history, runs>>

PostFails ==
    /\ stage = "written"
    /\ FailTurn(current)
    /\ UNCHANGED <<exists, diskVars, draining, current, threads, job, held, bounds, history, runs>>

\* Faulty variant: the turn stays first in the queue.
DequeueNothing ==
    /\ stage = "told"
    /\ inflight' = NoTurn
    /\ stage' = "free" /\ current' = NoTurn
    /\ UNCHANGED <<fileVars, queue, draining, threads, job, held, told, bounds, history, runs>>

\* The finally block: clear inflight.json, remove the turn if it is still first.
Dequeue ==
    /\ stage = "told"
    /\ inflight' = NoTurn
    /\ queue' = IF queue # <<>> /\ Head(queue) = current THEN Tail(queue) ELSE queue
    /\ stage' = "free" /\ current' = NoTurn
    /\ UNCHANGED <<fileVars, draining, threads, job, held, told, bounds, history, runs>>

-----------------------------------------------------------------------------
(* Executor threads and image jobs.                                        *)

TakeSlot(th) ==
    /\ th \in threads /\ ~th.slot
    /\ Cardinality({o \in threads : o.slot}) < PoolSize
    /\ threads' = (threads \ {th}) \cup {[th EXCEPT !.slot = TRUE]}
    /\ UNCHANGED <<fileVars, diskVars, loopVars, job, held, told, bounds, history, runs>>

\* generate_image called by the model, or forced after the audit when no call
\* of it succeeded.
SubmitImage(th, j, how) ==
    /\ th \in threads /\ th.slot
    /\ \/ how = "tool" /\ th.image # "forced"
       \/ how = "forced" /\ th.image = "none"
    /\ job[j].status = "unused"
    /\ job' = [job EXCEPT ![j] = [status |-> "queued", turn |-> th.turn]]
    /\ threads' = (threads \ {th}) \cup {[th EXCEPT !.image = how]}
    /\ UNCHANGED <<fileVars, diskVars, loopVars, held, told, bounds, history, runs>>

\* One image at a time (_flux_lock).
JobStarts(j) ==
    /\ LoopFree
    /\ job[j].status = "queued"
    /\ \A i \in Jobs : job[i].status # "running"
    /\ job' = [job EXCEPT ![j].status = "running"]
    /\ UNCHANGED <<fileVars, diskVars, loopVars, threads, held, told, bounds, history, runs>>

\* The image is attached and the listener marks the action and notifies.
JobSucceeds(j) ==
    LET t == job[j].turn IN
    /\ LoopFree
    /\ job[j].status = "running" /\ Holders(file, t, order) # {}
    /\ file' = Marked(WithImage(file, t, order, j), t, "succeeded")
    /\ job' = [job EXCEPT ![j].status = "done"]
    /\ told' = told \cup {[kind |-> "chat_image_ready", turn |-> t]}
    /\ UNCHANGED <<exists, diskVars, loopVars, threads, held, bounds, history, runs>>

\* The generator raises, or nothing is left to attach to.  The job has no
\* result, so the listener knows neither session nor message.
JobFails(j) ==
    /\ LoopFree
    /\ job[j].status = "running"
    /\ job' = [job EXCEPT ![j].status = "failed"]
    /\ UNCHANGED <<fileVars, diskVars, loopVars, threads, held, told, bounds, history, runs>>

-----------------------------------------------------------------------------
(* Other threads that rewrite the file: the retry route (which submits an  *)
(* image job first), and the memory review and the tool that attaches a    *)
(* document (which change no message's reply).                             *)

RetryReads(t, j) ==
    /\ held = Unheld /\ threadWrites < MaxThreadWrites
    /\ exists /\ Has(file, t)
    /\ job[j].status = "unused"
    /\ job' = [job EXCEPT ![j] = [status |-> "queued", turn |-> t]]
    /\ held' = [kind |-> "retry", turn |-> t, file |-> file]
    /\ threadWrites' = threadWrites + 1
    /\ UNCHANGED <<fileVars, diskVars, loopVars, threads, told, restarts, history, runs>>

ThreadReads ==
    /\ held = Unheld /\ threadWrites < MaxThreadWrites
    /\ exists
    /\ held' = [kind |-> "other", turn |-> NoTurn, file |-> file]
    /\ threadWrites' = threadWrites + 1
    /\ UNCHANGED <<fileVars, diskVars, loopVars, threads, job, told, restarts, history, runs>>

\* The write recreates a file that was deleted in between.
ThreadWrites ==
    /\ held # Unheld
    /\ file' = IF held.kind = "retry" THEN WithAction(held.file, held.turn, "queued")
               ELSE held.file
    /\ exists' = TRUE
    /\ reverted' = reverted \cup {t \in Turns : ~exists \/ held.file[t] # file[t]}
    /\ held' = Unheld
    /\ UNCHANGED <<diskVars, loopVars, threads, job, told, bounds, order, lost, runs>>

DeleteSession ==
    /\ exists
    /\ exists' = FALSE
    /\ file' = [t \in Turns |-> NoMessage]
    /\ UNCHANGED <<diskVars, loopVars, threads, job, held, told, bounds, history, runs>>

-----------------------------------------------------------------------------
(* A crash, and the restart that resumes the queue.                        *)

\* Faulty variant: messages with a reply are marked too.
InterruptedAll(f, k) ==
    [t \in Turns |-> IF t \in Elements(SubSeq(order, 1, k)) THEN Failed(f, t)[t] ELSE f[t]]

\* Empty messages older than the limit are marked as interrupted, queued or
\* replied to or not: those of the first k turns.
Interrupted(f, k) ==
    [t \in Turns |-> IF t \in Elements(SubSeq(order, 1, k)) /\ f[t].text \in LooksEmpty
                     THEN Failed(f, t)[t] ELSE f[t]]

\* Where a crash hits: between two steps, in the route before it enqueued the
\* turn whose messages it appended, or inside a write of queue.json (by the
\* route, or by the removal when another turn is queued), which is not atomic.
Crashes == {"between", "accept", "enqueue", "remove"}

Torn(at) == at \in {"enqueue", "remove"}

\* An unreadable queue.json is read as empty, and the turns in it are lost.
CrashLeaves(at, asked) ==
    /\ \/ at = "between" /\ asked = {}
       \/ at \in {"accept", "enqueue"} /\ LoopFree /\ exists
             /\ \E t \in Turns \ Accepted : asked = {t}
       \/ at = "remove" /\ stage = "told" /\ Len(queue) > 1 /\ asked = {}
    /\ queue' = IF Torn(at) THEN <<>> ELSE queue
    /\ inflight' = IF at = "remove" THEN NoTurn ELSE inflight
    /\ lost' = lost \cup asked \cup
                 (IF at = "enqueue" THEN Elements(queue) \ {inflight}
                  ELSE IF at = "remove" THEN Elements(queue) \ {current} ELSE {})

\* Memory is gone; the queue is resumed if there is work.
Restart(at, asked, k) ==
    /\ restarts < MaxRestarts
    /\ restarts' = restarts + 1
    /\ CrashLeaves(at, asked)
    /\ order' = IF asked = {} THEN order ELSE Append(order, CHOOSE t \in asked : TRUE)
    /\ file' = Interrupted([t \in Turns |-> IF t \in asked THEN Placeholder ELSE file[t]], k)
    /\ draining' = (queue' # <<>> \/ inflight' # NoTurn)
    /\ stage' = (IF draining' THEN "resuming" ELSE "free") /\ current' = NoTurn
    /\ threads' = {} /\ held' = Unheld
    /\ job' = [j \in Jobs |-> IF job[j].status \in {"queued", "running"}
                              THEN [job[j] EXCEPT !.status = "gone"] ELSE job[j]]
    /\ UNCHANGED <<exists, told, threadWrites, reverted, runs>>

Next ==
    \/ \E t \in Turns : Accept(t)
    \/ Begin \/ Drained
    \/ \E th \in threads, reply \in {"answer", "blank"} : RunReturns(th, reply)
    \/ \E th \in threads : RunRaises(th) \/ TakeSlot(th)
    \/ TimeOut \/ Announce \/ PostFails \/ Dequeue
    \/ \E th \in threads, j \in Jobs, how \in {"tool", "forced"} : SubmitImage(th, j, how)
    \/ \E j \in Jobs : JobStarts(j) \/ JobSucceeds(j) \/ JobFails(j)
    \/ \E t \in Turns, j \in Jobs : RetryReads(t, j)
    \/ ThreadReads \/ ThreadWrites \/ DeleteSession
    \/ \E at \in Crashes, asked \in {{}} \cup {{t} : t \in Turns}, k \in 0..Len(order) :
          Restart(at, asked, k)

\* The event loop schedules the drain task, and wait_for fires; nothing is
\* assumed about the agent's threads or the jobs.
Fairness ==
    WF_vars(Begin) /\ WF_vars(TimeOut) /\ WF_vars(Announce) /\ WF_vars(Dequeue)

Spec == Init /\ [][Next]_vars /\ Fairness

-----------------------------------------------------------------------------
(* What the queue promises.                                                *)

\* A torn queue.json loses turns, a stale write-back reverts messages.
Spoiled == lost \cup reverted

Settled(t) == t \in Accepted \ Waiting /\ file[t].text \in {"answer", "failure"}

\* Every accepted turn is still waiting, or its message holds a reply (or a
\* failure) that was announced: whatever the drain task, time-outs, crashes
\* between its writes and re-runs did.
RepliesAreKept ==
    exists => \A t \in Accepted \ (Waiting \cup Spoiled) :
        /\ file[t].text \in {"answer", "blank", "failure"}
        /\ \E n \in told : n.turn = t /\ n.kind \in {"chat_turn_ready", "chat_turn_failed"}

\* No turn is started before all those accepted earlier are done with.
TurnsRunInOrder ==
    \A i, k \in DOMAIN order : i < k /\ runs[order[k]] > 0 => order[i] \notin Waiting

\* A turn's tools are run again only after a restart.
RepeatsNeedRestart == \A t \in Turns : runs[t] <= 1 + restarts

\* A generated image ends up on the message it was asked for, whenever the job
\* finishes: before the reply is written, after a time-out, during a re-run.
ImagesReachTheirMessage ==
    exists => \A j \in Jobs : job[j].status = "done" /\ job[j].turn \notin Spoiled =>
                  j \in file[job[j].turn].images

\* A reply, once settled, stays: a thread that outlives its time-out changes
\* nothing, nor does a restart.
SettledRepliesStay ==
    [][\A t \in Turns : Settled(t) /\ exists' /\ t \notin Spoiled' =>
          file'[t].text = file[t].text /\ file'[t].failed = file[t].failed]_vars

\* Every turn leaves the queue, if only by its time-out.
TurnsLeaveTheQueue == \A t \in Turns : t \in Waiting ~> t \notin Waiting
=============================================================================
