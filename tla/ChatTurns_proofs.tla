-------------------------- MODULE ChatTurns_proofs --------------------------
(***************************************************************************)
(* The turn queue of a chat session for any turns, image jobs, threads and *)
(* restarts: its types, that every accepted turn keeps an announced reply, *)
(* the order of the turns, their repeats, and where images end up.         *)
(***************************************************************************)
EXTENDS ChatTurns, TLAPS

\* a was accepted before b.
Before(a, b) == \E i, k \in DOMAIN order : i < k /\ order[i] = a /\ order[k] = b

\* The queue holds the turns in the order of their acceptance, the one in
\* flight first.
QueueInv ==
    /\ \A i, k \in DOMAIN order : order[i] = order[k] => i = k
    /\ Waiting \subseteq Accepted
    /\ \A i, k \in DOMAIN queue : i < k => Before(queue[i], queue[k])
    /\ queue # <<>> /\ inflight # NoTurn => inflight = Head(queue)

\* The loop's current turn is the one in flight.
StageInv ==
    /\ stage \in {"free", "resuming"} => current = NoTurn
    /\ stage = "free" => inflight = NoTurn
    /\ stage \in {"awaiting", "written", "told"} =>
          current \in Turns /\ inflight = current /\ queue # <<>>

\* A waiting turn that is not being processed has a run left.
RunInv ==
    /\ \A t \in Turns : runs[t] > 0 => t \in Accepted
    /\ \A t \in Waiting : t = current \/ runs[t] <= restarts

\* Whatever refers to a turn refers to an accepted one, whose message is there.
RefInv ==
    /\ \A t \in Turns : Has(file, t) => t \in Accepted
    /\ held # Unheld => \A t \in Turns : Has(held.file, t) => t \in Accepted
    /\ held # Unheld /\ held.kind = "retry" => held.turn \in Turns
    /\ \A th \in threads : th.turn \in Accepted
    /\ \A j \in Jobs : job[j].status # "unused" => job[j].turn \in Accepted
    /\ exists => \A t \in Accepted \ Spoiled : Has(file, t)

Replied(t) == file[t].text \in {"answer", "blank", "failure"}
Announced(t) == \E n \in told : n.turn = t /\ n.kind \in {"chat_turn_ready", "chat_turn_failed"}

\* Before it is dequeued a turn has its reply and, after that, its notification.
ReplyInv ==
    exists /\ current \notin Spoiled =>
        /\ stage \in {"written", "told"} => Replied(current)
        /\ stage = "told" => Announced(current)

IInv ==
    /\ TypeOK /\ QueueInv /\ StageInv /\ RunInv /\ RefInv /\ ReplyInv
    /\ RepliesAreKept /\ TurnsRunInOrder /\ RepeatsNeedRestart /\ ImagesReachTheirMessage

-----------------------------------------------------------------------------
(* What an update of one message leaves alone.                             *)

LEMMA TextField ==
    ASSUME NEW m \in Message, NEW x \in Texts, NEW n, n = [m EXCEPT !.text = x]
    PROVE  n \in Message /\ n.text = x /\ n.failed = m.failed /\ n.images = m.images
  BY DEF Message

LEMMA ActionField ==
    ASSUME NEW m \in Message, NEW x \in ActionStates, NEW n, n = [m EXCEPT !.action = x]
    PROVE  n \in Message /\ n.text = m.text /\ n.failed = m.failed /\ n.images = m.images
  BY DEF Message

LEMMA ImagesField ==
    ASSUME NEW m \in Message, NEW j \in Jobs, NEW n, n = [m EXCEPT !.images = @ \cup {j}]
    PROVE  /\ n \in Message /\ n.text = m.text /\ n.failed = m.failed
           /\ n.images = m.images \cup {j}
  BY DEF Message

LEMMA FailedFields ==
    ASSUME NEW m \in Message, NEW n, n = [m EXCEPT !.text = "failure", !.failed = TRUE]
    PROVE  n \in Message /\ n.text = "failure" /\ n.images = m.images
  BY DEF Message, Texts

LEMMA EmptyMessages ==
    /\ NoMessage \in Message /\ NoMessage.text = "absent" /\ NoMessage.images = {}
    /\ Placeholder \in Message /\ Placeholder.text = "empty" /\ Placeholder.images = {}
  BY DEF NoMessage, Placeholder, Message, Texts, ActionStates

\* A reply changes the text of its message, and nothing else.
LEMMA WithTextOf ==
    ASSUME NEW f \in File, NEW t \in Turns, NEW x \in Texts, NEW g, g = WithText(f, t, x)
    PROVE  /\ g \in File
           /\ \A u \in Turns : g[u].images = f[u].images /\ g[u].failed = f[u].failed
           /\ \A u \in Turns \ {t} : g[u] = f[u]
           /\ Has(f, t) => g[t].text = x
           /\ ~Has(f, t) => g = f
  <1>1. CASE Has(f, t)
    <2> DEFINE n == [f[t] EXCEPT !.text = x]
    <2>1. f[t] \in Message
      BY DEF File
    <2>2. n \in Message /\ n.images = f[t].images
      BY <2>1, TextField
    <2>3. n.failed = f[t].failed /\ n.text = x
      BY <2>1, TextField
    <2>4. g = [f EXCEPT ![t] = n]
      BY <1>1 DEF WithText
    <2> HIDE DEF n
    <2> QED BY <1>1, <2>2, <2>3, <2>4 DEF File
  <1>2. CASE ~Has(f, t)
    BY <1>2 DEF WithText
  <1> QED BY <1>1, <1>2

LEMMA WithActionOf ==
    ASSUME NEW f \in File, NEW t \in Turns, NEW x \in ActionStates, NEW g, g = WithAction(f, t, x)
    PROVE  /\ g \in File
           /\ \A u \in Turns : /\ g[u].images = f[u].images /\ g[u].failed = f[u].failed
                               /\ g[u].text = f[u].text
           /\ \A u \in Turns \ {t} : g[u] = f[u]
  <1>1. CASE Has(f, t)
    <2> DEFINE n == [f[t] EXCEPT !.action = x]
    <2>1. f[t] \in Message
      BY DEF File
    <2>2. n \in Message /\ n.images = f[t].images
      BY <2>1, ActionField
    <2>3. n.failed = f[t].failed /\ n.text = f[t].text
      BY <2>1, ActionField
    <2>4. g = [f EXCEPT ![t] = n]
      BY <1>1 DEF WithAction
    <2> HIDE DEF n
    <2> QED BY <1>1, <2>2, <2>3, <2>4 DEF File
  <1>2. CASE ~Has(f, t)
    BY <1>2 DEF WithAction
  <1> QED BY <1>1, <1>2

LEMMA FailedOf ==
    ASSUME NEW f \in File, NEW t \in Turns, NEW g, g = Failed(f, t)
    PROVE  /\ g \in File
           /\ \A u \in Turns : g[u].images = f[u].images
           /\ \A u \in Turns \ {t} : g[u] = f[u]
           /\ Has(f, t) => g[t].text = "failure"
           /\ ~Has(f, t) => g = f
  <1>1. CASE Has(f, t)
    <2> DEFINE n == [f[t] EXCEPT !.text = "failure", !.failed = TRUE]
    <2>1. f[t] \in Message
      BY DEF File
    <2>2. n \in Message /\ n.images = f[t].images
      BY <2>1, FailedFields
    <2>3. n.text = "failure"
      BY <2>1, FailedFields
    <2>4. g = [f EXCEPT ![t] = n]
      BY <1>1 DEF Failed
    <2> HIDE DEF n
    <2> QED BY <1>1, <2>2, <2>3, <2>4 DEF File
  <1>2. CASE ~Has(f, t)
    BY <1>2 DEF Failed
  <1> QED BY <1>1, <1>2

\* An image is added to the messages found for it, its own if it is there.
LEMMA WithImageOf ==
    ASSUME NEW f \in File, NEW t \in Turns, NEW j \in Jobs, NEW o, NEW g,
           g = WithImage(f, t, o, j)
    PROVE  /\ g \in File
           /\ \A u \in Turns : /\ g[u].text = f[u].text /\ g[u].failed = f[u].failed
                               /\ f[u].images \subseteq g[u].images
           /\ Has(f, t) => j \in g[t].images
  <1>1. \A u \in Turns : g[u] = IF u \in Holders(f, t, o)
                                THEN [f[u] EXCEPT !.images = @ \cup {j}] ELSE f[u]
    BY DEF WithImage
  <1>2. g = [u \in Turns |-> g[u]]
    BY DEF WithImage
  <1>3. ASSUME NEW u \in Turns
        PROVE  /\ g[u] \in Message
               /\ g[u].text = f[u].text /\ g[u].failed = f[u].failed
               /\ f[u].images \subseteq g[u].images
               /\ u \in Holders(f, t, o) => j \in g[u].images
    <2> DEFINE n == [f[u] EXCEPT !.images = @ \cup {j}]
    <2>1. f[u] \in Message
      BY DEF File
    <2>2. /\ n \in Message /\ n.text = f[u].text /\ n.failed = f[u].failed
          /\ n.images = f[u].images \cup {j}
      BY <2>1, ImagesField
    <2>3. g[u] = IF u \in Holders(f, t, o) THEN n ELSE f[u]
      BY <1>1
    <2> HIDE DEF n
    <2> QED BY <2>1, <2>2, <2>3
  <1>4. Has(f, t) => t \in Holders(f, t, o)
    BY DEF Holders
  <1> QED BY <1>2, <1>3, <1>4 DEF File

LEMMA MarkedOf ==
    ASSUME NEW f \in File, NEW t \in Turns, NEW x \in ActionStates, NEW g, g = Marked(f, t, x)
    PROVE  /\ g \in File
           /\ \A u \in Turns : /\ g[u].images = f[u].images /\ g[u].failed = f[u].failed
                               /\ g[u].text = f[u].text
  <1>1. CASE g = WithAction(f, t, x)
    BY <1>1, WithActionOf
  <1>2. CASE g = f
    BY <1>2
  <1> QED BY <1>1, <1>2 DEF Marked

\* Marking interrupted messages touches those that look empty only.
LEMMA InterruptedOf ==
    ASSUME NEW f \in File, NEW k, NEW g, g = Interrupted(f, k)
    PROVE  /\ g \in File
           /\ \A u \in Turns : g[u].images = f[u].images
           /\ \A u \in Turns : g[u] = f[u] \/ (f[u].text \in LooksEmpty /\ g[u].text = "failure")
  <1> DEFINE Cut(u) == u \in Elements(SubSeq(order, 1, k)) /\ f[u].text \in LooksEmpty
  <1>1. \A u \in Turns : g[u] = IF Cut(u) THEN Failed(f, u)[u] ELSE f[u]
    BY DEF Interrupted
  <1>2. g = [u \in Turns |-> g[u]]
    BY DEF Interrupted
  <1>3. ASSUME NEW u \in Turns
        PROVE  /\ g[u] \in Message /\ g[u].images = f[u].images
               /\ g[u] = f[u] \/ (f[u].text \in LooksEmpty /\ g[u].text = "failure")
    <2>1. CASE Cut(u)
      <3>1. g[u] = Failed(f, u)[u]
        BY <1>1, <2>1
      <3>2. Has(f, u)
        BY <2>1 DEF Has, LooksEmpty
      <3>3. f[u].text \in LooksEmpty
        BY <2>1
      <3> HIDE DEF Cut
      <3>4. Failed(f, u) \in File /\ Failed(f, u)[u].images = f[u].images
            /\ Failed(f, u)[u].text = "failure"
        BY <3>2, FailedOf
      <3> QED BY <3>1, <3>3, <3>4 DEF File
    <2>2. CASE ~Cut(u)
      <3>1. g[u] = f[u]
        BY <1>1, <2>2
      <3>2. f[u] \in Message
        BY DEF File
      <3> QED BY <3>1, <3>2
    <2> QED BY <2>1, <2>2
  <1> HIDE DEF Cut
  <1> QED BY <1>2, <1>3 DEF File

-----------------------------------------------------------------------------
(* The steps that answer the current turn, or fail it.                     *)

\* What they have in common: they touch one message, never its images, and
\* leave a reply, announced already if it is a failure.
Answering ==
    /\ UNCHANGED <<exists, diskVars, draining, current, job, held, bounds, history, runs>>
    /\ threads' \subseteq threads
    /\ file' \in File
    /\ told \subseteq told' /\ told' \subseteq [kind : Notes, turn : Turns]
    /\ \A u \in Turns : /\ file'[u].images = file[u].images
                        /\ Has(file', u) <=> Has(file, u)
    /\ \A u \in Turns \ {current} : file'[u] = file[u]
    /\ \/ UNCHANGED <<file, stage, told>>
       \/ /\ stage = "awaiting" /\ stage' = "written"
          /\ file'[current].text \in {"answer", "blank"}
       \/ /\ stage \in {"awaiting", "written"} /\ stage' = "told"
          /\ exists /\ Has(file, current) =>
                /\ file'[current].text = "failure"
                /\ \E n \in told' : n.turn = current /\ n.kind = "chat_turn_failed"

LEMMA FailTurnOf ==
    ASSUME TypeOK, NEW t \in Turns, FailTurn(t)
    PROVE  /\ file' \in File /\ stage' = "told"
           /\ told \subseteq told' /\ told' \subseteq [kind : Notes, turn : Turns]
           /\ \A u \in Turns : /\ file'[u].images = file[u].images
                               /\ Has(file', u) <=> Has(file, u)
           /\ \A u \in Turns \ {t} : file'[u] = file[u]
           /\ exists /\ Has(file, t) =>
                /\ file'[t].text = "failure"
                /\ \E n \in told' : n.turn = t /\ n.kind = "chat_turn_failed"
  <1>1. file \in File /\ file' = Failed(file, t)
    BY DEF TypeOK, FailTurn
  <1>2. /\ file' \in File
        /\ \A u \in Turns : file'[u].images = file[u].images
        /\ \A u \in Turns \ {t} : file'[u] = file[u]
        /\ Has(file, t) => file'[t].text = "failure"
        /\ ~Has(file, t) => file' = file
    BY <1>1, FailedOf
  <1>3. [kind |-> "chat_turn_failed", turn |-> t] \in [kind : Notes, turn : Turns]
    BY DEF Notes
  <1>4. told' = IF exists /\ Has(file, t)
                THEN told \cup {[kind |-> "chat_turn_failed", turn |-> t]} ELSE told
    BY DEF FailTurn
  <1>5. told \subseteq told' /\ told' \subseteq [kind : Notes, turn : Turns]
    BY <1>3, <1>4 DEF TypeOK
  <1>6. exists /\ Has(file, t) => \E n \in told' : n.turn = t /\ n.kind = "chat_turn_failed"
    <2> DEFINE note == [kind |-> "chat_turn_failed", turn |-> t]
    <2>1. note.turn = t /\ note.kind = "chat_turn_failed"
      OBVIOUS
    <2>2. exists /\ Has(file, t) => note \in told'
      BY <1>4
    <2> HIDE DEF note
    <2> QED BY <2>1, <2>2
  <1>7. \A u \in Turns : Has(file', u) <=> Has(file, u)
    BY <1>2 DEF Has
  <1> QED BY <1>2, <1>5, <1>6, <1>7 DEF FailTurn

LEMMA TimeOutAnswers ==
    ASSUME TypeOK, StageInv, TimeOut PROVE Answering
  <1>1. stage = "awaiting" /\ current \in Turns /\ FailTurn(current) /\ threads' \subseteq threads
    BY DEF TimeOut, StageInv
  <1>2. UNCHANGED <<exists, diskVars, draining, current, job, held, bounds, history, runs>>
    BY DEF TimeOut
  <1> QED BY <1>1, <1>2, FailTurnOf DEF Answering

LEMMA PostFailsAnswers ==
    ASSUME TypeOK, StageInv, PostFails PROVE Answering
  <1>1. /\ stage = "written" /\ current \in Turns /\ FailTurn(current)
        /\ threads' \subseteq threads
    BY DEF PostFails, StageInv
  <1>2. UNCHANGED <<exists, diskVars, draining, current, job, held, bounds, history, runs>>
    BY DEF PostFails
  <1> QED BY <1>1, <1>2, FailTurnOf DEF Answering

LEMMA LateAnswers ==
    ASSUME TypeOK, UNCHANGED <<file, stage, told>>, threads' \subseteq threads,
           UNCHANGED <<exists, diskVars, draining, current, job, held, bounds, history, runs>>
    PROVE  Answering
  BY DEF Answering, TypeOK

LEMMA RunRaisesAnswers ==
    ASSUME TypeOK, StageInv, NEW th \in threads, RunRaises(th) PROVE Answering
  <1>1. /\ UNCHANGED <<exists, diskVars, draining, current, job, held, bounds, history, runs>>
        /\ threads' \subseteq threads
    BY DEF RunRaises
  <1>2. CASE Awaited(th) /\ FailTurn(current)
    <2>1. stage = "awaiting" /\ current \in Turns
      BY <1>2 DEF Awaited, StageInv
    <2> QED BY <1>1, <1>2, <2>1, FailTurnOf DEF Answering
  <1>3. CASE UNCHANGED <<file, stage, told>>
    BY <1>1, <1>3, LateAnswers
  <1> QED BY <1>2, <1>3 DEF RunRaises

LEMMA RunReturnsAnswers ==
    ASSUME TypeOK, StageInv, NEW th \in threads, NEW reply \in {"answer", "blank"},
           RunReturns(th, reply)
    PROVE  Answering
  <1>1. /\ UNCHANGED <<exists, diskVars, draining, current, job, held, bounds, history, runs>>
        /\ threads' \subseteq threads
    BY DEF RunReturns
  <1> DEFINE answered == WithText(file, current, reply)
  <1>2. CASE /\ Awaited(th) /\ Has(file, current)
             /\ file' = IF th.image = "forced" THEN WithAction(answered, current, "queued")
                        ELSE answered
             /\ stage' = "written" /\ UNCHANGED told
    <2>1. stage = "awaiting" /\ current \in Turns /\ file \in File /\ reply \in Texts
      BY <1>2 DEF Awaited, StageInv, TypeOK, Texts
    <2>2. /\ answered \in File
          /\ \A u \in Turns : answered[u].images = file[u].images
          /\ \A u \in Turns \ {current} : answered[u] = file[u]
          /\ answered[current].text = reply
      BY <1>2, <2>1, WithTextOf
    <2> HIDE DEF answered
    <2>3. /\ file' \in File
          /\ \A u \in Turns : file'[u].images = file[u].images
          /\ \A u \in Turns \ {current} : file'[u] = file[u]
          /\ file'[current].text = reply
      <3>1. CASE file' = answered
        BY <2>2, <3>1
      <3>2. CASE file' = WithAction(answered, current, "queued")
        <4>1. "queued" \in ActionStates
          BY DEF ActionStates
        <4>2. /\ file' \in File
              /\ \A u \in Turns : /\ file'[u].images = answered[u].images
                                  /\ file'[u].text = answered[u].text
              /\ \A u \in Turns \ {current} : file'[u] = answered[u]
          BY <2>1, <2>2, <3>2, <4>1, WithActionOf
        <4> QED BY <2>1, <2>2, <4>2
      <3> QED BY <1>2, <3>1, <3>2
    <2>4. \A u \in Turns : Has(file', u) <=> Has(file, u)
      BY <1>2, <2>1, <2>3 DEF Has
    <2>5. told \subseteq told' /\ told' \subseteq [kind : Notes, turn : Turns]
      BY <1>2 DEF TypeOK
    <2> QED BY <1>1, <1>2, <2>1, <2>3, <2>4, <2>5 DEF Answering
  <1>3. CASE Awaited(th) /\ FailTurn(current)
    <2>1. stage = "awaiting" /\ current \in Turns
      BY <1>3 DEF Awaited, StageInv
    <2> QED BY <1>1, <1>3, <2>1, FailTurnOf DEF Answering
  <1>4. CASE UNCHANGED <<file, stage, told>>
    BY <1>1, <1>4, LateAnswers
  <1> QED BY <1>2, <1>3, <1>4 DEF RunReturns

-----------------------------------------------------------------------------
(* Types.                                                                  *)

LEMMA InitInv == Init => IInv
  <1> SUFFICES ASSUME Init PROVE IInv
    OBVIOUS
  <1>1. /\ Elements(order) = {} /\ Elements(queue) = {} /\ DOMAIN order = {} /\ DOMAIN queue = {}
        /\ Waiting = {} /\ Accepted = {}
    BY DEF Init, Elements, Waiting, Accepted
  <1>2. file \in File /\ \A t \in Turns : ~Has(file, t)
    BY EmptyMessages DEF Init, File, Has
  <1>3. TypeOK
    <2>1. job \in [Jobs -> Job]
      BY DEF Init, Job
    <2>2. runs \in [Turns -> Nat] /\ queue \in Seq(Turns) /\ order \in Seq(Turns)
      BY DEF Init
    <2> QED BY <1>2, <2>1, <2>2 DEF Init, TypeOK
  <1>4. QueueInv /\ StageInv /\ RunInv /\ TurnsRunInOrder /\ RepeatsNeedRestart
    BY <1>1 DEF Init, QueueInv, StageInv, RunInv, TurnsRunInOrder, RepeatsNeedRestart
  <1>5. RefInv /\ ReplyInv /\ RepliesAreKept /\ ImagesReachTheirMessage
    BY <1>1, <1>2 DEF Init, RefInv, ReplyInv, RepliesAreKept, ImagesReachTheirMessage
  <1> QED BY <1>3, <1>4, <1>5 DEF IInv

LEMMA NextAnswers ==
    ASSUME TypeOK, StageInv,
           \/ \E th \in threads, reply \in {"answer", "blank"} : RunReturns(th, reply)
           \/ \E th \in threads : RunRaises(th)
           \/ TimeOut \/ PostFails
    PROVE  Answering
  BY RunReturnsAnswers, RunRaisesAnswers, TimeOutAnswers, PostFailsAnswers

\* The next turn is one that waits, the first one of them.
LEMMA NextTurn ==
    ASSUME TypeOK, NextTurnDue, NEW t, t = IF queue = <<>> THEN inflight ELSE Head(queue)
    PROVE  t \in Turns /\ t \in Waiting /\ (queue = <<>> => t # NoTurn)
  <1>1. CASE queue = <<>>
    <2>1. Waiting = {inflight} \ {NoTurn}
      BY <1>1 DEF Waiting, Elements
    <2> QED BY <1>1, <2>1 DEF NextTurnDue, TypeOK
  <1>2. CASE queue # <<>>
    <2>1. 1 \in DOMAIN queue /\ Head(queue) = queue[1] /\ queue[1] \in Turns
      BY <1>2 DEF TypeOK
    <2> QED BY <1>2, <2>1 DEF Waiting, Elements
  <1> QED BY <1>1, <1>2

\* The two ways to begin a turn, by name of the turn.
BeginsWith(t) ==
    /\ queue' = IF queue = <<>> THEN <<t>> ELSE queue
    /\ inflight' = t /\ current' = t
    /\ \/ /\ exists /\ stage' = "awaiting"
          /\ runs' = [runs EXCEPT ![t] = @ + 1]
          /\ threads' = threads \cup
                {[turn |-> t, run |-> runs[t] + 1, slot |-> FALSE, image |-> "none"]}
       \/ ~exists /\ stage' = "told" /\ UNCHANGED <<runs, threads>>
    /\ UNCHANGED <<fileVars, draining, job, held, told, bounds, history>>

LEMMA BeginOf ==
    ASSUME TypeOK, Begin
    PROVE  \E t \in Turns : /\ t = IF queue = <<>> THEN inflight ELSE Head(queue)
                            /\ t \in Waiting /\ BeginsWith(t)
  <1> DEFINE t == IF queue = <<>> THEN inflight ELSE Head(queue)
  <1>1. NextTurnDue /\ t \in Turns /\ t \in Waiting
    BY NextTurn DEF Begin
  <1>2. BeginsWith(t)
    BY DEF Begin, BeginsWith
  <1> HIDE DEF t
  <1> QED BY <1>1, <1>2 DEF t

LEMMA ThreadFields ==
    ASSUME NEW th \in Thread
    PROVE  /\ [th EXCEPT !.slot = TRUE] \in Thread
           /\ [th EXCEPT !.slot = TRUE].turn = th.turn
           /\ \A how \in {"tool", "forced"} : /\ [th EXCEPT !.image = how] \in Thread
                                              /\ [th EXCEPT !.image = how].turn = th.turn
  BY DEF Thread

LEMMA JobFields ==
    ASSUME NEW j \in Job, NEW x \in {"queued", "running", "done", "failed", "gone"}
    PROVE  /\ [j EXCEPT !.status = x] \in Job
           /\ [j EXCEPT !.status = x].turn = j.turn /\ [j EXCEPT !.status = x].status = x
  BY DEF Job

\* A step of the loop or of a thread that changes no message.
LEMMA TypeQuiet ==
    ASSUME IInv,
           \/ Begin \/ Drained \/ Announce \/ Dequeue
           \/ \E th \in threads : TakeSlot(th)
           \/ \E th \in threads, j \in Jobs, how \in {"tool", "forced"} : SubmitImage(th, j, how)
           \/ \E j \in Jobs : JobStarts(j) \/ JobFails(j)
           \/ \E t \in Turns, j \in Jobs : RetryReads(t, j)
           \/ ThreadReads \/ UNCHANGED vars
    PROVE  TypeOK'
  <1> USE DEF IInv
  <1>1. ASSUME Begin PROVE TypeOK'
    <2>1. PICK t \in Turns : BeginsWith(t)
      BY <1>1, BeginOf
    <2>2. queue' \in Seq(Turns) /\ inflight' \in Turns /\ current' \in Turns
      BY <2>1 DEF BeginsWith, TypeOK
    <2>3. [turn |-> t, run |-> runs[t] + 1, slot |-> FALSE, image |-> "none"] \in Thread
      BY DEF TypeOK, Thread
    <2>4. runs' \in [Turns -> Nat] /\ threads' \subseteq Thread
      <3>1. CASE UNCHANGED <<runs, threads>>
        BY <3>1 DEF TypeOK
      <3>2. CASE /\ runs' = [runs EXCEPT ![t] = @ + 1]
                 /\ threads' = threads \cup
                      {[turn |-> t, run |-> runs[t] + 1, slot |-> FALSE, image |-> "none"]}
        <4>1. runs \in [Turns -> Nat] /\ threads \subseteq Thread
          BY DEF TypeOK
        <4>2. runs' \in [Turns -> Nat]
          BY <3>2, <4>1
        <4>3. threads' \subseteq Thread
          BY <2>3, <3>2, <4>1
        <4> QED BY <4>2, <4>3
      <3> QED BY <2>1, <3>1, <3>2 DEF BeginsWith
    <2>5. stage' \in {"awaiting", "told"}
      BY <2>1 DEF BeginsWith
    <2> QED BY <2>1, <2>2, <2>4, <2>5 DEF BeginsWith, TypeOK, fileVars, bounds, history
  <1>2. ASSUME Drained PROVE TypeOK'
    BY <1>2 DEF Drained, TypeOK, fileVars, diskVars, bounds, history
  <1>3. ASSUME Announce PROVE TypeOK'
    <2>1. [kind |-> "chat_turn_ready", turn |-> current] \in [kind : Notes, turn : Turns]
      BY <1>3 DEF Announce, StageInv, Notes
    <2> QED BY <1>3, <2>1 DEF Announce, TypeOK, fileVars, diskVars, bounds, history
  <1>4. ASSUME Dequeue PROVE TypeOK'
    <2>1. queue' \in Seq(Turns)
      BY <1>4 DEF Dequeue, TypeOK
    <2> QED BY <1>4, <2>1 DEF Dequeue, TypeOK, fileVars, bounds, history
  <1>5. ASSUME NEW th \in threads, TakeSlot(th) PROVE TypeOK'
    <2>1. th \in Thread
      BY DEF TypeOK
    <2>2. threads' \subseteq Thread
      BY <1>5, <2>1, ThreadFields DEF TakeSlot, TypeOK
    <2> QED BY <1>5, <2>2 DEF TakeSlot, TypeOK, fileVars, diskVars, loopVars, bounds, history
  <1>6. ASSUME NEW th \in threads, NEW j \in Jobs, NEW how \in {"tool", "forced"},
               SubmitImage(th, j, how)
        PROVE TypeOK'
    <2>1. th \in Thread /\ th.turn \in Turns
      BY DEF TypeOK, Thread
    <2>2. threads' \subseteq Thread
      BY <1>6, <2>1, ThreadFields DEF SubmitImage, TypeOK
    <2>3. job' \in [Jobs -> Job]
      <3>1. [status |-> "queued", turn |-> th.turn] \in Job
        BY <2>1 DEF Job
      <3> QED BY <1>6, <3>1 DEF SubmitImage, TypeOK
    <2> QED BY <1>6, <2>2, <2>3
            DEF SubmitImage, TypeOK, fileVars, diskVars, loopVars, bounds, history
  <1>7. ASSUME NEW j \in Jobs, JobStarts(j) \/ JobFails(j) PROVE TypeOK'
    <2>1. job[j] \in Job
      BY DEF TypeOK
    <2>2. /\ [job[j] EXCEPT !.status = "running"] \in Job
          /\ [job[j] EXCEPT !.status = "failed"] \in Job
      BY <2>1, JobFields
    <2>3. job' \in [Jobs -> Job]
      BY <1>7, <2>2 DEF JobStarts, JobFails, TypeOK
    <2> QED BY <1>7, <2>3
            DEF JobStarts, JobFails, TypeOK, fileVars, diskVars, loopVars, bounds, history
  <1>8. ASSUME NEW t \in Turns, NEW j \in Jobs, RetryReads(t, j) PROVE TypeOK'
    <2>1. [status |-> "queued", turn |-> t] \in Job
      BY DEF Job
    <2>2. job' \in [Jobs -> Job]
      BY <1>8, <2>1 DEF RetryReads, TypeOK
    <2>3. held' \in Reading
      BY <1>8 DEF RetryReads, TypeOK, Reading
    <2>4. threadWrites' \in Nat
      BY <1>8 DEF RetryReads, TypeOK
    <2> QED BY <1>8, <2>2, <2>3, <2>4
            DEF RetryReads, TypeOK, fileVars, diskVars, loopVars, history
  <1>9. ASSUME ThreadReads PROVE TypeOK'
    <2>1. held' \in Reading
      BY <1>9 DEF ThreadReads, TypeOK, Reading
    <2>2. threadWrites' \in Nat
      BY <1>9 DEF ThreadReads, TypeOK
    <2> QED BY <1>9, <2>1, <2>2
            DEF ThreadReads, TypeOK, fileVars, diskVars, loopVars, history
  <1>10. ASSUME UNCHANGED vars PROVE TypeOK'
    BY <1>10 DEF vars, TypeOK, fileVars, diskVars, loopVars, bounds, history
  <1> QED BY <1>1, <1>2, <1>3, <1>4, <1>5, <1>6, <1>7, <1>8, <1>9, <1>10

\* A turn that is accepted comes last.
LEMMA AppendOrder ==
    ASSUME order \in Seq(Turns), NEW t \in Turns, order' = Append(order, t)
    PROVE  /\ order' \in Seq(Turns)
           /\ DOMAIN order = 1..Len(order) /\ DOMAIN order' = 1..(Len(order) + 1)
           /\ Len(order) \in Nat
           /\ \A i \in DOMAIN order : order'[i] = order[i]
           /\ order'[Len(order) + 1] = t
           /\ Accepted' = Accepted \cup {t}
  <1>1. /\ order' \in Seq(Turns) /\ Len(order) \in Nat
        /\ DOMAIN order = 1..Len(order) /\ DOMAIN order' = 1..(Len(order) + 1)
        /\ \A i \in DOMAIN order : order'[i] = order[i]
        /\ order'[Len(order) + 1] = t
    OBVIOUS
  <1>2. Accepted' = Accepted \cup {t}
    <2>1. ASSUME NEW a \in Accepted PROVE a \in Accepted'
      <3>1. PICK i \in DOMAIN order : a = order[i]
        BY <2>1 DEF Accepted, Elements
      <3>2. i \in DOMAIN order' /\ a = order'[i]
        BY <1>1, <3>1
      <3> QED BY <3>2 DEF Accepted, Elements
    <2>2. t \in Accepted'
      BY <1>1 DEF Accepted, Elements
    <2>3. ASSUME NEW a \in Accepted' PROVE a \in Accepted \/ a = t
      <3>1. PICK i \in DOMAIN order' : a = order'[i]
        BY <2>3 DEF Accepted, Elements
      <3>2. CASE i \in DOMAIN order
        BY <1>1, <3>1, <3>2 DEF Accepted, Elements
      <3>3. CASE i = Len(order) + 1
        BY <1>1, <3>1, <3>3
      <3> QED BY <1>1, <3>1, <3>2, <3>3
    <2> QED BY <2>1, <2>2, <2>3
  <1> QED BY <1>1, <1>2

\* What a crash asks of the turn whose request it interrupts, if any.
LEMMA AskedOf ==
    ASSUME TypeOK, NEW at \in Crashes, NEW asked \in {{}} \cup {{t} : t \in Turns},
           NEW k \in 0..Len(order), Restart(at, asked, k)
    PROVE  /\ asked \subseteq Turns \ Accepted
           /\ asked # {} => exists /\ at \in {"accept", "enqueue"} /\ LoopFree
           /\ \/ asked = {} /\ order' = order
              \/ \E t \in Turns \ Accepted : asked = {t} /\ order' = Append(order, t)
           /\ order' \in Seq(Turns) /\ Accepted' = Accepted \cup asked
  <1>1. \/ at = "between" /\ asked = {}
        \/ /\ at \in {"accept", "enqueue"} /\ LoopFree /\ exists
           /\ \E t \in Turns \ Accepted : asked = {t}
        \/ at = "remove" /\ asked = {}
    BY DEF Restart, CrashLeaves
  <1>2. order' = IF asked = {} THEN order ELSE Append(order, CHOOSE t \in asked : TRUE)
    BY DEF Restart
  <1>3. CASE asked = {}
    <2>1. order' = order
      BY <1>2, <1>3
    <2>2. order' \in Seq(Turns) /\ Accepted' = Accepted
      BY <2>1 DEF TypeOK, Accepted
    <2> QED BY <1>3, <2>1, <2>2
  <1>4. ASSUME NEW t \in Turns \ Accepted, asked = {t}
        PROVE  /\ order' = Append(order, t)
               /\ order' \in Seq(Turns) /\ Accepted' = Accepted \cup asked
    <2>1. order' = Append(order, t)
      BY <1>2, <1>4
    <2> QED BY <1>4, <2>1, AppendOrder DEF TypeOK
  <1> QED BY <1>1, <1>3, <1>4

\* A restart gives the messages of an interrupted request, and replaces what
\* looks empty by a failure.
LEMMA RestartFile ==
    ASSUME TypeOK, NEW at \in Crashes, NEW asked \in {{}} \cup {{t} : t \in Turns},
           NEW k \in 0..Len(order), Restart(at, asked, k)
    PROVE  /\ file' \in File
           /\ \A u \in Turns \ asked :
                /\ file'[u].images = file[u].images
                /\ file'[u] = file[u] \/ (file[u].text \in LooksEmpty /\ file'[u].text = "failure")
           /\ \A u \in asked : Has(file', u)
  <1> DEFINE f == [t \in Turns |-> IF t \in asked THEN Placeholder ELSE file[t]]
  <1>1. f \in File
    BY EmptyMessages DEF TypeOK, File
  <1>2. /\ \A u \in Turns \ asked : f[u] = file[u]
        /\ \A u \in asked : u \in Turns /\ f[u].text = "empty"
    BY AskedOf, EmptyMessages
  <1>3. file' = Interrupted(f, k)
    BY DEF Restart
  <1> HIDE DEF f
  <1>4. /\ file' \in File
        /\ \A u \in Turns : file'[u].images = f[u].images
        /\ \A u \in Turns : file'[u] = f[u] \/ (f[u].text \in LooksEmpty /\ file'[u].text = "failure")
    BY <1>1, <1>3, InterruptedOf
  <1> QED BY <1>2, <1>4 DEF Has

\* Jobs that were not finished are gone, the others stay as they are.
LEMMA RestartJobs ==
    ASSUME TypeOK, NEW at \in Crashes, NEW asked \in {{}} \cup {{t} : t \in Turns},
           NEW k \in 0..Len(order), Restart(at, asked, k)
    PROVE  /\ job' \in [Jobs -> Job]
           /\ \A j \in Jobs : /\ job'[j].turn = job[j].turn
                              /\ job'[j].status \in {job[j].status, "gone"}
                              /\ job'[j].status = "gone" => job[j].status # "unused"
  <1>1. job' = [j \in Jobs |-> IF job[j].status \in {"queued", "running"}
                               THEN [job[j] EXCEPT !.status = "gone"] ELSE job[j]]
    BY DEF Restart
  <1>2. ASSUME NEW j \in Jobs
        PROVE  /\ job'[j] \in Job /\ job'[j].turn = job[j].turn
               /\ job'[j].status \in {job[j].status, "gone"}
               /\ job'[j].status = "gone" => job[j].status # "unused"
    <2> DEFINE g == [job[j] EXCEPT !.status = "gone"]
    <2>1. job[j] \in Job
      BY DEF TypeOK
    <2>2. g \in Job /\ g.turn = job[j].turn /\ g.status = "gone"
      BY <2>1, JobFields
    <2>3. job'[j] = IF job[j].status \in {"queued", "running"} THEN g ELSE job[j]
      BY <1>1
    <2> HIDE DEF g
    <2> QED BY <2>1, <2>2, <2>3
  <1> QED BY <1>1, <1>2

\* A finished job leaves its image, and changes no text.
LEMMA JobSucceedsFile ==
    ASSUME IInv, NEW j \in Jobs, JobSucceeds(j)
    PROVE  /\ file' \in File /\ job[j].turn \in Turns
           /\ \A u \in Turns : /\ file'[u].text = file[u].text /\ file'[u].failed = file[u].failed
                               /\ file[u].images \subseteq file'[u].images
           /\ Has(file, job[j].turn) => j \in file'[job[j].turn].images
  <1> DEFINE t == job[j].turn
             g == WithImage(file, t, order, j)
  <1>1. t \in Turns
    <2>1. t \in Accepted
      BY DEF IInv, RefInv, JobSucceeds
    <2>2. Accepted \subseteq Turns
      BY DEF IInv, TypeOK, Accepted, Elements
    <2> QED BY <2>1, <2>2
  <1>2. file \in File /\ file' = Marked(g, t, "succeeded") /\ "succeeded" \in ActionStates
    BY DEF IInv, TypeOK, JobSucceeds, ActionStates
  <1> HIDE DEF t
  <1>3. /\ g \in File
        /\ \A u \in Turns : /\ g[u].text = file[u].text /\ g[u].failed = file[u].failed
                            /\ file[u].images \subseteq g[u].images
        /\ Has(file, t) => j \in g[t].images
    BY <1>1, <1>2, WithImageOf
  <1> HIDE DEF g
  <1>4. /\ file' \in File
        /\ \A u \in Turns : /\ file'[u].images = g[u].images /\ file'[u].failed = g[u].failed
                            /\ file'[u].text = g[u].text
    BY <1>1, <1>2, <1>3, MarkedOf
  <1> QED BY <1>1, <1>3, <1>4 DEF t

\* What another thread writes back is what it read, but for an action.
LEMMA WritesBack ==
    ASSUME IInv, ThreadWrites
    PROVE  /\ file' \in File /\ held \in Reading
           /\ \A u \in Turns : /\ file'[u].images = held.file[u].images
                               /\ file'[u].failed = held.file[u].failed
                               /\ file'[u].text = held.file[u].text
           /\ \A u \in Turns \ reverted' : exists /\ held.file[u] = file[u]
  <1>1. held \in Reading /\ held.file \in File
    BY DEF IInv, TypeOK, ThreadWrites, Reading
  <1>2. CASE held.kind = "retry"
    <2>1. file' = WithAction(held.file, held.turn, "queued")
      BY <1>2 DEF ThreadWrites
    <2>2. held.turn \in Turns /\ "queued" \in ActionStates
      BY <1>2 DEF ThreadWrites, IInv, RefInv, ActionStates
    <2>3. /\ file' \in File
          /\ \A u \in Turns : /\ file'[u].images = held.file[u].images
                              /\ file'[u].failed = held.file[u].failed
                              /\ file'[u].text = held.file[u].text
      BY <1>1, <2>1, <2>2, WithActionOf
    <2> QED BY <1>1, <2>3 DEF ThreadWrites
  <1>3. CASE held.kind # "retry"
    <2>1. file' = held.file
      BY <1>3 DEF ThreadWrites
    <2> QED BY <1>1, <2>1 DEF ThreadWrites
  <1> QED BY <1>2, <1>3

LEMMA TypeStep == ASSUME IInv, [Next]_vars PROVE TypeOK'
  <1>0. TypeOK /\ StageInv
    BY DEF IInv
  <1>1. ASSUME NEW t \in Turns, Accept(t) PROVE TypeOK'
    <2>1. file' \in File
      BY <1>0, <1>1, EmptyMessages DEF Accept, TypeOK, File
    <2>2. queue' \in Seq(Turns) /\ order' \in Seq(Turns)
      BY <1>0, <1>1 DEF Accept, TypeOK
    <2> QED BY <1>0, <1>1, <2>1, <2>2 DEF Accept, TypeOK, bounds
  <1>2. ASSUME Answering PROVE TypeOK'
    <2>1. threads' \subseteq Thread /\ stage' \in {"resuming", "free", "awaiting", "written", "told"}
      BY <1>0, <1>2 DEF Answering, TypeOK
    <2> QED BY <1>0, <1>2, <2>1 DEF Answering, TypeOK, diskVars, bounds, history
  <1>3. ASSUME NEW j \in Jobs, JobSucceeds(j) PROVE TypeOK'
    <2>1. file' \in File /\ job[j].turn \in Turns
      BY <1>3, JobSucceedsFile
    <2>2. job' \in [Jobs -> Job]
      <3>1. [job[j] EXCEPT !.status = "done"] \in Job
        BY <1>0, JobFields DEF TypeOK
      <3> QED BY <1>0, <1>3, <3>1 DEF JobSucceeds, TypeOK
    <2>3. told' \subseteq [kind : Notes, turn : Turns]
      <3>1. [kind |-> "chat_image_ready", turn |-> job[j].turn] \in [kind : Notes, turn : Turns]
        BY <2>1 DEF Notes
      <3> QED BY <1>0, <1>3, <3>1 DEF JobSucceeds, TypeOK
    <2>4. UNCHANGED <<exists, diskVars, loopVars, threads, held, bounds, history, runs>>
      BY <1>3 DEF JobSucceeds
    <2> QED BY <1>0, <2>1, <2>2, <2>3, <2>4 DEF TypeOK, diskVars, loopVars, bounds, history
  <1>4. ASSUME ThreadWrites PROVE TypeOK'
    <2>1. file' \in File
      BY <1>4, WritesBack
    <2>2. reverted' \subseteq Turns
      BY <1>0, <1>4 DEF ThreadWrites, TypeOK
    <2>3. /\ exists' = TRUE /\ held' = Unheld
          /\ UNCHANGED <<diskVars, loopVars, threads, job, told, bounds, order, lost, runs>>
      BY <1>4 DEF ThreadWrites
    <2> QED BY <1>0, <2>1, <2>2, <2>3 DEF TypeOK, diskVars, loopVars, bounds
  <1>5. ASSUME DeleteSession PROVE TypeOK'
    <2>1. file' \in File
      BY <1>5, EmptyMessages DEF DeleteSession, File
    <2> QED BY <1>0, <1>5, <2>1 DEF DeleteSession, TypeOK, diskVars, loopVars, bounds, history
  <1>6. ASSUME NEW at \in Crashes, NEW asked \in {{}} \cup {{t} : t \in Turns},
               NEW k \in 0..Len(order), Restart(at, asked, k)
        PROVE TypeOK'
    <2>1. file' \in File /\ job' \in [Jobs -> Job] /\ order' \in Seq(Turns)
      BY <1>0, <1>6, RestartFile, RestartJobs, AskedOf
    <2>2. queue' \in Seq(Turns) /\ inflight' \in Turns \cup {NoTurn}
      BY <1>0, <1>6 DEF Restart, CrashLeaves, TypeOK
    <2>3. lost' \subseteq Turns
      <3>1. Elements(queue) \subseteq Turns
        BY <1>0 DEF TypeOK, Elements
      <3>2. lost' \subseteq lost \cup asked \cup Elements(queue)
        BY <1>6 DEF Restart, CrashLeaves
      <3> QED BY <1>0, <3>1, <3>2 DEF TypeOK
    <2>4. /\ draining' \in BOOLEAN /\ stage' \in {"resuming", "free"} /\ current' = NoTurn
          /\ threads' = {} /\ held' = Unheld
      BY <1>6 DEF Restart
    <2>5. restarts' \in Nat
      BY <1>0, <1>6 DEF Restart, TypeOK
    <2>6. UNCHANGED <<exists, told, threadWrites, reverted, runs>>
      BY <1>6 DEF Restart
    <2> QED BY <1>0, <2>1, <2>2, <2>3, <2>4, <2>5, <2>6 DEF TypeOK
  <1> QED
    BY <1>0, <1>1, <1>2, <1>3, <1>4, <1>5, <1>6, NextAnswers, TypeQuiet DEF Next

-----------------------------------------------------------------------------
(* The queue.                                                              *)

LEMMA BeforeOnce ==
    ASSUME QueueInv, order \in Seq(Turns), NEW a, NEW b, Before(a, b)
    PROVE  a # b /\ ~Before(b, a)
  <1>1. PICK i, k \in DOMAIN order : i < k /\ order[i] = a /\ order[k] = b
    BY DEF Before
  <1>2. DOMAIN order \subseteq Nat
    OBVIOUS
  <1>3. a # b
    BY <1>1, <1>2 DEF QueueInv
  <1>4. ~Before(b, a)
    <2> SUFFICES ASSUME NEW m \in DOMAIN order, NEW n \in DOMAIN order,
                        m < n, order[m] = b, order[n] = a
                 PROVE FALSE
      BY DEF Before
    <2>1. m = k /\ n = i
      BY <1>1 DEF QueueInv
    <2> QED BY <1>1, <1>2, <2>1
  <1> QED BY <1>3, <1>4

\* Nothing that waits was accepted before the turn that comes next.
LEMMA NextIsFirst ==
    ASSUME TypeOK, QueueInv, NEW t, t = IF queue = <<>> THEN inflight ELSE Head(queue),
           NEW w \in Waiting
    PROVE  w = t \/ Before(t, w)
  <1>1. CASE queue = <<>>
    BY <1>1 DEF Waiting, Elements
  <1>2. CASE queue # <<>>
    <2>1. 1 \in DOMAIN queue /\ t = queue[1] /\ DOMAIN queue = 1..Len(queue) /\ Len(queue) \in Nat
      BY <1>2 DEF TypeOK
    <2>2. CASE w = inflight /\ w # NoTurn
      BY <1>2, <2>1, <2>2 DEF QueueInv
    <2>3. ASSUME NEW i \in DOMAIN queue, w = queue[i] PROVE w = t \/ Before(t, w)
      <3>1. i = 1 \/ 1 < i
        BY <2>1
      <3> QED BY <2>1, <2>3, <3>1 DEF QueueInv
    <2> QED BY <2>2, <2>3 DEF Waiting, Elements
  <1> QED BY <1>1, <1>2

\* Between its steps the loop has nothing to change in the queue.
LEMMA QueueRests ==
    ASSUME IInv, UNCHANGED <<queue, inflight, order, current, runs, restarts>>,
           \/ stage' = stage
           \/ stage \in {"awaiting", "written"} /\ stage' \in {"written", "told"}
    PROVE  QueueInv' /\ StageInv' /\ RunInv' /\ TurnsRunInOrder' /\ RepeatsNeedRestart'
  <1>1. Waiting' = Waiting /\ Accepted' = Accepted
    BY DEF Waiting, Accepted, Elements
  <1>2. QueueInv'
    <2>1. \A a, b : Before(a, b)' <=> Before(a, b)
      BY DEF Before
    <2> QED BY <1>1, <2>1 DEF IInv, QueueInv
  <1>3. StageInv'
    BY DEF IInv, StageInv
  <1>4. RunInv' /\ TurnsRunInOrder' /\ RepeatsNeedRestart'
    BY <1>1 DEF IInv, RunInv, TurnsRunInOrder, RepeatsNeedRestart
  <1> QED BY <1>2, <1>3, <1>4

LEMMA AcceptQueue ==
    ASSUME IInv, NEW t \in Turns, Accept(t)
    PROVE  /\ Waiting' = Waiting \cup {t} /\ Accepted' = Accepted \cup {t}
           /\ QueueInv' /\ StageInv' /\ RunInv' /\ TurnsRunInOrder' /\ RepeatsNeedRestart'
  <1>1. /\ t \notin Accepted /\ LoopFree
        /\ queue' = Append(queue, t) /\ order' = Append(order, t)
        /\ UNCHANGED <<inflight, stage, current, runs, restarts>>
    BY DEF Accept, bounds
  <1>2. /\ DOMAIN order = 1..Len(order) /\ DOMAIN order' = 1..(Len(order) + 1)
        /\ Len(order) \in Nat
        /\ \A i \in DOMAIN order : order'[i] = order[i]
        /\ order'[Len(order) + 1] = t
        /\ Accepted' = Accepted \cup {t}
    BY <1>1, AppendOrder DEF IInv, TypeOK
  <1>3. /\ DOMAIN queue = 1..Len(queue) /\ DOMAIN queue' = 1..(Len(queue) + 1)
        /\ Len(queue) \in Nat
        /\ \A i \in DOMAIN queue : queue'[i] = queue[i]
        /\ queue'[Len(queue) + 1] = t
    BY <1>1 DEF IInv, TypeOK
  <1>4. Elements(queue') = Elements(queue) \cup {t}
    <2>1. ASSUME NEW a \in Elements(queue') PROVE a \in Elements(queue) \/ a = t
      <3>1. PICK i \in DOMAIN queue' : a = queue'[i]
        BY DEF Elements
      <3>2. i \in DOMAIN queue \/ i = Len(queue) + 1
        BY <1>3
      <3> QED BY <1>3, <3>1, <3>2 DEF Elements
    <2>2. ASSUME NEW a \in Elements(queue) PROVE a \in Elements(queue')
      <3>1. PICK i \in DOMAIN queue : a = queue[i]
        BY DEF Elements
      <3>2. i \in DOMAIN queue' /\ queue'[i] = a
        BY <1>3, <3>1
      <3> QED BY <3>2 DEF Elements
    <2>3. t \in Elements(queue')
      BY <1>3 DEF Elements
    <2> QED BY <2>1, <2>2, <2>3
  <1>5. Waiting' = Waiting \cup {t}
    BY <1>1, <1>4 DEF Waiting
  <1> DEFINE Earlier(a, b) == \E i, k \in DOMAIN order' : i < k /\ order'[i] = a /\ order'[k] = b
  <1>6. \A a, b : Before(a, b) => Earlier(a, b)
    BY <1>2 DEF Before
  <1>7. \A a \in Accepted : Earlier(a, t)
    <2> SUFFICES ASSUME NEW a \in Accepted PROVE Earlier(a, t)
      OBVIOUS
    <2>1. PICK i \in DOMAIN order : a = order[i]
      BY DEF Accepted, Elements
    <2>2. i < Len(order) + 1 /\ i \in DOMAIN order' /\ Len(order) + 1 \in DOMAIN order'
      BY <1>2
    <2> QED BY <1>2, <2>1, <2>2
  <1> HIDE DEF Earlier
  <1>8. QueueInv'
    <2>1. \A i, k \in DOMAIN order' : order'[i] = order'[k] => i = k
      <3>1. \A i \in DOMAIN order : order[i] # t
        BY <1>1 DEF Accepted, Elements
      <3>2. \A i \in DOMAIN order' : i \in DOMAIN order \/ i = Len(order) + 1
        BY <1>2
      <3> QED BY <1>2, <3>1, <3>2 DEF IInv, QueueInv
    <2>2. Waiting' \subseteq Accepted'
      BY <1>2, <1>5 DEF IInv, QueueInv
    <2>3. ASSUME NEW i \in DOMAIN queue', NEW k \in DOMAIN queue', i < k
          PROVE Earlier(queue'[i], queue'[k])
      <3>1. i \in DOMAIN queue /\ queue'[i] = queue[i]
        BY <1>3, <2>3
      <3>2. CASE k \in DOMAIN queue
        BY <1>3, <1>6, <2>3, <3>1, <3>2 DEF IInv, QueueInv
      <3>3. CASE k = Len(queue) + 1
        <4>1. queue[i] \in Accepted
          BY <3>1 DEF IInv, QueueInv, Waiting, Elements
        <4> QED BY <1>3, <1>7, <3>1, <3>3, <4>1
      <3> QED BY <1>3, <3>2, <3>3
    <2>4. queue' # <<>> /\ inflight' # NoTurn => inflight' = Head(queue')
      <3>1. CASE stage = "free"
        BY <1>1, <3>1 DEF IInv, StageInv
      <3>2. CASE stage = "awaiting"
        <4>1. queue # <<>> /\ inflight # NoTurn
          BY <3>2, NoTurnAssumption DEF IInv, StageInv
        <4>2. Head(queue) = queue[1] /\ Head(queue') = queue'[1] /\ 1 \in DOMAIN queue
          BY <1>1, <4>1 DEF IInv, TypeOK
        <4> QED BY <1>1, <1>3, <4>1, <4>2 DEF IInv, QueueInv
      <3> QED BY <1>1, <3>1, <3>2 DEF LoopFree
    <2> QED BY <2>1, <2>2, <2>3, <2>4 DEF QueueInv, Before, Earlier
  <1>9. StageInv'
    <2>1. queue' # <<>>
      <3>1. 1 \in DOMAIN queue'
        BY <1>3
      <3> QED BY <3>1
    <2> QED BY <1>1, <2>1 DEF IInv, StageInv
  <1>10. RunInv' /\ RepeatsNeedRestart'
    BY <1>1, <1>2, <1>5 DEF IInv, TypeOK, RunInv, RepeatsNeedRestart
  <1>11. TurnsRunInOrder'
    <2> SUFFICES ASSUME NEW i \in DOMAIN order', NEW k \in DOMAIN order',
                        i < k, runs'[order'[k]] > 0
                 PROVE order'[i] \notin Waiting'
      BY DEF TurnsRunInOrder
    <2>1. runs[t] = 0
      BY <1>1 DEF IInv, TypeOK, RunInv
    <2>2. k \in DOMAIN order /\ i \in DOMAIN order
      BY <1>1, <1>2, <2>1
    <2>3. order[i] # t
      BY <1>1, <2>2 DEF Accepted, Elements
    <2> QED BY <1>1, <1>2, <1>5, <2>2, <2>3 DEF IInv, TurnsRunInOrder
  <1> QED BY <1>2, <1>5, <1>8, <1>9, <1>10, <1>11

LEMMA BeginQueue ==
    ASSUME IInv, Begin
    PROVE  /\ Waiting' = Waiting /\ Accepted' = Accepted
           /\ QueueInv' /\ StageInv' /\ RunInv' /\ TurnsRunInOrder' /\ RepeatsNeedRestart'
  <1>1. PICK t \in Turns : /\ t = IF queue = <<>> THEN inflight ELSE Head(queue)
                           /\ t \in Waiting /\ BeginsWith(t)
    BY BeginOf DEF IInv
  <1>2. /\ queue' = IF queue = <<>> THEN <<t>> ELSE queue
        /\ inflight' = t /\ current' = t /\ stage' \in {"awaiting", "told"}
        /\ order' = order /\ restarts' = restarts /\ current = NoTurn
        /\ runs' = runs \/ runs' = [runs EXCEPT ![t] = @ + 1]
    BY <1>1 DEF BeginsWith, bounds, history, Begin, NextTurnDue, IInv, StageInv
  <1>3. t # NoTurn
    BY NoTurnAssumption
  <1>4. Waiting' = Waiting
    <2>1. CASE queue = <<>>
      <3>1. Elements(queue') = {t} /\ Elements(queue) = {}
        BY <1>2, <2>1 DEF Elements
      <3> QED BY <1>1, <1>2, <1>3, <2>1, <3>1 DEF Waiting
    <2>2. CASE queue # <<>>
      <3>1. t \in Elements(queue)
        BY <1>1, <2>2 DEF IInv, TypeOK, Elements
      <3>2. inflight = NoTurn \/ inflight = t
        BY <1>1, <2>2 DEF IInv, QueueInv
      <3> QED BY <1>2, <1>3, <2>2, <3>1, <3>2 DEF Waiting
    <2> QED BY <2>1, <2>2
  <1>5. Accepted' = Accepted
    BY <1>2 DEF Accepted
  <1>6. \A a, b : Before(a, b)' <=> Before(a, b)
    BY <1>2 DEF Before
  <1>7. QueueInv' /\ StageInv'
    <2>1. CASE queue = <<>>
      <3>1. /\ queue' # <<>> /\ Head(queue') = t
            /\ \A i, k \in DOMAIN queue' : ~(i < k)
        BY <1>2, <2>1
      <3> QED BY <1>2, <1>3, <1>4, <1>5, <1>6, <3>1 DEF IInv, QueueInv, StageInv
    <2>2. CASE queue # <<>>
      BY <1>1, <1>2, <1>3, <1>4, <1>5, <1>6, <2>2 DEF IInv, QueueInv, StageInv
    <2> QED BY <2>1, <2>2
  <1>8. RunInv' /\ RepeatsNeedRestart'
    <2>1. \A u \in Turns : runs[u] \in Nat /\ runs'[u] \in {runs[u], runs[u] + 1}
      BY <1>2 DEF IInv, TypeOK
    <2>2. \A u \in Turns \ {t} : runs'[u] = runs[u]
      BY <1>2 DEF IInv, TypeOK
    <2>3. t \in Accepted /\ runs[t] <= restarts
      BY <1>1, <1>2, <1>3 DEF IInv, QueueInv, RunInv
    <2>4. \A u \in Turns : runs'[u] <= 1 + restarts
      <3> SUFFICES ASSUME NEW u \in Turns PROVE runs'[u] <= 1 + restarts
        OBVIOUS
      <3>1. restarts \in Nat
        BY DEF IInv, TypeOK
      <3>2. CASE u = t
        BY <2>1, <2>3, <3>1, <3>2
      <3>3. CASE u # t
        BY <2>2, <3>3 DEF IInv, RepeatsNeedRestart
      <3> QED BY <3>2, <3>3
    <2>5. \A u \in Turns : runs'[u] > 0 => u \in Accepted
      BY <2>2, <2>3 DEF IInv, RunInv
    <2>6. \A u \in Waiting : u = t \/ runs'[u] <= restarts
      <3>1. Waiting \subseteq Turns
        BY DEF IInv, TypeOK, Waiting, Elements
      <3>2. \A u \in Waiting : u = NoTurn \/ runs[u] <= restarts
        BY <1>2 DEF IInv, RunInv
      <3> QED BY <2>2, <3>1, <3>2, NoTurnAssumption
    <2> QED BY <1>2, <1>4, <1>5, <2>4, <2>5, <2>6 DEF RunInv, RepeatsNeedRestart
  <1>9. TurnsRunInOrder'
    <2> SUFFICES ASSUME NEW i \in DOMAIN order, NEW k \in DOMAIN order,
                        i < k, runs'[order[k]] > 0, order[i] \in Waiting
                 PROVE FALSE
      BY <1>2, <1>4 DEF TurnsRunInOrder
    <2>1. order[k] \in Turns
      BY DEF IInv, TypeOK
    <2>2. CASE order[k] = t
      <3>1. Before(order[i], t)
        BY <2>2 DEF Before
      <3>2. order[i] = t \/ Before(t, order[i])
        BY <1>1, NextIsFirst DEF IInv
      <3> QED BY <3>1, <3>2, BeforeOnce DEF IInv, TypeOK
    <2>3. CASE order[k] # t
      <3>1. runs[order[k]] > 0
        BY <1>2, <2>1, <2>3 DEF IInv, TypeOK
      <3> QED BY <3>1 DEF IInv, TurnsRunInOrder
    <2> QED BY <2>2, <2>3
  <1> QED BY <1>4, <1>5, <1>7, <1>8, <1>9

LEMMA DequeueQueue ==
    ASSUME IInv, Dequeue
    PROVE  /\ Waiting' = Waiting \ {current} /\ Accepted' = Accepted
           /\ QueueInv' /\ StageInv' /\ RunInv' /\ TurnsRunInOrder' /\ RepeatsNeedRestart'
  <1>1. /\ stage = "told" /\ current \in Turns /\ inflight = current /\ queue # <<>>
        /\ current # NoTurn /\ Head(queue) = current
    BY NoTurnAssumption DEF Dequeue, IInv, StageInv, QueueInv
  <1>2. /\ queue' = Tail(queue) /\ inflight' = NoTurn /\ stage' = "free" /\ current' = NoTurn
        /\ UNCHANGED <<order, runs, restarts>>
    BY <1>1 DEF Dequeue, bounds, history
  <1>3. /\ Len(queue) \in Nat \ {0} /\ DOMAIN queue = 1..Len(queue)
        /\ DOMAIN queue' = 1..(Len(queue) - 1)
        /\ \A i \in DOMAIN queue' : queue'[i] = queue[i + 1]
        /\ queue[1] = current
    BY <1>1, <1>2 DEF IInv, TypeOK
  <1>4. Elements(queue') = Elements(queue) \ {current}
    <2>1. ASSUME NEW a \in Elements(queue') PROVE a \in Elements(queue) /\ a # current
      <3>1. PICK i \in DOMAIN queue' : a = queue'[i]
        BY DEF Elements
      <3>2. i + 1 \in DOMAIN queue /\ a = queue[i + 1] /\ 1 \in DOMAIN queue /\ 1 < i + 1
        BY <1>3, <3>1
      <3>3. Before(current, a)
        BY <1>3, <3>2 DEF IInv, QueueInv
      <3> QED BY <3>2, <3>3, BeforeOnce DEF IInv, TypeOK, Elements
    <2>2. ASSUME NEW a \in Elements(queue), a # current PROVE a \in Elements(queue')
      <3>1. PICK i \in DOMAIN queue : a = queue[i]
        BY DEF Elements
      <3>2. i # 1
        BY <1>3, <2>2, <3>1
      <3>3. i - 1 \in DOMAIN queue' /\ queue'[i - 1] = a
        BY <1>3, <3>1, <3>2
      <3> QED BY <3>3 DEF Elements
    <2> QED BY <2>1, <2>2
  <1>5. Waiting' = Waiting \ {current}
    BY <1>1, <1>2, <1>4 DEF Waiting
  <1>6. Accepted' = Accepted
    BY <1>2 DEF Accepted
  <1>7. QueueInv'
    <2>1. \A a, b : Before(a, b)' <=> Before(a, b)
      BY <1>2 DEF Before
    <2>2. \A i, k \in DOMAIN queue' : i < k => Before(queue'[i], queue'[k])
      <3> SUFFICES ASSUME NEW i \in DOMAIN queue', NEW k \in DOMAIN queue', i < k
                   PROVE Before(queue'[i], queue'[k])
        OBVIOUS
      <3>1. i + 1 \in DOMAIN queue /\ k + 1 \in DOMAIN queue /\ i + 1 < k + 1
        BY <1>3
      <3> QED BY <1>3, <3>1 DEF IInv, QueueInv
    <2> QED BY <1>2, <1>5, <1>6, <2>1, <2>2 DEF IInv, QueueInv
  <1>8. StageInv' /\ RunInv' /\ TurnsRunInOrder' /\ RepeatsNeedRestart'
    BY <1>2, <1>5, <1>6 DEF IInv, StageInv, RunInv, TurnsRunInOrder, RepeatsNeedRestart
  <1> QED BY <1>5, <1>6, <1>7, <1>8

LEMMA OrderGrows ==
    ASSUME QueueInv, order \in Seq(Turns),
           order' = order \/ \E t \in Turns \ Accepted : order' = Append(order, t)
    PROVE  /\ \A i \in DOMAIN order : i \in DOMAIN order' /\ order'[i] = order[i]
           /\ \A i, k \in DOMAIN order' : order'[i] = order'[k] => i = k
           /\ \A k \in DOMAIN order' :
                 k \in DOMAIN order
                 \/ (order'[k] \notin Accepted /\ \A i \in DOMAIN order' : ~(k < i))
  <1>1. CASE order' = order
    BY <1>1 DEF QueueInv
  <1>2. ASSUME NEW t \in Turns \ Accepted, order' = Append(order, t)
        PROVE  /\ \A i \in DOMAIN order : i \in DOMAIN order' /\ order'[i] = order[i]
               /\ \A i, k \in DOMAIN order' : order'[i] = order'[k] => i = k
               /\ \A k \in DOMAIN order' :
                     k \in DOMAIN order
                     \/ (order'[k] \notin Accepted /\ \A i \in DOMAIN order' : ~(k < i))
    <2>1. /\ DOMAIN order = 1..Len(order) /\ DOMAIN order' = 1..(Len(order) + 1)
          /\ Len(order) \in Nat
          /\ \A i \in DOMAIN order : order'[i] = order[i]
          /\ order'[Len(order) + 1] = t
      BY <1>2, AppendOrder
    <2>2. \A i \in DOMAIN order : order[i] # t
      BY DEF Accepted, Elements
    <2>3. \A i \in DOMAIN order' : i \in DOMAIN order \/ i = Len(order) + 1
      BY <2>1
    <2> QED BY <2>1, <2>2, <2>3 DEF QueueInv
  <1> QED BY <1>1, <1>2

LEMMA WaitingTurns == ASSUME TypeOK PROVE Waiting \subseteq Turns /\ Accepted \subseteq Turns
  <1>1. queue \in Seq(Turns) /\ order \in Seq(Turns) /\ inflight \in Turns \cup {NoTurn}
    BY DEF TypeOK
  <1> QED BY <1>1 DEF Waiting, Accepted, Elements

\* A stop keeps the queue, or loses all of it but the turn in flight.
LEMMA RestartQueue ==
    ASSUME IInv, NEW at \in Crashes, NEW asked \in {{}} \cup {{t} : t \in Turns},
           NEW k \in 0..Len(order), Restart(at, asked, k)
    PROVE  /\ Waiting' \subseteq Waiting
           /\ \A w \in Waiting : w \in Waiting' \/ w \in lost' \/ (stage = "told" /\ w = current)
           /\ QueueInv' /\ StageInv' /\ RunInv' /\ TurnsRunInOrder' /\ RepeatsNeedRestart'
  <1>1. /\ order' = order \/ \E t \in Turns \ Accepted : order' = Append(order, t)
        /\ Accepted' = Accepted \cup asked /\ order \in Seq(Turns) /\ queue \in Seq(Turns)
    BY AskedOf DEF IInv, TypeOK
  <1>2. /\ queue' = queue \/ queue' = <<>>
        /\ inflight' = inflight \/ (inflight' = NoTurn /\ queue' = <<>>)
        /\ current' = NoTurn /\ stage' \in {"resuming", "free"}
        /\ stage' = "free" => inflight' = NoTurn
        /\ restarts' = restarts + 1 /\ runs' = runs
    BY DEF Restart, CrashLeaves, Torn
  <1>3. Elements(<<>>) = {}
    BY DEF Elements
  <1>4. Waiting' \subseteq Waiting
    BY <1>2, <1>3 DEF Waiting
  <1>5. \A w \in Waiting : w \in Waiting' \/ w \in lost' \/ (stage = "told" /\ w = current)
    <2>1. CASE at \in {"between", "accept"}
      <3>1. queue' = queue /\ inflight' = inflight
        BY <2>1 DEF Restart, CrashLeaves, Torn
      <3> QED BY <3>1 DEF Waiting
    <2>2. CASE at = "enqueue"
      <3>1. inflight' = inflight /\ Elements(queue) \ {inflight} \subseteq lost'
        BY <2>2 DEF Restart, CrashLeaves
      <3>2. NoTurn \notin Elements(queue)
        BY <1>1, NoTurnAssumption DEF Elements
      <3> QED BY <3>1, <3>2 DEF Waiting
    <2>3. CASE at = "remove"
      <3>1. stage = "told" /\ Elements(queue) \ {current} \subseteq lost'
        BY <2>3 DEF Restart, CrashLeaves
      <3>2. inflight = current
        BY <3>1 DEF IInv, StageInv
      <3> QED BY <3>1, <3>2 DEF Waiting
    <2> QED BY <2>1, <2>2, <2>3 DEF Crashes
  <1>6. /\ \A i \in DOMAIN order : i \in DOMAIN order' /\ order'[i] = order[i]
        /\ \A i, m \in DOMAIN order' : order'[i] = order'[m] => i = m
        /\ \A m \in DOMAIN order' :
              m \in DOMAIN order
              \/ (order'[m] \notin Accepted /\ \A i \in DOMAIN order' : ~(m < i))
    BY <1>1, OrderGrows DEF IInv
  <1> DEFINE Earlier(a, b) == \E i, m \in DOMAIN order' : i < m /\ order'[i] = a /\ order'[m] = b
  <1>7. \A a, b : Before(a, b) => Earlier(a, b)
    BY <1>6 DEF Before
  <1> HIDE DEF Earlier
  <1>8. QueueInv'
    <2>1. \A i, m \in DOMAIN queue' : i < m => Earlier(queue'[i], queue'[m])
      BY <1>2, <1>7 DEF IInv, QueueInv
    <2>2. queue' # <<>> /\ inflight' # NoTurn => inflight' = Head(queue')
      BY <1>2 DEF IInv, QueueInv
    <2>3. Waiting' \subseteq Accepted'
      BY <1>1, <1>4 DEF IInv, QueueInv
    <2> QED BY <1>6, <2>1, <2>2, <2>3 DEF QueueInv, Before, Earlier
  <1>9. StageInv'
    BY <1>2 DEF StageInv
  <1>10. RunInv' /\ RepeatsNeedRestart'
    <2>1. \A t \in Turns : runs[t] \in Nat /\ runs[t] <= 1 + restarts /\ restarts \in Nat
      BY DEF IInv, TypeOK, RepeatsNeedRestart
    <2>2. \A t \in Turns : runs'[t] <= restarts' /\ runs'[t] <= 1 + restarts'
      BY <1>2, <2>1
    <2>3. Waiting' \subseteq Turns
      BY <1>4, WaitingTurns DEF IInv
    <2>4. \A t \in Turns : runs'[t] > 0 => t \in Accepted'
      BY <1>1, <1>2 DEF IInv, RunInv
    <2> QED BY <2>2, <2>3, <2>4 DEF RunInv, RepeatsNeedRestart
  <1>11. TurnsRunInOrder'
    <2> SUFFICES ASSUME NEW i \in DOMAIN order', NEW m \in DOMAIN order',
                        i < m, runs'[order'[m]] > 0, order'[i] \in Waiting'
                 PROVE FALSE
      BY DEF TurnsRunInOrder
    <2>1. i \in DOMAIN order /\ order'[i] = order[i]
      BY <1>6
    <2>2. CASE m \in DOMAIN order
      BY <1>2, <1>4, <1>6, <2>1, <2>2 DEF IInv, TurnsRunInOrder
    <2>3. CASE order'[m] \notin Accepted
      <3>1. order'[m] \in Turns
        <4>1. order' \in Seq(Turns)
          BY AskedOf DEF IInv
        <4> QED BY <4>1
      <3> QED BY <1>2, <2>3, <3>1 DEF IInv, RunInv
    <2> QED BY <1>6, <2>2, <2>3
  <1> QED BY <1>4, <1>5, <1>8, <1>9, <1>10, <1>11

\* The steps that leave the queue and the turn's runs alone.
LEMMA OthersRest ==
    ASSUME IInv,
           \/ Answering \/ Drained \/ Announce
           \/ \E th \in threads : TakeSlot(th)
           \/ \E th \in threads, j \in Jobs, how \in {"tool", "forced"} : SubmitImage(th, j, how)
           \/ \E j \in Jobs : JobStarts(j) \/ JobSucceeds(j) \/ JobFails(j)
           \/ \E t \in Turns, j \in Jobs : RetryReads(t, j)
           \/ ThreadReads \/ ThreadWrites \/ DeleteSession \/ UNCHANGED vars
    PROVE  /\ UNCHANGED <<queue, inflight, order, current, runs, restarts>>
           /\ \/ stage' = stage
              \/ stage \in {"awaiting", "written"} /\ stage' \in {"written", "told"}
  <1>1. CASE Answering
    BY <1>1 DEF Answering, diskVars, bounds, history
  <1>2. CASE Drained \/ Announce
    BY <1>2 DEF Drained, Announce, diskVars, bounds, history
  <1>3. ASSUME NEW th \in threads, TakeSlot(th) PROVE UNCHANGED <<diskVars, loopVars, bounds, history, runs>>
    BY <1>3 DEF TakeSlot
  <1>4. ASSUME NEW th \in threads, NEW j \in Jobs, NEW how \in {"tool", "forced"}, SubmitImage(th, j, how)
        PROVE UNCHANGED <<diskVars, loopVars, bounds, history, runs>>
    BY <1>4 DEF SubmitImage
  <1>5. ASSUME NEW j \in Jobs, JobStarts(j) \/ JobSucceeds(j) \/ JobFails(j)
        PROVE UNCHANGED <<diskVars, loopVars, bounds, history, runs>>
    BY <1>5 DEF JobStarts, JobSucceeds, JobFails
  <1>6. ASSUME NEW t \in Turns, NEW j \in Jobs, RetryReads(t, j)
        PROVE UNCHANGED <<diskVars, loopVars, restarts, history, runs>>
    BY <1>6 DEF RetryReads
  <1>7. ASSUME ThreadReads PROVE UNCHANGED <<diskVars, loopVars, restarts, history, runs>>
    BY <1>7 DEF ThreadReads
  <1>8. ASSUME ThreadWrites PROVE UNCHANGED <<diskVars, loopVars, restarts, order, runs>>
    BY <1>8 DEF ThreadWrites, bounds
  <1>9. ASSUME DeleteSession \/ UNCHANGED vars PROVE UNCHANGED <<diskVars, loopVars, restarts, order, runs>>
    BY <1>9 DEF DeleteSession, bounds, history, vars
  <1> QED
    BY <1>1, <1>2, <1>3, <1>4, <1>5, <1>6, <1>7, <1>8, <1>9 DEF diskVars, loopVars, bounds, history

LEMMA QueueStep ==
    ASSUME IInv, [Next]_vars
    PROVE  QueueInv' /\ StageInv' /\ RunInv' /\ TurnsRunInOrder' /\ RepeatsNeedRestart'
  <1>1. TypeOK /\ StageInv
    BY DEF IInv
  <1>2. CASE \E t \in Turns : Accept(t)
    BY <1>2, AcceptQueue
  <1>3. CASE Begin
    BY <1>3, BeginQueue
  <1>4. CASE Dequeue
    BY <1>4, DequeueQueue
  <1>5. CASE \E at \in Crashes, asked \in {{}} \cup {{t} : t \in Turns}, k \in 0..Len(order) :
                Restart(at, asked, k)
    BY <1>5, RestartQueue
  <1> QED BY <1>1, <1>2, <1>3, <1>4, <1>5, NextAnswers, OthersRest, QueueRests DEF Next

-----------------------------------------------------------------------------
(* What refers to a turn.                                                  *)

\* The steps that change neither the file nor the queue.
LEMMA QuietSteps ==
    ASSUME \/ Drained
           \/ \E th \in threads : TakeSlot(th)
           \/ \E th \in threads, j \in Jobs, how \in {"tool", "forced"} : SubmitImage(th, j, how)
           \/ \E j \in Jobs : JobStarts(j) \/ JobFails(j)
           \/ \E t \in Turns, j \in Jobs : RetryReads(t, j)
           \/ ThreadReads \/ UNCHANGED vars
    PROVE  UNCHANGED <<exists, file, queue, inflight, stage, current, told, order, lost, reverted>>
  <1>1. ASSUME Drained PROVE UNCHANGED <<fileVars, diskVars, stage, current, told, history>>
    BY <1>1 DEF Drained
  <1>2. ASSUME NEW th \in threads, TakeSlot(th)
        PROVE UNCHANGED <<fileVars, diskVars, loopVars, told, history>>
    BY <1>2 DEF TakeSlot
  <1>3. ASSUME NEW th \in threads, NEW j \in Jobs, NEW how \in {"tool", "forced"},
               SubmitImage(th, j, how)
        PROVE UNCHANGED <<fileVars, diskVars, loopVars, told, history>>
    BY <1>3 DEF SubmitImage
  <1>4. ASSUME NEW j \in Jobs, JobStarts(j) \/ JobFails(j)
        PROVE UNCHANGED <<fileVars, diskVars, loopVars, told, history>>
    BY <1>4 DEF JobStarts, JobFails
  <1>5. ASSUME NEW t \in Turns, NEW j \in Jobs, RetryReads(t, j)
        PROVE UNCHANGED <<fileVars, diskVars, loopVars, told, history>>
    BY <1>5 DEF RetryReads
  <1>6. ASSUME ThreadReads \/ UNCHANGED vars
        PROVE UNCHANGED <<fileVars, diskVars, loopVars, told, history>>
    BY <1>6 DEF ThreadReads, vars
  <1> QED BY <1>1, <1>2, <1>3, <1>4, <1>5, <1>6 DEF fileVars, diskVars, loopVars, history

\* The part of RefInv about the file.
FileRef ==
    /\ \A t \in Turns : Has(file, t) => t \in Accepted
    /\ exists => \A t \in Accepted \ Spoiled : Has(file, t)

\* The parts about copies of it, threads and jobs.
HolderRef ==
    /\ held # Unheld => \A t \in Turns : Has(held.file, t) => t \in Accepted
    /\ held # Unheld /\ held.kind = "retry" => held.turn \in Turns
    /\ \A th \in threads : th.turn \in Accepted
    /\ \A j \in Jobs : job[j].status # "unused" => job[j].turn \in Accepted

LEMMA RefParts == RefInv <=> FileRef /\ HolderRef
  BY DEF RefInv, FileRef, HolderRef

LEMMA FileRefStep == ASSUME IInv, [Next]_vars PROVE FileRef'
  <1>0. FileRef /\ HolderRef /\ TypeOK /\ StageInv
    BY RefParts DEF IInv
  <1>1. ASSUME UNCHANGED <<exists, file, order, lost, reverted>> PROVE FileRef'
    BY <1>0, <1>1 DEF FileRef, Has, Accepted, Spoiled
  <1>2. ASSUME NEW t \in Turns, Accept(t) PROVE FileRef'
    <2>1. Accepted' = Accepted \cup {t}
      BY <1>2, AcceptQueue
    <2>2. file' = [file EXCEPT ![t] = Placeholder] /\ UNCHANGED <<exists, lost, reverted>>
      BY <1>2 DEF Accept
    <2>3. \A u \in Turns : Has(file', u) <=> u = t \/ Has(file, u)
      BY <1>0, <2>2, EmptyMessages DEF TypeOK, File, Has
    <2>4. Spoiled' = Spoiled /\ Accepted \subseteq Turns
      BY <1>0, <2>2, WaitingTurns DEF Spoiled
    <2> QED BY <1>0, <2>1, <2>2, <2>3, <2>4 DEF FileRef
  <1>3. ASSUME Answering PROVE FileRef'
    <2>1. /\ UNCHANGED <<exists, order, lost, reverted>>
          /\ \A u \in Turns : Has(file', u) <=> Has(file, u)
      BY <1>3 DEF Answering, history
    <2>2. Accepted' = Accepted /\ Spoiled' = Spoiled /\ Accepted \subseteq Turns
      BY <1>0, <2>1, WaitingTurns DEF Accepted, Spoiled
    <2> QED BY <1>0, <2>1, <2>2 DEF FileRef
  <1>4. ASSUME NEW j \in Jobs, JobSucceeds(j) PROVE FileRef'
    <2>1. \A u \in Turns : Has(file', u) <=> Has(file, u)
      BY <1>4, JobSucceedsFile DEF Has
    <2>2. Accepted' = Accepted /\ Spoiled' = Spoiled /\ Accepted \subseteq Turns /\ exists' = exists
      BY <1>0, <1>4, WaitingTurns DEF Accepted, Spoiled, JobSucceeds, history
    <2> QED BY <1>0, <2>1, <2>2 DEF FileRef
  <1>5. ASSUME ThreadWrites PROVE FileRef'
    <2>1. /\ \A u \in Turns : Has(file', u) <=> Has(held.file, u)
          /\ \A u \in Turns \ reverted' : exists /\ held.file[u] = file[u]
      BY <1>5, WritesBack DEF Has
    <2>2. held # Unheld /\ UNCHANGED <<order, lost>> /\ reverted \subseteq reverted'
      BY <1>5 DEF ThreadWrites
    <2>3. Accepted' = Accepted /\ Accepted \subseteq Turns /\ Spoiled \subseteq Spoiled'
          /\ reverted' \subseteq Spoiled'
      BY <1>0, <2>2, WaitingTurns DEF Accepted, Spoiled
    <2>4. \A t \in Accepted' \ Spoiled' : Has(file', t)
      BY <1>0, <2>1, <2>3 DEF FileRef, Has
    <2>5. \A t \in Turns : Has(file', t) => t \in Accepted'
      BY <1>0, <2>1, <2>2, <2>3 DEF HolderRef
    <2> QED BY <2>4, <2>5 DEF FileRef
  <1>6. ASSUME DeleteSession PROVE FileRef'
    BY <1>6, EmptyMessages DEF DeleteSession, FileRef, Has
  <1>7. ASSUME NEW at \in Crashes, NEW asked \in {{}} \cup {{t} : t \in Turns},
               NEW k \in 0..Len(order), Restart(at, asked, k)
        PROVE FileRef'
    <2>1. /\ \A u \in Turns \ asked : Has(file', u) <=> Has(file, u)
          /\ \A u \in asked : Has(file', u)
      BY <1>0, <1>7, RestartFile DEF Has, LooksEmpty
    <2>2. Accepted' = Accepted \cup asked /\ asked \subseteq Turns /\ Accepted \subseteq Turns
      BY <1>0, <1>7, AskedOf, WaitingTurns
    <2>3. exists' = exists /\ Spoiled \subseteq Spoiled'
      BY <1>7 DEF Restart, CrashLeaves, Spoiled
    <2> QED BY <1>0, <2>1, <2>2, <2>3 DEF FileRef
  <1>8. CASE Begin \/ Announce \/ Dequeue
    BY <1>1, <1>8 DEF Begin, Announce, Dequeue, fileVars, history
  <1> QED BY <1>0, <1>1, <1>2, <1>3, <1>4, <1>5, <1>6, <1>7, <1>8, NextAnswers, QuietSteps DEF Next

\* order only grows.
LEMMA AcceptedGrows == ASSUME IInv, [Next]_vars PROVE Accepted \subseteq Accepted'
  <1>0. TypeOK /\ StageInv
    BY DEF IInv
  <1>1. ASSUME order' = order PROVE Accepted' = Accepted
    BY <1>1 DEF Accepted
  <1>2. ASSUME NEW t \in Turns, Accept(t) PROVE Accepted \subseteq Accepted'
    BY <1>2, AcceptQueue
  <1>3. ASSUME NEW at \in Crashes, NEW asked \in {{}} \cup {{t} : t \in Turns},
               NEW k \in 0..Len(order), Restart(at, asked, k)
        PROVE Accepted \subseteq Accepted'
    BY <1>0, <1>3, AskedOf
  <1>4. CASE Begin \/ Dequeue
    BY <1>1, <1>4, BeginQueue, DequeueQueue
  <1> QED BY <1>0, <1>1, <1>2, <1>3, <1>4, NextAnswers, OthersRest DEF Next

LEMMA HolderRefStep == ASSUME IInv, [Next]_vars PROVE HolderRef'
  <1>0. FileRef /\ HolderRef /\ TypeOK /\ StageInv /\ Accepted \subseteq Accepted'
    BY RefParts, AcceptedGrows DEF IInv
  <1>1. ASSUME held' \in {held, Unheld}, \A th \in threads' : th.turn \in Accepted',
               \A j \in Jobs : job'[j].status # "unused" => job'[j].turn \in Accepted'
        PROVE HolderRef'
    BY <1>0, <1>1 DEF HolderRef
  <1>2. ASSUME threads' \subseteq threads, job' = job, held' \in {held, Unheld} PROVE HolderRef'
    BY <1>0, <1>1, <1>2 DEF HolderRef
  <1>3. ASSUME Begin PROVE HolderRef'
    <2>1. PICK t \in Turns : t \in Waiting /\ BeginsWith(t)
      BY <1>0, <1>3, BeginOf
    <2>2. t \in Accepted /\ held' = held /\ job' = job
      BY <2>1 DEF BeginsWith, IInv, QueueInv
    <2>3. \A th \in threads' : th \in threads \/ th.turn = t
      BY <2>1 DEF BeginsWith
    <2> QED BY <1>0, <1>1, <2>2, <2>3 DEF HolderRef
  <1>4. ASSUME NEW th \in threads, TakeSlot(th) PROVE HolderRef'
    <2>1. [th EXCEPT !.slot = TRUE].turn = th.turn /\ th.turn \in Accepted
      BY <1>0, ThreadFields DEF TypeOK, HolderRef
    <2>2. threads' = (threads \ {th}) \cup {[th EXCEPT !.slot = TRUE]} /\ held' = held /\ job' = job
      BY <1>4 DEF TakeSlot
    <2>3. \A x \in threads' : x.turn \in Accepted
      BY <1>0, <2>1, <2>2 DEF HolderRef
    <2> QED BY <1>0, <1>1, <2>2, <2>3 DEF HolderRef
  <1>5. ASSUME NEW th \in threads, NEW j \in Jobs, NEW how \in {"tool", "forced"},
               SubmitImage(th, j, how)
        PROVE HolderRef'
    <2>1. [th EXCEPT !.image = how].turn = th.turn /\ th.turn \in Accepted
      BY <1>0, ThreadFields DEF TypeOK, HolderRef
    <2>2. threads' = (threads \ {th}) \cup {[th EXCEPT !.image = how]} /\ held' = held
      BY <1>5 DEF SubmitImage
    <2>3. \A x \in threads' : x.turn \in Accepted
      BY <1>0, <2>1, <2>2 DEF HolderRef
    <2>4. \A i \in Jobs : job'[i] = job[i] \/ job'[i].turn = th.turn
      BY <1>0, <1>5 DEF SubmitImage, TypeOK
    <2> QED BY <1>0, <1>1, <2>1, <2>2, <2>3, <2>4 DEF HolderRef
  <1>6. ASSUME NEW j \in Jobs, JobStarts(j) \/ JobSucceeds(j) \/ JobFails(j) PROVE HolderRef'
    <2>1. PICK x \in {"running", "done", "failed"} : job' = [job EXCEPT ![j].status = x]
      BY <1>6 DEF JobStarts, JobSucceeds, JobFails
    <2>2. \A i \in Jobs : /\ job'[i].turn = job[i].turn
                          /\ i # j => job'[i].status = job[i].status
      BY <1>0, <2>1, JobFields DEF TypeOK
    <2>3. threads' = threads /\ held' = held /\ job[j].status # "unused"
      BY <1>6 DEF JobStarts, JobSucceeds, JobFails
    <2> QED BY <1>0, <1>1, <2>2, <2>3 DEF HolderRef
  <1>7. ASSUME NEW t \in Turns, NEW j \in Jobs, RetryReads(t, j) PROVE HolderRef'
    <2>1. t \in Accepted /\ threads' = threads /\ order' = order
      BY <1>0, <1>7 DEF RetryReads, FileRef, history
    <2>2. \A i \in Jobs : job'[i] = job[i] \/ job'[i].turn = t
      BY <1>0, <1>7 DEF RetryReads, TypeOK
    <2>3. held'.turn = t /\ held'.file = file
      BY <1>7 DEF RetryReads
    <2> QED BY <1>0, <2>1, <2>2, <2>3 DEF HolderRef, FileRef
  <1>8. ASSUME ThreadReads PROVE HolderRef'
    <2>1. held'.kind = "other" /\ held'.file = file /\ threads' = threads /\ job' = job
      BY <1>8 DEF ThreadReads
    <2> QED BY <1>0, <2>1 DEF HolderRef, FileRef
  <1>9. ASSUME NEW at \in Crashes, NEW asked \in {{}} \cup {{t} : t \in Turns},
               NEW k \in 0..Len(order), Restart(at, asked, k)
        PROVE HolderRef'
    <2>1. threads' = {} /\ held' = Unheld
      BY <1>9 DEF Restart
    <2>2. \A i \in Jobs : /\ job'[i].turn = job[i].turn
                          /\ job'[i].status # "unused" => job[i].status # "unused"
      BY <1>0, <1>9, RestartJobs
    <2> QED BY <1>0, <1>1, <2>1, <2>2 DEF HolderRef
  <1>10. CASE Answering
    BY <1>2, <1>10 DEF Answering
  <1>11. CASE (\E t \in Turns : Accept(t)) \/ Drained \/ Announce \/ Dequeue
    BY <1>2, <1>11 DEF Accept, Drained, Announce, Dequeue
  <1>12. CASE ThreadWrites \/ DeleteSession \/ UNCHANGED vars
    BY <1>2, <1>12 DEF ThreadWrites, DeleteSession, vars
  <1> QED
    BY <1>0, <1>3, <1>4, <1>5, <1>6, <1>7, <1>8, <1>9, <1>10, <1>11, <1>12, NextAnswers DEF Next

-----------------------------------------------------------------------------
(* Replies and images.                                                     *)

\* The drain task answers the turn it works on before it lets go of it.
LEMMA RepliesStep == ASSUME IInv, [Next]_vars PROVE ReplyInv' /\ RepliesAreKept'
  <1>0. FileRef /\ TypeOK /\ StageInv /\ ReplyInv /\ RepliesAreKept
        /\ Waiting \subseteq Turns /\ Accepted \subseteq Turns
    BY RefParts, WaitingTurns DEF IInv
  <1>1. ASSUME UNCHANGED <<exists, file, queue, inflight, stage, current, told, order, lost, reverted>>
        PROVE ReplyInv' /\ RepliesAreKept'
    BY <1>0, <1>1
       DEF ReplyInv, RepliesAreKept, Replied, Announced, Accepted, Waiting, Elements, Spoiled
  <1>2. ASSUME NEW t \in Turns, Accept(t) PROVE ReplyInv' /\ RepliesAreKept'
    <2>1. /\ Waiting' = Waiting \cup {t} /\ Accepted' = Accepted \cup {t}
      BY <1>2, AcceptQueue
    <2>2. /\ stage \in {"free", "awaiting"} /\ t \notin Accepted
          /\ UNCHANGED <<exists, stage, told, lost, reverted>>
          /\ file' = [file EXCEPT ![t] = Placeholder]
      BY <1>2 DEF Accept, LoopFree
    <2>3. ReplyInv'
      BY <2>2 DEF ReplyInv
    <2>4. Spoiled' = Spoiled /\ \A u \in Turns \ {t} : file'[u] = file[u]
      BY <1>0, <2>2 DEF Spoiled, TypeOK, File
    <2>5. \A u \in Accepted' \ (Waiting' \cup Spoiled') :
              u \in Accepted \ (Waiting \cup Spoiled) /\ u \in Turns \ {t}
      BY <1>0, <2>1, <2>2, <2>4
    <2>6. RepliesAreKept'
      BY <1>0, <2>2, <2>4, <2>5 DEF RepliesAreKept
    <2> QED BY <2>3, <2>6
  <1>3. ASSUME Begin PROVE ReplyInv' /\ RepliesAreKept'
    <2>1. Waiting' = Waiting /\ Accepted' = Accepted
      BY <1>3, BeginQueue
    <2>2. PICK t \in Turns : BeginsWith(t)
      BY <1>0, <1>3, BeginOf
    <2>3. /\ UNCHANGED <<exists, file, told, lost, reverted>>
          /\ stage' = "awaiting" \/ (~exists /\ stage' = "told")
      BY <2>2 DEF BeginsWith, fileVars, history
    <2> QED BY <1>0, <2>1, <2>3 DEF ReplyInv, RepliesAreKept, Spoiled
  <1>4. ASSUME Answering PROVE ReplyInv' /\ RepliesAreKept'
    <2>1. /\ UNCHANGED <<exists, queue, inflight, current, order, lost, reverted>>
          /\ told \subseteq told'
          /\ \A u \in Turns \ {current} : file'[u] = file[u]
      BY <1>4 DEF Answering, diskVars, history
    <2>2. Accepted' = Accepted /\ Waiting' = Waiting /\ Spoiled' = Spoiled
      BY <2>1 DEF Accepted, Waiting, Elements, Spoiled
    <2>3. CASE UNCHANGED <<file, stage, told>>
      BY <1>1, <2>1, <2>3
    <2>4. CASE /\ stage = "awaiting" /\ stage' = "written"
               /\ file'[current].text \in {"answer", "blank"}
      <3>1. ReplyInv'
        BY <2>1, <2>4 DEF ReplyInv, Replied
      <3>2. current \in Waiting
        BY <1>0, <2>4, NoTurnAssumption DEF StageInv, Waiting
      <3>3. RepliesAreKept'
        BY <1>0, <2>1, <2>2, <3>2 DEF RepliesAreKept
      <3> QED BY <3>1, <3>3
    <2>5. CASE /\ stage \in {"awaiting", "written"} /\ stage' = "told"
               /\ exists /\ Has(file, current) =>
                    /\ file'[current].text = "failure"
                    /\ \E n \in told' : n.turn = current /\ n.kind = "chat_turn_failed"
      <3>1. current \in Waiting /\ current \in Turns
        BY <1>0, <2>5, NoTurnAssumption DEF StageInv, Waiting
      <3>2. exists /\ current \notin Spoiled => Has(file, current)
        BY <1>0, <3>1 DEF IInv, QueueInv, FileRef
      <3>3. ReplyInv'
        BY <2>1, <2>2, <2>5, <3>2 DEF ReplyInv, Replied, Announced
      <3>4. RepliesAreKept'
        BY <1>0, <2>1, <2>2, <3>1 DEF RepliesAreKept
      <3> QED BY <3>3, <3>4
    <2> QED BY <1>4, <2>3, <2>4, <2>5 DEF Answering
  <1>5. ASSUME Announce PROVE ReplyInv' /\ RepliesAreKept'
    <2> DEFINE note == [kind |-> "chat_turn_ready", turn |-> current]
    <2>1. note.turn = current /\ note.kind = "chat_turn_ready"
      OBVIOUS
    <2>2. /\ UNCHANGED <<exists, file, queue, inflight, current, order, lost, reverted>>
          /\ stage = "written" /\ stage' = "told" /\ told' = told \cup {note}
      BY <1>5 DEF Announce, fileVars, diskVars, history
    <2> HIDE DEF note
    <2>3. Accepted' = Accepted /\ Waiting' = Waiting /\ Spoiled' = Spoiled
      BY <2>2 DEF Accepted, Waiting, Elements, Spoiled
    <2>4. ReplyInv'
      BY <1>0, <2>1, <2>2, <2>3 DEF ReplyInv, Replied, Announced
    <2>5. RepliesAreKept'
      BY <1>0, <2>2, <2>3 DEF RepliesAreKept
    <2> QED BY <2>4, <2>5
  <1>6. ASSUME Dequeue PROVE ReplyInv' /\ RepliesAreKept'
    <2>1. Waiting' = Waiting \ {current} /\ Accepted' = Accepted
      BY <1>6, DequeueQueue
    <2>2. UNCHANGED <<exists, file, told, lost, reverted>> /\ stage = "told" /\ stage' = "free"
      BY <1>6 DEF Dequeue, fileVars, history
    <2>3. Spoiled' = Spoiled
      BY <2>2 DEF Spoiled
    <2>4. exists /\ current \notin Spoiled => Replied(current) /\ Announced(current)
      BY <1>0, <2>2 DEF ReplyInv
    <2>5. ReplyInv'
      BY <2>2 DEF ReplyInv
    <2>6. RepliesAreKept'
      BY <1>0, <2>1, <2>2, <2>3, <2>4 DEF RepliesAreKept, Replied, Announced
    <2> QED BY <2>5, <2>6
  <1>7. ASSUME NEW j \in Jobs, JobSucceeds(j) PROVE ReplyInv' /\ RepliesAreKept'
    <2>1. \A u \in Turns : file'[u].text = file[u].text
      BY <1>7, JobSucceedsFile
    <2>2. /\ UNCHANGED <<exists, queue, inflight, stage, current, order, lost, reverted>>
          /\ stage \in {"free", "awaiting"} /\ told \subseteq told'
      BY <1>7 DEF JobSucceeds, LoopFree, diskVars, loopVars, history
    <2>3. Accepted' = Accepted /\ Waiting' = Waiting /\ Spoiled' = Spoiled
      BY <2>2 DEF Accepted, Waiting, Elements, Spoiled
    <2>4. ReplyInv'
      BY <2>2 DEF ReplyInv
    <2>5. RepliesAreKept'
      BY <1>0, <2>1, <2>2, <2>3 DEF RepliesAreKept
    <2> QED BY <2>4, <2>5
  <1>8. ASSUME ThreadWrites PROVE ReplyInv' /\ RepliesAreKept'
    <2>1. /\ \A u \in Turns : file'[u].text = held.file[u].text
          /\ \A u \in Turns \ reverted' : exists /\ held.file[u] = file[u]
      BY <1>8, WritesBack
    <2>2. /\ UNCHANGED <<queue, inflight, stage, current, told, order, lost>>
          /\ reverted \subseteq reverted'
      BY <1>8 DEF ThreadWrites, diskVars, loopVars
    <2>3. Accepted' = Accepted /\ Waiting' = Waiting /\ Spoiled \subseteq Spoiled'
          /\ reverted' \subseteq Spoiled'
      BY <2>2 DEF Accepted, Waiting, Elements, Spoiled
    <2>4. \A u \in Turns \ Spoiled' : exists /\ u \notin Spoiled /\ file'[u].text = file[u].text
      BY <2>1, <2>3
    <2>5. ReplyInv'
      BY <1>0, <2>2, <2>4 DEF ReplyInv, Replied, Announced, StageInv
    <2>6. RepliesAreKept'
      BY <1>0, <2>2, <2>3, <2>4 DEF RepliesAreKept
    <2> QED BY <2>5, <2>6
  <1>9. ASSUME DeleteSession PROVE ReplyInv' /\ RepliesAreKept'
    BY <1>9 DEF DeleteSession, ReplyInv, RepliesAreKept
  <1>10. ASSUME NEW at \in Crashes, NEW asked \in {{}} \cup {{t} : t \in Turns},
                NEW k \in 0..Len(order), Restart(at, asked, k)
         PROVE ReplyInv' /\ RepliesAreKept'
    <2>1. /\ Accepted' = Accepted \cup asked /\ asked \subseteq Turns \ Accepted
          /\ \A u \in Turns \ asked : file'[u] = file[u] \/ file'[u].text = "failure"
          /\ \A w \in Waiting : w \in Waiting' \/ w \in lost' \/ (stage = "told" /\ w = current)
      BY <1>0, <1>10, AskedOf, RestartFile, RestartQueue
    <2>2. UNCHANGED <<exists, told>> /\ stage' \in {"resuming", "free"}
          /\ lost' \subseteq Spoiled' /\ Spoiled \subseteq Spoiled' /\ asked \subseteq lost'
      BY <1>10 DEF Restart, CrashLeaves, Spoiled
    <2>3. ReplyInv'
      BY <2>2 DEF ReplyInv
    <2>4. exists /\ stage = "told" /\ current \notin Spoiled => Replied(current) /\ Announced(current)
      BY <1>0 DEF ReplyInv
    <2>5. RepliesAreKept'
      <3> SUFFICES ASSUME exists, NEW t \in Accepted' \ (Waiting' \cup Spoiled')
                   PROVE /\ file'[t].text \in {"answer", "blank", "failure"}
                         /\ Announced(t)
        BY <2>2 DEF RepliesAreKept, Announced
      <3>1. t \in Accepted /\ t \in Turns \ asked /\ t \notin Spoiled
        BY <1>0, <2>1, <2>2
      <3>2. Replied(t) /\ Announced(t)
        <4>1. CASE t \in Waiting
          BY <2>1, <2>2, <2>4, <3>1, <4>1
        <4>2. CASE t \notin Waiting
          BY <1>0, <3>1, <4>2 DEF RepliesAreKept, Replied, Announced
        <4> QED BY <4>1, <4>2
      <3> QED BY <2>1, <3>1, <3>2 DEF Replied
    <2> QED BY <2>3, <2>5
  <1> QED
    BY <1>0, <1>1, <1>2, <1>3, <1>4, <1>5, <1>6, <1>7, <1>8, <1>9, <1>10, NextAnswers, QuietSteps
       DEF Next

\* Every step that keeps the images of the messages that are there.
LEMMA ImagesRest ==
    ASSUME IInv, exists' => exists, Spoiled \subseteq Spoiled',
           \A t \in Accepted \ Spoiled' : exists' => file[t].images \subseteq file'[t].images,
           \A j \in Jobs : job'[j].status = "done" => job[j] = job'[j]
    PROVE  ImagesReachTheirMessage'
  <1> SUFFICES ASSUME exists', NEW j \in Jobs,
                      job'[j].status = "done", job'[j].turn \notin Spoiled'
               PROVE  j \in file'[job'[j].turn].images
    BY DEF ImagesReachTheirMessage
  <1>1. job[j].turn \in Accepted /\ job[j] = job'[j]
    BY DEF IInv, RefInv
  <1>2. j \in file[job[j].turn].images
    BY <1>1 DEF IInv, ImagesReachTheirMessage
  <1> QED BY <1>1, <1>2

LEMMA ImagesStep == ASSUME IInv, [Next]_vars PROVE ImagesReachTheirMessage'
  <1>0. /\ FileRef /\ TypeOK /\ StageInv /\ Accepted \subseteq Turns
        /\ \A j \in Jobs : job[j] \in Job
    BY RefParts, WaitingTurns DEF IInv, TypeOK
  <1>1. ASSUME UNCHANGED <<exists, file, lost, reverted>>,
               \A j \in Jobs : job'[j].status = "done" => job[j] = job'[j]
        PROVE ImagesReachTheirMessage'
    BY <1>1, ImagesRest DEF Spoiled
  <1>2. ASSUME NEW t \in Turns, Accept(t) PROVE ImagesReachTheirMessage'
    <2>1. /\ t \notin Accepted /\ file' = [file EXCEPT ![t] = Placeholder]
          /\ UNCHANGED <<exists, job, lost, reverted>>
      BY <1>2 DEF Accept
    <2>2. \A u \in Accepted : file'[u] = file[u]
      BY <1>0, <2>1 DEF TypeOK, File
    <2> QED BY <2>1, <2>2, ImagesRest DEF Spoiled
  <1>3. ASSUME Answering PROVE ImagesReachTheirMessage'
    BY <1>0, <1>3, ImagesRest DEF Answering, history, Spoiled
  <1>4. ASSUME NEW th \in threads, NEW j \in Jobs, NEW how \in {"tool", "forced"},
               SubmitImage(th, j, how)
        PROVE ImagesReachTheirMessage'
    <2>1. \A i \in Jobs : job'[i] = job[i] \/ job'[i].status = "queued"
      BY <1>0, <1>4 DEF SubmitImage, TypeOK
    <2>2. UNCHANGED <<exists, file, lost, reverted>>
      BY <1>4 DEF SubmitImage, fileVars, history
    <2> QED BY <1>1, <2>1, <2>2
  <1>5. ASSUME NEW t \in Turns, NEW j \in Jobs, RetryReads(t, j) PROVE ImagesReachTheirMessage'
    <2>1. \A i \in Jobs : job'[i] = job[i] \/ job'[i].status = "queued"
      BY <1>0, <1>5 DEF RetryReads, TypeOK
    <2>2. UNCHANGED <<exists, file, lost, reverted>>
      BY <1>5 DEF RetryReads, fileVars, history
    <2> QED BY <1>1, <2>1, <2>2
  <1>6. ASSUME NEW j \in Jobs, JobStarts(j) \/ JobFails(j) PROVE ImagesReachTheirMessage'
    <2>1. PICK x \in {"running", "failed"} : job' = [job EXCEPT ![j].status = x]
      BY <1>6 DEF JobStarts, JobFails
    <2>2. [job[j] EXCEPT !.status = x].status = x
      BY <1>0, JobFields
    <2>3. \A i \in Jobs : job'[i] = job[i] \/ job'[i].status = x
      BY <1>0, <2>1, <2>2 DEF TypeOK
    <2>4. UNCHANGED <<exists, file, lost, reverted>>
      BY <1>6 DEF JobStarts, JobFails, fileVars, history
    <2> QED BY <1>1, <2>3, <2>4
  <1>7. ASSUME NEW j \in Jobs, JobSucceeds(j) PROVE ImagesReachTheirMessage'
    <2>1. /\ \A u \in Turns : file[u].images \subseteq file'[u].images
          /\ Has(file, job[j].turn) => j \in file'[job[j].turn].images
      BY <1>7, JobSucceedsFile
    <2>2. /\ job' = [job EXCEPT ![j].status = "done"]
          /\ UNCHANGED <<exists, lost, reverted>> /\ job[j].status # "unused"
      BY <1>7 DEF JobSucceeds, history
    <2>3. /\ \A i \in Jobs \ {j} : job'[i] = job[i]
          /\ job'[j].turn = job[j].turn
      BY <1>0, <2>2, JobFields DEF TypeOK
    <2>4. job[j].turn \in Accepted
      BY <2>2 DEF IInv, RefInv
    <2> SUFFICES ASSUME exists', NEW i \in Jobs,
                        job'[i].status = "done", job'[i].turn \notin Spoiled'
                 PROVE  i \in file'[job'[i].turn].images
      BY DEF ImagesReachTheirMessage
    <2>5. Spoiled' = Spoiled /\ exists
      BY <2>2 DEF Spoiled
    <2>6. CASE i = j
      BY <1>0, <2>1, <2>3, <2>4, <2>5, <2>6 DEF FileRef
    <2>7. CASE i # j
      <3>1. job[i] = job'[i]
        BY <2>3, <2>7
      <3>2. job[i].turn \in Turns
        BY <1>0, <3>1 DEF IInv, RefInv
      <3>3. i \in file[job[i].turn].images
        BY <2>5, <3>1 DEF IInv, ImagesReachTheirMessage
      <3> QED BY <2>1, <3>1, <3>2, <3>3
    <2> QED BY <2>6, <2>7
  <1>8. ASSUME ThreadWrites PROVE ImagesReachTheirMessage'
    <2>1. /\ \A u \in Turns : file'[u].images = held.file[u].images
          /\ \A u \in Turns \ reverted' : exists /\ held.file[u] = file[u]
      BY <1>8, WritesBack
    <2>2. job' = job /\ lost' = lost /\ reverted \subseteq reverted' /\ Spoiled' = lost' \cup reverted'
      BY <1>8 DEF ThreadWrites, Spoiled
    <2>3. Spoiled \subseteq Spoiled'
      BY <2>2 DEF Spoiled
    <2>4. CASE exists
      BY <1>0, <2>1, <2>2, <2>3, <2>4, ImagesRest
    <2>5. CASE ~exists
      <3>1. Turns \subseteq reverted'
        BY <2>1, <2>5
      <3>2. \A j \in Jobs : job'[j].status = "done" => job'[j].turn \in Spoiled'
        BY <1>0, <2>2, <3>1 DEF IInv, RefInv
      <3> QED BY <3>2 DEF ImagesReachTheirMessage
    <2> QED BY <2>4, <2>5
  <1>9. ASSUME DeleteSession PROVE ImagesReachTheirMessage'
    BY <1>9 DEF DeleteSession, ImagesReachTheirMessage
  <1>10. ASSUME NEW at \in Crashes, NEW asked \in {{}} \cup {{t} : t \in Turns},
                NEW k \in 0..Len(order), Restart(at, asked, k)
         PROVE ImagesReachTheirMessage'
    <2>1. /\ asked \subseteq Turns \ Accepted
          /\ \A u \in Turns \ asked : file'[u].images = file[u].images
      BY <1>0, <1>10, AskedOf, RestartFile
    <2>2. exists' = exists /\ Spoiled \subseteq Spoiled'
      BY <1>10 DEF Restart, CrashLeaves, Spoiled
    <2>3. \A j \in Jobs : job'[j].status = "done" => job[j] = job'[j]
      <3> SUFFICES ASSUME NEW j \in Jobs, job'[j].status = "done" PROVE job[j] = job'[j]
        OBVIOUS
      <3>1. job'[j] = IF job[j].status \in {"queued", "running"}
                      THEN [job[j] EXCEPT !.status = "gone"] ELSE job[j]
        BY <1>10 DEF Restart
      <3>2. [job[j] EXCEPT !.status = "gone"].status = "gone"
        BY <1>0, JobFields
      <3> QED BY <3>1, <3>2
    <2> QED BY <1>0, <2>1, <2>2, <2>3, ImagesRest
  <1>11. CASE Begin \/ Drained \/ Announce \/ Dequeue \/ UNCHANGED vars
    BY <1>1, <1>11 DEF Begin, Drained, Announce, Dequeue, vars, fileVars, history
  <1>12. CASE (\E th \in threads : TakeSlot(th)) \/ ThreadReads
    BY <1>1, <1>12 DEF TakeSlot, ThreadReads, fileVars, history
  <1> QED
    BY <1>0, <1>2, <1>3, <1>4, <1>5, <1>6, <1>7, <1>8, <1>9, <1>10, <1>11, <1>12, NextAnswers
       DEF Next

\* A settled message is nobody's current turn, and does not look empty.
SettledStay ==
    \A t \in Turns : Settled(t) /\ exists' /\ t \notin Spoiled' =>
        file'[t].text = file[t].text /\ file'[t].failed = file[t].failed

LEMMA SettledStep == ASSUME IInv, [Next]_vars PROVE SettledStay
  <1>0. TypeOK /\ StageInv /\ Accepted \subseteq Turns
    BY WaitingTurns DEF IInv
  <1>1. ASSUME UNCHANGED file PROVE SettledStay
    BY <1>1 DEF SettledStay
  <1>2. ASSUME NEW t \in Turns, Accept(t) PROVE SettledStay
    <2>1. \A u \in Accepted : file'[u] = file[u]
      BY <1>0, <1>2 DEF Accept, TypeOK, File
    <2> QED BY <2>1 DEF SettledStay, Settled
  <1>3. ASSUME Answering PROVE SettledStay
    <2>1. \A u \in Turns \ {current} : file'[u] = file[u]
      BY <1>3 DEF Answering
    <2>2. UNCHANGED file \/ current \in Waiting
      BY <1>0, <1>3, NoTurnAssumption DEF Answering, StageInv, Waiting
    <2> QED BY <1>1, <2>1, <2>2 DEF SettledStay, Settled
  <1>4. ASSUME NEW j \in Jobs, JobSucceeds(j) PROVE SettledStay
    BY <1>4, JobSucceedsFile DEF SettledStay
  <1>5. ASSUME ThreadWrites PROVE SettledStay
    <2>1. \A u \in Turns \ reverted' : file'[u].text = file[u].text /\ file'[u].failed = file[u].failed
      BY <1>5, WritesBack
    <2> QED BY <2>1 DEF SettledStay, Spoiled
  <1>6. ASSUME DeleteSession PROVE SettledStay
    BY <1>6 DEF DeleteSession, SettledStay
  <1>7. ASSUME NEW at \in Crashes, NEW asked \in {{}} \cup {{t} : t \in Turns},
               NEW k \in 0..Len(order), Restart(at, asked, k)
        PROVE SettledStay
    <2>1. /\ asked \subseteq Turns \ Accepted
          /\ \A u \in Turns \ asked : file'[u] = file[u] \/ file[u].text \in LooksEmpty
      BY <1>0, <1>7, AskedOf, RestartFile
    <2> QED BY <2>1 DEF SettledStay, Settled, LooksEmpty
  <1>8. CASE Begin \/ Announce \/ Dequeue
    BY <1>1, <1>8 DEF Begin, Announce, Dequeue, fileVars
  <1> QED BY <1>0, <1>1, <1>2, <1>3, <1>4, <1>5, <1>6, <1>7, <1>8, NextAnswers, QuietSteps DEF Next

-----------------------------------------------------------------------------
LEMMA Invariance == Spec => []IInv
  <1>1. IInv /\ [Next]_vars => IInv'
    BY TypeStep, QueueStep, FileRefStep, HolderRefStep, RepliesStep, ImagesStep
       DEF IInv, RefInv, FileRef, HolderRef
  <1> QED BY InitInv, <1>1, PTL DEF Spec

\* Files, queue, threads and jobs keep their types (ChatTurnQueue, ConversationStore).
THEOREM TypeCorrect == Spec => []TypeOK
  <1>1. IInv => TypeOK
    BY DEF IInv
  <1> QED BY Invariance, <1>1, PTL

\* Every accepted turn waits or has an announced reply or failure, for any
\* number of turns, time-outs, crashes between two writes and restarts: the
\* drain task lets go of a turn only when its message and its notification
\* are written.
THEOREM RepliesKept == Spec => []RepliesAreKept
  <1>1. IInv => RepliesAreKept
    BY DEF IInv
  <1> QED BY Invariance, <1>1, PTL

\* Turns are started in the order they were accepted, across restarts too: a
\* turn in flight is put back before those that are queued.
THEOREM TurnsInOrder == Spec => []TurnsRunInOrder
  <1>1. IInv => TurnsRunInOrder
    BY DEF IInv
  <1> QED BY Invariance, <1>1, PTL

\* The tools of a turn run once, and once more for each restart at most.
THEOREM RepeatsAreRestarts == Spec => []RepeatsNeedRestart
  <1>1. IInv => RepeatsNeedRestart
    BY DEF IInv
  <1> QED BY Invariance, <1>1, PTL

\* A finished image job has left its image on the message of its turn.
THEOREM ImagesArrive == Spec => []ImagesReachTheirMessage
  <1>1. IInv => ImagesReachTheirMessage
    BY DEF IInv
  <1> QED BY Invariance, <1>1, PTL

\* An answer or a failure that the queue is done with is never changed by a
\* late thread, an image, a later turn or a restart; only a copy of the file
\* that another thread writes back changes it, or a torn queue.
THEOREM SettledStays == Spec => SettledRepliesStay
  <1>1. IInv /\ [Next]_vars =>
          [\A t \in Turns : Settled(t) /\ exists' /\ t \notin Spoiled' =>
              file'[t].text = file[t].text /\ file'[t].failed = file[t].failed]_vars
    BY SettledStep DEF SettledStay
  <1> QED BY Invariance, <1>1, PTL DEF Spec, SettledRepliesStay
=============================================================================
