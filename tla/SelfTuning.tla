----------------------------- MODULE SelfTuning ------------------------------
(***************************************************************************)
(* What the assistant learns between turns: the facts of the durable       *)
(* memory (a file per target), written by the update_memory tool of the    *)
(* chat turns and by the memory reviews that run behind them, and the tool *)
(* policy, reviewed from the log of past turns.                            *)
(*                                                                         *)
(* A call reads its file, checks the size of all files and writes, each in *)
(* a lock section of its own, in the thread of its turn or review.  What a *)
(* turn does after its answer runs on the event loop without a break.  The *)
(* size of a file is its number of facts, headers left out.                *)
(*                                                                         *)
(* Files are rewritten in place: a stop inside a write leaves the first of *)
(* the facts, or not even a note that can be read.  A fact cut in its      *)
(* middle counts as gone.                                                  *)
(***************************************************************************)
EXTENDS Naturals, Sequences, SequencesExt, FiniteSets

CONSTANTS
    Sessions,
    Targets, User,       \* MEMORY_TARGETS; User is the one that is migrated to
    Facts,
    Legacy,              \* attributes of an old profile/user-model.md, in order
    Limit,               \* memory_disk_max_chars
    Interval,            \* memory_review_interval_turns
    Window, MinFailures, \* turns the policy review looks at, failures it waits for
    Rules, MaxRules,     \* bullets of the tool policy, and how many are kept
    MaxReviews,          \* reviews of a session at a time
    MaxCalls, MaxTurns, MaxRestarts

ASSUME TargetsAssumption == User \in Targets /\ IsFiniteSet(Targets)
ASSUME LegacyAssumption == Legacy \in Seq(Facts) /\ Len(Legacy) <= Limit /\ IsInjective(Legacy)
ASSUME BoundsAssumption ==
    /\ {MaxReviews, MaxCalls, MaxTurns, MaxRestarts} \subseteq Nat
    /\ {Limit, Interval, Window, MinFailures, MaxRules} \subseteq Nat \ {0}

VARIABLES
    files,      \* facts on disk, as far as they can be read
    broken,     \* files that are no notes any more
    up,         \* the server started
    task,       \* the turns and the reviews of each session
    call,       \* the memory call a task is in
    quiet,      \* turns_since_memory
    log,        \* trajectories: whether a turn missed an action; the last ones
    torn,       \* a line of the log was cut short
    policy, due,        \* tool policy, and whether its review is due
    drained,    \* sessions whose queue has just become empty
    calls, turns, restarts,     \* bounded counters
    raced       \* history: a file was written from what it no longer was

memory == <<files, broken, task, call, quiet, raced>>
learning == <<log, torn, policy, due>>
counts == <<calls, turns, restarts>>
vars == <<memory, up, learning, drained, counts>>

\* A session's turn is its task 0, then come its reviews; the last one is the
\* thread of a turn that has timed out, which nothing stops.
Tasks == (0..(MaxReviews + 1)) \X Sessions
Turn(s) == <<0, s>>
Reviews == (1..MaxReviews) \X Sessions
Late(s) == <<MaxReviews + 1, s>>

Off == [on |-> FALSE, saved |-> FALSE]
NoCall == [pc |-> "none", target |-> User, new |-> <<>>, cut |-> {}, moved |-> FALSE]

FactsIn(t) == ToSet(files[t])
Entries(f) == UNION {{t} \X DOMAIN f[t] : t \in Targets}
Size(f) == Cardinality(Entries(f))

\* What stands at these positions of a list, in its order.
Picked(list, at) ==
    [n \in 1..Cardinality(at) |->
        list[CHOOSE i \in at : Cardinality({j \in at : j <= i}) = n]]

TypeOK ==
    /\ files \in [Targets -> Seq(Facts)] /\ broken \subseteq Targets
    /\ up \in BOOLEAN /\ raced \in BOOLEAN /\ torn \in BOOLEAN /\ due \in BOOLEAN
    /\ task \in [Tasks -> [on : BOOLEAN, saved : BOOLEAN]]
    /\ \A k \in Tasks : /\ call[k].pc \in {"none", "check", "write"}
                        /\ (call[k].pc # "none" \/ task[k].on) => up
    /\ drained \subseteq Sessions
    /\ log \in Seq({"fine", "missed"}) /\ Len(log) <= Window
    /\ policy \in Seq(Rules) /\ IsInjective(policy) /\ Len(policy) <= MaxRules
    /\ \A s \in Sessions : quiet[s] <= turns

-----------------------------------------------------------------------------
(* Starting.                                                               *)

\* Lists are merged without duplicates, the first of two kept.
Merged(old, new) ==
    LET all == old \o new
    IN  Picked(all, {i \in DOMAIN all : \A j \in 1..(i - 1) : all[j] # all[i]})

\* Faulty variant: the legacy attributes become the file.
LegacyOnly(f) == [f EXCEPT ![User] = IF Legacy = <<>> THEN @ ELSE Legacy]

\* migrate: at every start the legacy attributes are added to the user file.
Migrated(f) == [f EXCEPT ![User] = IF Legacy = <<>> THEN @ ELSE Merged(@, Legacy)]

Init ==
    /\ files = Migrated([t \in Targets |-> <<>>]) /\ broken = {} /\ up = TRUE
    /\ task = [k \in Tasks |-> Off] /\ call = [k \in Tasks |-> NoCall]
    /\ quiet = [s \in Sessions |-> 0]
    /\ log = <<>> /\ torn = FALSE /\ policy = <<>> /\ due = TRUE
    /\ drained = {}
    /\ calls = 0 /\ turns = 0 /\ restarts = 0 /\ raced = FALSE

\* A new process finds the files as the stop has left them.  With a profile to
\* migrate, it reads them all; when one is broken, or the merged file too large,
\* migrate raises and no server comes up.
Starts(left, unread) ==
    LET fits == Legacy = <<>> \/ (unread = {} /\ Size(Migrated(left)) <= Limit) IN
    /\ restarts < MaxRestarts /\ restarts' = restarts + 1
    /\ up' = fits
    /\ files' = IF fits THEN Migrated(left) ELSE left
    /\ broken' = unread
    /\ task' = [k \in Tasks |-> Off] /\ call' = [k \in Tasks |-> NoCall]
    /\ due' = TRUE /\ drained' = {}
    /\ UNCHANGED <<quiet, log, policy, calls, turns>>

Restart == Starts(files, broken) /\ UNCHANGED <<torn, raced>>

\* The server stops while a turn is being logged.
StopsInLog(s) ==
    /\ up /\ task[Turn(s)].on /\ call[Turn(s)] = NoCall /\ broken = {}
    /\ Starts(files, broken)
    /\ torn' = TRUE /\ UNCHANGED raced

\* The server stops while a call writes its file.
StopsInWrite(k) ==
    LET c == call[k]
        Cut(n) == [files EXCEPT ![c.target] = SubSeq(c.new, 1, n)]
    IN  /\ c.pc = "write"
        /\ \/ \E n \in 0..Len(c.new) : Starts(Cut(n), broken)
           \/ Starts(Cut(0), broken \cup {c.target})
        /\ raced' = (raced \/ c.moved) /\ UNCHANGED torn

-----------------------------------------------------------------------------
(* A memory call of a turn or a review: DurableMemoryStore.apply.          *)

\* The facts a replace_match occurs in: those of one entry, or, when it is
\* empty, all.
Matches == {{f} : f \in Facts} \cup {Facts}

Replaced(list, m, e) ==
    LET i == SelectInSeq(list, LAMBDA f : f \in m)
    IN  IF i = 0 THEN Append(list, e) ELSE [list EXCEPT ![i] = e]

\* Turns and reviews begin by reading all files, and fail when one is broken.
MayCall(k) == up /\ broken = {} /\ task[k].on /\ call[k] = NoCall /\ calls < MaxCalls

Reads(k, t, new, cut) ==
    /\ MayCall(k)
    /\ calls' = calls + 1
    /\ call' = [call EXCEPT ![k] = [pc |-> "check", target |-> t, new |-> new,
                                    cut |-> cut \cap FactsIn(t), moved |-> FALSE]]
    /\ UNCHANGED <<files, broken, up, task, quiet, raced, learning, drained, turns, restarts>>

Add(k, t, e) == e \notin FactsIn(t) /\ Reads(k, t, Append(files[t], e), {})

\* A fact that is there already is acknowledged at once.
AddAgain(k, t, e) ==
    /\ MayCall(k) /\ e \in FactsIn(t)
    /\ calls' = calls + 1
    /\ task' = [task EXCEPT ![k].saved = TRUE]
    /\ UNCHANGED <<files, broken, up, call, quiet, raced, learning, drained, turns, restarts>>

Replace(k, t, m, e) == Reads(k, t, Replaced(files[t], m, e), m)

Without(list, m) == Picked(list, {i \in DOMAIN list : list[i] \notin m})

Forget(k, t, m) == Reads(k, t, Without(files[t], m), m)

\* Faulty variant: the size of the file before the change.
SizeBefore(k) == Size(files)

\* What the files would come to.
SizeAfter(k) == Size([files EXCEPT ![call[k].target] = call[k].new])

\* MemoryOverflowError: nothing is written, whatever the change was.
Checks(k) ==
    /\ call[k].pc = "check"
    /\ call' = [call EXCEPT ![k] = IF SizeAfter(k) > Limit THEN NoCall ELSE [@ EXCEPT !.pc = "write"]]
    /\ UNCHANGED <<files, broken, up, task, quiet, raced, learning, drained, counts>>

Stored(k) == [files EXCEPT ![call[k].target] = call[k].new]

\* The whole file is written; calls that have read are on what is gone now.
Writes(k) ==
    /\ call[k].pc = "write"
    /\ files' = Stored(k)
    /\ call' = [j \in Tasks |-> CASE j = k -> NoCall
                                  [] call[j].pc = "none" -> call[j]
                                  [] OTHER -> [call[j] EXCEPT !.moved = TRUE]]
    /\ task' = [task EXCEPT ![k].saved = TRUE]
    /\ raced' = (raced \/ call[k].moved)
    /\ UNCHANGED <<broken, up, quiet, learning, drained, counts>>

-----------------------------------------------------------------------------
(* Turns.                                                                  *)

TurnStarts(s) ==
    /\ up /\ ~task[Turn(s)].on /\ turns < MaxTurns
    /\ turns' = turns + 1
    /\ task' = [task EXCEPT ![Turn(s)].on = TRUE]
    /\ drained' = drained \ {s}
    /\ UNCHANGED <<files, broken, up, call, quiet, raced, learning, calls, restarts>>

\* The newest of a list, so many at most.
Newest(list, many) ==
    SubSeq(list, IF Len(list) > many THEN Len(list) - many + 1 ELSE 1, Len(list))

\* Of the turns the policy review looks at, those that missed an action.
Failures(l) == Len(SelectSeq(l, LAMBDA x : x = "missed"))

\* Faulty variant: rules are appended as they come.
WithRulesAgain(new) == policy \o new

\* append_bullets: no rule twice, the newest are kept.
WithRules(new) == Newest(Merged(policy, new), MaxRules)

\* run_if_due: too few failures, or a model that fails or has nothing to say,
\* end the review like one that adds a rule.
PolicyReview(new) ==
    LET asked == due /\ Failures(log') >= MinFailures IN
    /\ due' = FALSE
    /\ new # <<>> => asked
    /\ policy' = IF new = <<>> THEN policy ELSE WithRules(new)

\* tool_policy_review_interval_hours have passed.
ReviewFallsDue ==
    /\ up /\ ~due /\ due' = TRUE
    /\ UNCHANGED <<memory, up, log, torn, policy, drained, counts>>

\* The log is read outside the review's own error handling: a line cut short
\* raises, at every turn from then on, and what is due stays so.
PolicyRaises == due /\ torn

\* The counter moves, the turn is logged and the policy reviewed.
TurnEnds(s, how, new) ==
    /\ task[Turn(s)].on /\ call[Turn(s)] = NoCall /\ broken = {}
    /\ quiet' = [quiet EXCEPT ![s] = IF task[Turn(s)].saved THEN 0 ELSE @ + 1]
    /\ log' = Newest(Append(log, how), Window)
    /\ IF PolicyRaises THEN new = <<>> /\ UNCHANGED <<policy, due>> ELSE PolicyReview(new)
    /\ task' = [task EXCEPT ![Turn(s)] = Off] /\ drained' = drained \cup {s}
    /\ UNCHANGED <<files, broken, up, call, raced, torn, counts>>

\* The model fails, which neither counts nor logs the turn.
TurnFails(s) ==
    /\ task[Turn(s)].on /\ call[Turn(s)] = NoCall
    /\ task' = [task EXCEPT ![Turn(s)] = Off] /\ drained' = drained \cup {s}
    /\ UNCHANGED <<files, broken, up, call, quiet, raced, learning, counts>>

\* The turn times out.  Its thread goes on, in the call it is in and others.
\* Bound: one such thread of a session at a time.
TurnTimesOut(s) ==
    /\ task[Turn(s)].on /\ ~task[Late(s)].on
    /\ task' = [task EXCEPT ![Turn(s)] = Off, ![Late(s)] = task[Turn(s)]]
    /\ call' = [call EXCEPT ![Turn(s)] = NoCall, ![Late(s)] = call[Turn(s)]]
    /\ drained' = drained \cup {s}
    /\ UNCHANGED <<files, broken, up, quiet, raced, learning, counts>>

LateThreadEnds(s) ==
    /\ task[Late(s)].on /\ call[Late(s)] = NoCall
    /\ task' = [task EXCEPT ![Late(s)] = Off]
    /\ UNCHANGED <<files, broken, up, call, quiet, raced, learning, drained, counts>>

-----------------------------------------------------------------------------
(* Memory reviews.                                                         *)

ReviewStarts(k) ==
    /\ up /\ k \in Reviews /\ ~task[k].on /\ call[k] = NoCall
    /\ task' = [task EXCEPT ![k].on = TRUE]
    /\ UNCHANGED <<files, broken, up, call, quiet, raced, learning, counts>>

\* A session's queue is empty after a turn that makes the interval full.
ReviewIsDue(k) ==
    LET s == k[2] IN
    /\ s \in drained /\ quiet[s] >= Interval
    /\ ReviewStarts(k)
    /\ drained' = drained \ {s}

\* POST /chat/sessions/{id}/consolidate.
ReviewIsAsked(k) == ReviewStarts(k) /\ UNCHANGED drained

\* A review that saved something starts the interval anew, one that failed
\* half-way does not.
ReviewEnds(k) ==
    /\ k \in Reviews /\ task[k].on /\ call[k] = NoCall /\ broken = {}
    /\ quiet' = IF task[k].saved THEN [quiet EXCEPT ![k[2]] = 0] ELSE quiet
    /\ task' = [task EXCEPT ![k] = Off]
    /\ UNCHANGED <<files, broken, up, call, raced, learning, drained, counts>>

ReviewFails(k) ==
    /\ k \in Reviews /\ task[k].on /\ call[k] = NoCall
    /\ task' = [task EXCEPT ![k] = Off]
    /\ UNCHANGED <<files, broken, up, call, quiet, raced, learning, drained, counts>>

-----------------------------------------------------------------------------
MemoryCall(k) ==
    \/ \E t \in Targets, e \in Facts :
          Add(k, t, e) \/ AddAgain(k, t, e) \/ \E m \in Matches : Replace(k, t, m, e)
    \/ \E t \in Targets, m \in Matches : Forget(k, t, m)
    \/ Checks(k) \/ Writes(k) \/ StopsInWrite(k)

SessionStep(s) ==
    \/ TurnStarts(s) \/ TurnFails(s) \/ TurnTimesOut(s) \/ LateThreadEnds(s) \/ StopsInLog(s)
    \/ \E how \in {"fine", "missed"} : \E new \in {<<>>} \cup {<<r>> : r \in Rules} :
          TurnEnds(s, how, new)

ReviewStep(k) == ReviewIsDue(k) \/ ReviewIsAsked(k) \/ ReviewEnds(k) \/ ReviewFails(k)

Next ==
    \/ Restart \/ ReviewFallsDue
    \/ \E s \in Sessions : SessionStep(s)
    \/ \E k \in Tasks : MemoryCall(k) \/ ReviewStep(k)

Spec == Init /\ [][Next]_vars

-----------------------------------------------------------------------------
(* Properties.                                                             *)

\* A fact leaves its file only when the call that writes the file asked for it,
\* had read the file before somebody else's write, or is cut by a stop inside
\* this very write; no start takes anything away, and no write to another file.
FactsLeaveOnRequest ==
    [][\A t \in Targets : \A f \in FactsIn(t) \ ToSet(files'[t]) :
          \E k \in Tasks : /\ call[k].pc = "write" /\ call[k].target = t
                           /\ \/ f \in call[k].cut \/ call[k].moved
                              \/ restarts' # restarts]_vars

\* memory_disk_max_chars holds for all files together, through stops inside a
\* write too, until a call writes what it checked before another call's write.
LimitHolds == Size(files) > Limit => raced

=============================================================================
