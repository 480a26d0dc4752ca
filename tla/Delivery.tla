------------------------------ MODULE Delivery -----------------------------
(***************************************************************************)
(* How a completion event reaches a device: the server's feed with its     *)
(* deliveries per device (NotificationStore, one locked and atomically     *)
(* replaced file), the app's two consumers of it, the foreground timer and *)
(* the background task, and the ledger the two share (NotificationDelivery,*)
(* SQLite).  A consumer lists what its device has not acknowledged, claims *)
(* and presents the events one by one, and then acknowledges all it listed.*)
(* Several actors meet here: either consumer may die or outlive its claim, *)
(* and the device may be revoked or paired anew in between.                *)
(***************************************************************************)
EXTENDS Naturals, FiniteSets

CONSTANTS
    Devices,
    Backgrounds,    \* devices whose system runs the background task
    MaxEvents,      \* events are numbered in the order of their time stamps
    Legacy,         \* events a release without deliveries per device had marked read
    Failures,       \* events that report a failure: the background task shows none
    MaxIds, MaxFaults, MaxSlow

ASSUME BackgroundsAssumption == Backgrounds \subseteq Devices
ASSUME EventsAssumption ==
    /\ {MaxEvents, MaxIds, MaxFaults, MaxSlow} \subseteq Nat /\ MaxIds > 0
    /\ Legacy \subseteq 1..MaxEvents /\ Failures \subseteq 1..MaxEvents

VARIABLES
    feed,           \* events in notifications.json
    deliveredTo,    \* device ids that acknowledged each event
    admitted,       \* device ids the server admits
    identity,       \* the id of the pairing each device uses
    ledger,         \* per device and event: "free", "leased" or "delivered"
    consumer,       \* what each consumer is at
    alerts,         \* history: how often the system presented an event
    doubts,         \* history: claims whose outcome was not recorded
    passed,         \* history: failures the background task passed over
    faults, slow    \* bounded counters

serverVars == <<feed, deliveredTo, admitted>>
history == <<alerts, doubts, passed>>
vars == <<serverVars, identity, ledger, consumer, history, faults, slow>>

Events == 1..MaxEvents
Consumers == (Devices \X {"foreground"}) \cup (Backgrounds \X {"background"})
DeviceOf(p) == p[1]
IdsOf(d) == {d} \X (1..MaxIds)
Idle == [pc |-> "idle", id |-> <<>>, items |-> {}, left |-> {}]

TypeOK ==
    /\ feed \subseteq Events
    /\ \A e \in Events : deliveredTo[e] # {} => e \in feed
    /\ admitted \subseteq UNION {IdsOf(d) : d \in Devices}
    /\ \A d \in Devices : identity[d] \in IdsOf(d)
    /\ ledger \in [Devices -> [Events -> {"free", "leased", "delivered"}]]
    /\ \A p \in Consumers :
           /\ consumer[p].pc \in {"idle", "showing", "held", "shown"}
           /\ consumer[p].left \subseteq consumer[p].items
           /\ consumer[p].items \subseteq feed \ Legacy

Init ==
    /\ feed = Legacy /\ deliveredTo = [e \in Events |-> {}]
    /\ identity = [d \in Devices |-> <<d, 1>>]
    /\ admitted = {identity[d] : d \in Devices}
    /\ ledger = [d \in Devices |-> [e \in Events |-> "free"]]
    /\ consumer = [p \in Consumers |-> Idle]
    /\ alerts = [d \in Devices |-> [e \in Events |-> 0]]
    /\ doubts = [d \in Devices |-> [e \in Events |-> 0]]
    /\ passed = {} /\ faults = 0 /\ slow = 0

-----------------------------------------------------------------------------
(* The server.                                                             *)

Append ==
    \E e \in Events \ feed :
        /\ \A f \in Events \ feed : e <= f
        /\ feed' = feed \cup {e}
        /\ UNCHANGED <<deliveredTo, admitted, identity, ledger, consumer, history, faults, slow>>

Revoke(d) ==
    /\ identity[d] \in admitted
    /\ admitted' = admitted \ {identity[d]}
    /\ UNCHANGED <<feed, deliveredTo, identity, ledger, consumer, history, faults, slow>>

\* A new pairing is a new id, with nothing delivered to it.
PairAnew(d) ==
    /\ identity[d][2] < MaxIds
    /\ identity' = [identity EXCEPT ![d] = <<d, @[2] + 1>>]
    /\ admitted' = admitted \cup {identity'[d]}
    /\ UNCHANGED <<feed, deliveredTo, ledger, consumer, history, faults, slow>>

\* Faulty variant: deliveries are compared, the old releases' mark is not.
UndeliveredAny(id) == {e \in feed : id \notin deliveredTo[e]}

\* list_all(unread_only, device).
Undelivered(id) == {e \in feed \ Legacy : id \notin deliveredTo[e]}

-----------------------------------------------------------------------------
(* A consumer's round.                                                     *)

Becomes(p, c) == consumer' = [consumer EXCEPT ![p] = c]
Gives(p) == Becomes(p, Idle)

\* drain, or the background task, begins.  Nothing happens when the device is
\* not admitted or has everything.
List(p) ==
    LET id == identity[DeviceOf(p)] IN
    /\ consumer[p] = Idle
    /\ id \in admitted /\ Undelivered(id) # {}
    /\ Becomes(p, [pc |-> "showing", id |-> id,
                   items |-> Undelivered(id), left |-> Undelivered(id)])
    /\ UNCHANGED <<serverVars, identity, ledger, history, faults, slow>>

\* The event at hand: they are taken in the order of the list.
Current(p) == CHOOSE e \in consumer[p].left : \A f \in consumer[p].left : e <= f

Takes(p) == consumer[p].pc = "showing" /\ consumer[p].left # {}
Holds(p) == consumer[p].pc \in {"held", "shown"}

\* The background task leaves failures to the app.
Pass(p) ==
    LET e == Current(p) IN
    /\ Takes(p) /\ p[2] = "background" /\ e \in Failures
    /\ Becomes(p, [consumer[p] EXCEPT !.left = @ \ {e}])
    /\ passed' = passed \cup {<<DeviceOf(p), e>>}
    /\ UNCHANGED <<serverVars, identity, ledger, alerts, doubts, faults, slow>>

Shows(p) == Takes(p) /\ ~(p[2] = "background" /\ Current(p) \in Failures)

\* Faulty variant: a claim looks at what was delivered only.
Unclaimed(d, e) == ledger[d][e] # "delivered"

\* A claim is free when none was made, or it was released or has lapsed.
Claimable(d, e) == ledger[d][e] = "free"

\* _claim: the row is leased, in one transaction.
Claim(p) ==
    LET e == Current(p) IN
    /\ Shows(p) /\ Claimable(DeviceOf(p), e)
    /\ ledger' = [ledger EXCEPT ![DeviceOf(p)][e] = "leased"]
    /\ Becomes(p, [consumer[p] EXCEPT !.pc = "held"])
    /\ UNCHANGED <<serverVars, identity, history, faults, slow>>

\* It was delivered before: the event is done with.
AlreadyDelivered(p) ==
    LET e == Current(p) IN
    /\ Shows(p) /\ ledger[DeviceOf(p)][e] = "delivered"
    /\ Becomes(p, [consumer[p] EXCEPT !.left = @ \ {e}])
    /\ UNCHANGED <<serverVars, identity, ledger, history, faults, slow>>

\* The round ends without acknowledging anything.
Aborts(p) == Gives(p)

\* Another consumer is presenting it: the claim throws.
ClaimThrows(p) ==
    LET e == Current(p) IN
    /\ Shows(p) /\ ledger[DeviceOf(p)][e] = "leased" /\ ~Claimable(DeviceOf(p), e)
    /\ Aborts(p)
    /\ UNCHANGED <<serverVars, identity, ledger, history, faults, slow>>

\* The system presents it, or the owner has muted notifications.
Present(p) ==
    LET e == Current(p) IN
    /\ consumer[p].pc = "held"
    /\ \/ alerts' = [alerts EXCEPT ![DeviceOf(p)][e] = @ + 1]
       \/ UNCHANGED alerts
    /\ Becomes(p, [consumer[p] EXCEPT !.pc = "shown"])
    /\ UNCHANGED <<serverVars, identity, ledger, doubts, passed, faults, slow>>

\* Presenting it, or recording that, fails: whatever claim there is now is
\* released, and the round ends.
PresentFails(p) ==
    LET e == Current(p) IN
    /\ Holds(p) /\ faults < MaxFaults
    /\ faults' = faults + 1
    /\ ledger' = [ledger EXCEPT ![DeviceOf(p)][e] = IF @ = "leased" THEN "free" ELSE @]
    /\ doubts' = IF consumer[p].pc = "shown"
                 THEN [doubts EXCEPT ![DeviceOf(p)][e] = @ + 1] ELSE doubts
    /\ Aborts(p)
    /\ UNCHANGED <<serverVars, identity, alerts, passed, slow>>

Record(p) ==
    LET e == Current(p) IN
    /\ consumer[p].pc = "shown"
    /\ ledger' = [ledger EXCEPT ![DeviceOf(p)][e] = "delivered"]
    /\ Becomes(p, [consumer[p] EXCEPT !.pc = "showing", !.left = @ \ {e}])
    /\ UNCHANGED <<serverVars, identity, history, faults, slow>>

\* Faulty variant: whatever is undelivered by now is acknowledged.
AllSince(p) == Undelivered(consumer[p].id)

\* What was listed is acknowledged.
Acknowledged(p) == consumer[p].items

\* ack, for the id the round began with; the answer does not matter.
Ack(p) ==
    /\ consumer[p].pc = "showing" /\ consumer[p].left = {}
    /\ consumer[p].id \in admitted
    /\ deliveredTo' = [e \in Events |-> IF e \in Acknowledged(p)
                           THEN deliveredTo[e] \cup {consumer[p].id} ELSE deliveredTo[e]]
    /\ Gives(p)
    /\ UNCHANGED <<feed, admitted, identity, ledger, history, faults, slow>>

\* The acknowledgement is lost, or refused since the device was revoked.
AckFails(p) ==
    /\ consumer[p].pc = "showing" /\ consumer[p].left = {}
    /\ \/ consumer[p].id \notin admitted /\ UNCHANGED faults
       \/ faults < MaxFaults /\ faults' = faults + 1
    /\ Gives(p)
    /\ UNCHANGED <<serverVars, identity, ledger, history, slow>>

\* The isolate dies; what it claimed stays leased.
Dies(p) ==
    /\ consumer[p] # Idle /\ faults < MaxFaults
    /\ faults' = faults + 1
    /\ doubts' = [doubts EXCEPT ![DeviceOf(p)] =
                      [e \in Events |-> IF Holds(p) /\ e = Current(p) THEN @[e] + 1 ELSE @[e]]]
    /\ Gives(p)
    /\ UNCHANGED <<serverVars, identity, ledger, alerts, passed, slow>>

Holders(d, e) == {p \in Consumers : DeviceOf(p) = d /\ Holds(p) /\ Current(p) = e}

\* Faulty variant: a timer of the holder ends the claim.
TimedOut(d, e) == ledger[d][e] = "leased" /\ Holders(d, e) # {}

\* The ledger keeps the time a claim ends, whatever became of its holder.
Ending(d, e) == ledger[d][e] = "leased"

\* Ten minutes after it was made, a claim lapses; mostly its holder is gone.
LeaseLapses(d, e) ==
    /\ Ending(d, e)
    /\ IF Holders(d, e) = {} THEN UNCHANGED <<slow, doubts>>
       ELSE /\ slow < MaxSlow /\ slow' = slow + 1
            /\ doubts' = [doubts EXCEPT ![d][e] = @ + 1]
    /\ ledger' = [ledger EXCEPT ![d][e] = "free"]
    /\ UNCHANGED <<serverVars, identity, consumer, alerts, passed, faults>>

Goes(p) ==
    \/ Pass(p) \/ Claim(p) \/ AlreadyDelivered(p) \/ ClaimThrows(p)
    \/ Present(p) \/ PresentFails(p) \/ Record(p)
    \/ Ack(p) \/ AckFails(p)

Lapses == \E d \in Devices, e \in Events : LeaseLapses(d, e)

Next ==
    \/ Append
    \/ \E d \in Devices : Revoke(d) \/ PairAnew(d)
    \/ \E p \in Consumers : List(p) \/ Goes(p) \/ Dies(p)
    \/ Lapses

\* The foreground timer fires for ever, a round that began goes on, claims
\* lapse.  Nothing makes the background task begin.
Fairness ==
    /\ \A p \in Consumers : WF_vars(Goes(p))
    /\ \A d \in Devices : WF_vars(List(<<d, "foreground">>))
    /\ WF_vars(Lapses)

Spec == Init /\ [][Next]_vars /\ Fairness

-----------------------------------------------------------------------------
(* Properties.                                                             *)

\* An event acknowledged for a device was presented there, or found presented
\* before, or is a failure the background task leaves to the app; so a round
\* that breaks off, and an event that arrives meanwhile, are not lost.
AcknowledgedWereHandled ==
    \A e \in Events : \A id \in deliveredTo[e] :
        ledger[id[1]][e] = "delivered" \/ <<id[1], e>> \in passed

\* docs/COMPLETION_DELIVERY.md claims all but exactly-once: an event alerts a
\* second time only after a claim whose outcome was not recorded, whichever
\* consumers race for it and however often the device is paired anew.
AlertsRepeatOnlyInDoubt ==
    \A d \in Devices, e \in Events : alerts[d][e] <= 1 + doubts[d][e]

\* Every event a paired device has not seen is handled there in the end, unless
\* the device is revoked: no claim, and no other consumer, blocks it for ever.
EventsArrive ==
    \A d \in Devices, e \in Events :
        (e \in feed \ Legacy /\ identity[d] \in admitted)
            ~> (\/ ledger[d][e] = "delivered" \/ <<d, e>> \in passed
                \/ identity[d] \notin admitted)

=============================================================================
