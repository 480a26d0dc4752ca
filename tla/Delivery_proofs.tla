--------------------------- MODULE Delivery_proofs ---------------------------
(***************************************************************************)
(* The safety of the delivery of completion events, for any number of      *)
(* devices, events, pairings, failures and lapsed claims.                  *)
(***************************************************************************)
EXTENDS Delivery, TLAPS

Round == [pc : {"idle", "showing", "held", "shown"}, id : (Devices \X Nat) \cup {<<>>},
          items : SUBSET Events, left : SUBSET Events]

\* The tables of one value per device and event.
Table(S) == [Devices -> [Events -> S]]
Status == {"free", "leased", "delivered"}

Shape ==
    /\ feed \subseteq Events
    /\ deliveredTo \in [Events -> SUBSET (Devices \X Nat)]
    /\ identity \in [Devices -> Devices \X Nat]
    /\ \A d \in Devices : identity[d][1] = d
    /\ ledger \in Table(Status)
    /\ consumer \in [Consumers -> Round]
    /\ alerts \in Table(Nat)
    /\ doubts \in Table(Nat)

\* What a round has behind it was presented, or is the app's to present.
Handled(d, e) == ledger[d][e] = "delivered" \/ <<d, e>> \in passed

HandledInv ==
    /\ \A e \in Events : \A id \in deliveredTo[e] : Handled(id[1], e)
    /\ \A p \in Consumers : \A e \in consumer[p].items \ consumer[p].left : Handled(DeviceOf(p), e)
    /\ \A p \in Consumers : consumer[p].pc # "idle" =>
           consumer[p].id \in Devices \X Nat /\ consumer[p].id[1] = DeviceOf(p)

\* What may still alert: a consumer that holds the event and has not presented
\* it, and a claim that is free to take.
Bit(p, e) == IF consumer[p].pc = "held" /\ Current(p) = e THEN 1 ELSE 0
Holding(d, k, e) == IF <<d, k>> \in Consumers THEN Bit(<<d, k>>, e) ELSE 0
Free(d, e) == IF ledger[d][e] = "free" THEN 1 ELSE 0
Prospects(d, e) == alerts[d][e] + Holding(d, "foreground", e) + Holding(d, "background", e)

\* They are paid for by the doubts; and so is a claim nobody holds, in advance.
Paid(d, e) ==
    /\ Prospects(d, e) + Free(d, e) <= 1 + doubts[d][e]
    /\ ledger[d][e] = "leased" /\ Holders(d, e) = {} => Prospects(d, e) <= doubts[d][e]
AlertInv == \A d \in Devices, e \in Events : Paid(d, e)

-----------------------------------------------------------------------------
LEMMA ConsumerIsOfADevice ==
    ASSUME NEW p \in Consumers
    PROVE  /\ DeviceOf(p) \in Devices
           /\ p = <<DeviceOf(p), "foreground">> \/ p = <<DeviceOf(p), "background">>
  BY BackgroundsAssumption DEF Consumers, DeviceOf

LEMMA InitShape == Init => Shape
  BY EventsAssumption DEF Init, Shape, Table, Status, Round, Idle, Events

LEMMA InitHandled == Init => HandledInv
  BY DEF Init, HandledInv, Idle

LEMMA InitAlerts == Init => AlertInv
  <1> SUFFICES ASSUME Init, NEW d \in Devices, NEW e \in Events PROVE Paid(d, e)
    BY DEF AlertInv
  <1>1. alerts[d][e] = 0 /\ doubts[d][e] = 0 /\ ledger[d][e] = "free"
    BY DEF Init
  <1>2. \A p \in Consumers : Bit(p, e) = 0
    BY DEF Init, Bit, Idle
  <1> QED BY <1>1, <1>2 DEF Paid, Prospects, Free, Holding

-----------------------------------------------------------------------------
(* Rounds: what each step makes of one.                                    *)

LEMMA RoundSteps ==
    ASSUME NEW r \in Round, NEW x
    PROVE  /\ [r EXCEPT !.left = @ \ {x}] \in Round
           /\ [r EXCEPT !.pc = "held"] \in Round
           /\ [r EXCEPT !.pc = "shown"] \in Round
           /\ [r EXCEPT !.pc = "showing", !.left = @ \ {x}] \in Round
           /\ Idle \in Round
  BY DEF Round, Idle

LEMMA ListedRound ==
    ASSUME Shape, NEW d \in Devices
    PROVE  [pc |-> "showing", id |-> identity[d], items |-> Undelivered(identity[d]),
            left |-> Undelivered(identity[d])] \in Round
  BY DEF Shape, Round, Undelivered

LEMMA TableSteps ==
    ASSUME NEW S, NEW t \in Table(S), NEW d \in Devices, NEW e, NEW v \in S
    PROVE  /\ [t EXCEPT ![d][e] = v] \in Table(S)
           /\ \A c \in Devices, f \in Events :
                  [t EXCEPT ![d][e] = v][c][f] = IF c = d /\ f = e THEN v ELSE t[c][f]
  BY DEF Table

LEMMA OutsideTable ==
    ASSUME NEW S, NEW t \in Table(S), NEW d \in Devices, NEW e, e \notin Events, NEW v
    PROVE  [t EXCEPT ![d][e] = v] = t
  <1>1. t[d] \in [Events -> S]
    BY DEF Table
  <1>2. [t[d] EXCEPT ![e] = v] = t[d]
    BY <1>1
  <1> QED BY <1>2 DEF Table

LEMMA CountSteps ==
    ASSUME NEW t \in Table(Nat), NEW d \in Devices, NEW e
    PROVE  /\ [t EXCEPT ![d][e] = @ + 1] \in Table(Nat)
           /\ \A c \in Devices, f \in Events :
                  [t EXCEPT ![d][e] = @ + 1][c][f] = IF c = d /\ f = e THEN t[c][f] + 1 ELSE t[c][f]
  <1> DEFINE v == t[d][e] + 1
  <1>1. CASE e \in Events
    <2>1. v \in Nat
      BY <1>1 DEF Table
    <2> HIDE DEF v
    <2>2. /\ [t EXCEPT ![d][e] = v] \in Table(Nat)
          /\ \A c \in Devices, f \in Events :
                 [t EXCEPT ![d][e] = v][c][f] = IF c = d /\ f = e THEN v ELSE t[c][f]
      BY <1>1, <2>1 DEF Table
    <2> QED BY <2>2 DEF v
  <1>2. CASE e \notin Events
    <2> HIDE DEF v
    <2>1. [t EXCEPT ![d][e] = v] = t
      BY <1>2, OutsideTable
    <2>2. \A c \in Devices, f \in Events : f # e
      BY <1>2
    <2>3. /\ [t EXCEPT ![d][e] = v] \in Table(Nat)
          /\ \A c \in Devices, f \in Events :
                 [t EXCEPT ![d][e] = v][c][f] = IF c = d /\ f = e THEN t[c][f] + 1 ELSE t[c][f]
      BY <2>1, <2>2
    <2> QED BY <2>3 DEF v
  <1> QED BY <1>1, <1>2

LEMMA ReleaseSteps ==
    ASSUME NEW t \in Table(Status), NEW d \in Devices, NEW e
    PROVE  /\ [t EXCEPT ![d][e] = IF @ = "leased" THEN "free" ELSE @] \in Table(Status)
           /\ \A c \in Devices, f \in Events :
                  [t EXCEPT ![d][e] = IF @ = "leased" THEN "free" ELSE @][c][f]
                      = IF c = d /\ f = e /\ t[c][f] = "leased" THEN "free" ELSE t[c][f]
  <1> DEFINE v == IF t[d][e] = "leased" THEN "free" ELSE t[d][e]
  <1>1. CASE e \in Events
    <2>1. v \in Status
      BY <1>1 DEF Table, Status
    <2> HIDE DEF v
    <2>2. /\ [t EXCEPT ![d][e] = v] \in Table(Status)
          /\ \A c \in Devices, f \in Events :
                 [t EXCEPT ![d][e] = v][c][f] = IF c = d /\ f = e THEN v ELSE t[c][f]
      BY <2>1, TableSteps
    <2> QED BY <2>2 DEF v
  <1>2. CASE e \notin Events
    <2>1. [t EXCEPT ![d][e] = v] = t
      BY <1>2, OutsideTable
    <2>2. \A c \in Devices, f \in Events : f # e
      BY <1>2
    <2> QED BY <2>1, <2>2
  <1> QED BY <1>1, <1>2

LEMMA BecomesRound ==
    ASSUME Shape, NEW p \in Consumers, NEW c \in Round, Becomes(p, c)
    PROVE  /\ consumer' \in [Consumers -> Round]
           /\ consumer'[p] = c
           /\ \A q \in Consumers \ {p} : consumer'[q] = consumer[q]
  BY DEF Shape, Becomes

LEMMA NextShape ==
    ASSUME Shape, HandledInv, [Next]_vars
    PROVE  Shape'
  <1> USE DEF Shape
  <1>1. CASE UNCHANGED vars
    BY <1>1 DEF vars, serverVars, history
  <1>2. CASE Append
    BY <1>2 DEF Append, history
  <1>3. ASSUME NEW d \in Devices, Revoke(d) PROVE Shape'
    BY <1>3 DEF Revoke, history
  <1>4. ASSUME NEW d \in Devices, PairAnew(d) PROVE Shape'
    BY <1>4 DEF PairAnew, history
  <1>5. ASSUME NEW p \in Consumers, List(p) PROVE Shape'
    <2>1. consumer' \in [Consumers -> Round]
      BY <1>5, ListedRound, ConsumerIsOfADevice DEF List, Becomes
    <2> QED BY <1>5, <2>1 DEF List, serverVars, history
  <1>6. ASSUME NEW p \in Consumers, Pass(p) \/ AlreadyDelivered(p) \/ ClaimThrows(p) \/ AckFails(p)
        PROVE Shape'
    <2>1. consumer' \in [Consumers -> Round]
      <3>1. CASE Pass(p) \/ AlreadyDelivered(p)
        <4>1. [consumer[p] EXCEPT !.left = @ \ {Current(p)}] \in Round
          BY RoundSteps
        <4> QED BY <3>1, <4>1, BecomesRound DEF Pass, AlreadyDelivered
      <3>2. CASE ClaimThrows(p) \/ AckFails(p)
        BY <3>2, RoundSteps DEF ClaimThrows, AckFails, Aborts, Gives, Becomes
      <3> QED BY <1>6, <3>1, <3>2
    <2> QED BY <1>6, <2>1 DEF Pass, AlreadyDelivered, ClaimThrows, AckFails, serverVars, history
  <1>7. ASSUME NEW p \in Consumers, Claim(p) PROVE Shape'
    <2>1. ledger' \in Table(Status)
      BY <1>7, TableSteps, ConsumerIsOfADevice DEF Claim, Status
    <2> QED BY <1>7, <2>1, RoundSteps DEF Claim, Becomes, Status, serverVars, history
  <1>8. ASSUME NEW p \in Consumers, Present(p) PROVE Shape'
    <2>1. consumer' \in [Consumers -> Round]
      BY <1>8, RoundSteps DEF Present, Becomes
    <2>2. alerts' \in Table(Nat)
      <3>1. [alerts EXCEPT ![DeviceOf(p)][Current(p)] = @ + 1] \in Table(Nat)
        BY CountSteps, ConsumerIsOfADevice
      <3> QED BY <1>8, <3>1 DEF Present
    <2> QED BY <1>8, <2>1, <2>2 DEF Present, serverVars
  <1>9. ASSUME NEW p \in Consumers, PresentFails(p) PROVE Shape'
    <2> DEFINE d == DeviceOf(p)
               e == Current(p)
    <2>1. d \in Devices
      BY ConsumerIsOfADevice
    <2>2. ledger' \in Table(Status)
      <3>1. [ledger EXCEPT ![d][e] = IF @ = "leased" THEN "free" ELSE @] \in Table(Status)
        BY <2>1, ReleaseSteps
      <3> QED BY <1>9, <3>1 DEF PresentFails
    <2>3. doubts' \in Table(Nat)
      <3>1. [doubts EXCEPT ![d][e] = @ + 1] \in Table(Nat)
        BY <2>1, CountSteps
      <3> QED BY <1>9, <3>1 DEF PresentFails
    <2> QED BY <1>9, <2>2, <2>3, RoundSteps DEF PresentFails, Status, Aborts, Gives, Becomes, serverVars
  <1>10. ASSUME NEW p \in Consumers, Record(p) PROVE Shape'
    <2>1. ledger' \in Table(Status)
      BY <1>10, TableSteps, ConsumerIsOfADevice DEF Record, Status
    <2> QED BY <1>10, <2>1, RoundSteps DEF Record, Becomes, Status, serverVars, history
  <1>11. ASSUME NEW p \in Consumers, Ack(p) PROVE Shape'
    <2>1. consumer[p].id \in Devices \X Nat
      BY <1>11 DEF HandledInv, Ack
    <2>2. deliveredTo' \in [Events -> SUBSET (Devices \X Nat)]
      BY <1>11, <2>1 DEF Ack
    <2> QED BY <1>11, <2>2, RoundSteps DEF Ack, Gives, Becomes, history
  <1>12. ASSUME NEW p \in Consumers, Dies(p) PROVE Shape'
    <2>1. DeviceOf(p) \in Devices
      BY ConsumerIsOfADevice
    <2>2. doubts' \in Table(Nat)
      <3> DEFINE more == [e \in Events |-> IF Holds(p) /\ e = Current(p)
                             THEN doubts[DeviceOf(p)][e] + 1 ELSE doubts[DeviceOf(p)][e]]
      <3>1. doubts[DeviceOf(p)] \in [Events -> Nat]
        BY <2>1 DEF Table
      <3>2. more \in [Events -> Nat]
        BY <3>1
      <3>3. doubts' = [doubts EXCEPT ![DeviceOf(p)] = more]
        BY <1>12 DEF Dies
      <3> HIDE DEF more
      <3> QED BY <3>2, <3>3 DEF Table
    <2> QED BY <1>12, <2>2, RoundSteps DEF Dies, Gives, Becomes, serverVars
  <1>13. ASSUME NEW d \in Devices, NEW e \in Events, LeaseLapses(d, e) PROVE Shape'
    <2>1. ledger' \in Table(Status)
      BY <1>13, TableSteps DEF LeaseLapses, Status
    <2>2. doubts' \in Table(Nat)
      <3>1. [doubts EXCEPT ![d][e] = @ + 1] \in Table(Nat)
        BY CountSteps
      <3> QED BY <1>13, <3>1 DEF LeaseLapses
    <2> QED BY <1>13, <2>1, <2>2 DEF LeaseLapses, Status, serverVars
  <1> QED
    BY <1>1, <1>2, <1>3, <1>4, <1>5, <1>6, <1>7, <1>8, <1>9, <1>10, <1>11, <1>12, <1>13
    DEF Next, Goes, Lapses

-----------------------------------------------------------------------------
(* What is handled stays handled.                                          *)

HandledAfter(d, e) == ledger'[d][e] = "delivered" \/ <<d, e>> \in passed'

LEMMA HandledStays ==
    ASSUME Shape, [Next]_vars, NEW d \in Devices, NEW e \in Events, Handled(d, e)
    PROVE  HandledAfter(d, e)
  <1> USE DEF Handled, HandledAfter
  <1>1. ASSUME UNCHANGED <<ledger, passed>> PROVE HandledAfter(d, e)
    BY <1>1
  <1>2. ASSUME NEW p \in Consumers, Pass(p) PROVE HandledAfter(d, e)
    BY <1>2 DEF Pass
  <1>3. ASSUME NEW p \in Consumers, NEW v \in Status, ledger[DeviceOf(p)][Current(p)] # "delivered" \/ v = "delivered",
               ledger' = [ledger EXCEPT ![DeviceOf(p)][Current(p)] = v], passed' = passed
        PROVE HandledAfter(d, e)
    <2>1. ledger'[d][e] = IF d = DeviceOf(p) /\ e = Current(p) THEN v ELSE ledger[d][e]
      BY <1>3, ConsumerIsOfADevice DEF Shape, Table
    <2> QED BY <1>3, <2>1
  <1>4. ASSUME NEW p \in Consumers, Claim(p) PROVE HandledAfter(d, e)
    <2>1. ledger' = [ledger EXCEPT ![DeviceOf(p)][Current(p)] = "leased"] /\ passed' = passed
          /\ ledger[DeviceOf(p)][Current(p)] # "delivered"
      BY <1>4 DEF Claim, Claimable, history
    <2> QED BY <2>1, <1>3 DEF Status
  <1>5. ASSUME NEW p \in Consumers, Record(p) PROVE HandledAfter(d, e)
    <2>1. ledger' = [ledger EXCEPT ![DeviceOf(p)][Current(p)] = "delivered"] /\ passed' = passed
      BY <1>5 DEF Record, history
    <2> QED BY <2>1, <1>3 DEF Status
  <1>6. ASSUME NEW p \in Consumers, PresentFails(p) PROVE HandledAfter(d, e)
    <2>1. [ledger EXCEPT ![DeviceOf(p)][Current(p)] = IF @ = "leased" THEN "free" ELSE @][d][e]
              = IF d = DeviceOf(p) /\ e = Current(p) /\ ledger[d][e] = "leased" THEN "free" ELSE ledger[d][e]
      BY ConsumerIsOfADevice DEF Shape, Table
    <2>2. ledger' = [ledger EXCEPT ![DeviceOf(p)][Current(p)] = IF @ = "leased" THEN "free" ELSE @]
          /\ passed' = passed
      BY <1>6 DEF PresentFails
    <2> QED BY <2>1, <2>2
  <1>7. ASSUME NEW c \in Devices, NEW f \in Events, LeaseLapses(c, f) PROVE HandledAfter(d, e)
    <2>1. ledger' = [ledger EXCEPT ![c][f] = "free"] /\ passed' = passed /\ ledger[c][f] = "leased"
      BY <1>7 DEF LeaseLapses, Ending
    <2> QED BY <2>1 DEF Shape, Table
  <1>8. ASSUME Append \/ (\E c \in Devices : Revoke(c) \/ PairAnew(c)) \/ UNCHANGED vars
        PROVE HandledAfter(d, e)
    BY <1>8, <1>1 DEF Append, Revoke, PairAnew, vars, serverVars, history
  <1>9. ASSUME NEW p \in Consumers, \/ List(p) \/ AlreadyDelivered(p) \/ ClaimThrows(p) \/ Present(p)
                                    \/ Ack(p) \/ AckFails(p) \/ Dies(p)
        PROVE HandledAfter(d, e)
    BY <1>9, <1>1 DEF List, AlreadyDelivered, ClaimThrows, Present, Ack, AckFails, Dies, serverVars, history
  <1> QED BY <1>2, <1>4, <1>5, <1>6, <1>7, <1>8, <1>9 DEF Next, Goes, Lapses

\* One consumer's round changes, and what is handled in it only grows.
LEMMA RoundHandled ==
    ASSUME Shape, HandledInv, [Next]_vars, UNCHANGED deliveredTo,
           NEW p \in Consumers, NEW c \in Round, Becomes(p, c),
           \A e \in c.items \ c.left : HandledAfter(DeviceOf(p), e),
           c.pc # "idle" => c.id \in Devices \X Nat /\ c.id[1] = DeviceOf(p)
    PROVE  HandledInv'
  <1>1. \A e \in Events : \A id \in deliveredTo'[e] : HandledAfter(id[1], e)
    <2> SUFFICES ASSUME NEW e \in Events, NEW id \in deliveredTo[e] PROVE HandledAfter(id[1], e)
      OBVIOUS
    <2>1. id[1] \in Devices /\ Handled(id[1], e)
      BY DEF Shape, HandledInv
    <2> QED BY <2>1, HandledStays
  <1>2. ASSUME NEW q \in Consumers
        PROVE  /\ \A e \in consumer'[q].items \ consumer'[q].left : HandledAfter(DeviceOf(q), e)
               /\ consumer'[q].pc # "idle" =>
                      consumer'[q].id \in Devices \X Nat /\ consumer'[q].id[1] = DeviceOf(q)
    <2>1. CASE q = p
      BY <2>1, BecomesRound
    <2>2. CASE q # p
      <3>0. consumer'[q] = consumer[q]
        BY <2>2, BecomesRound
      <3>1. consumer'[q] = consumer[q] /\ consumer[q].items \subseteq Events /\ DeviceOf(q) \in Devices
        BY <3>0, ConsumerIsOfADevice DEF Shape, Round
      <3>2. \A e \in consumer[q].items \ consumer[q].left : HandledAfter(DeviceOf(q), e)
        BY <3>1, HandledStays DEF HandledInv
      <3> QED BY <3>1, <3>2 DEF HandledInv
    <2> QED BY <2>1, <2>2
  <1> QED BY <1>1, <1>2 DEF HandledInv, Handled, HandledAfter, DeviceOf

LEMMA NextHandled ==
    ASSUME Shape, HandledInv, [Next]_vars
    PROVE  HandledInv'
  <1>1. ASSUME UNCHANGED <<consumer, deliveredTo>> PROVE HandledInv'
    <2>1. \A e \in Events : \A id \in deliveredTo[e] : HandledAfter(id[1], e)
      BY HandledStays DEF Shape, HandledInv
    <2>2. \A p \in Consumers : \A e \in consumer[p].items \ consumer[p].left : HandledAfter(DeviceOf(p), e)
      BY HandledStays, ConsumerIsOfADevice DEF Shape, HandledInv, Round
    <2> QED BY <1>1, <2>1, <2>2 DEF HandledInv, Handled, HandledAfter, DeviceOf
  <1>2. CASE UNCHANGED vars \/ Append \/ (\E d \in Devices : Revoke(d) \/ PairAnew(d)) \/ Lapses
    BY <1>1, <1>2 DEF Append, Revoke, PairAnew, Lapses, LeaseLapses, vars, serverVars
  <1>3. ASSUME NEW p \in Consumers, List(p) PROVE HandledInv'
    <2> DEFINE c == [pc |-> "showing", id |-> identity[DeviceOf(p)],
                     items |-> Undelivered(identity[DeviceOf(p)]),
                     left |-> Undelivered(identity[DeviceOf(p)])]
    <2>1. c \in Round /\ Becomes(p, c) /\ UNCHANGED deliveredTo
      BY <1>3, ListedRound, ConsumerIsOfADevice DEF List, serverVars
    <2>2. c.items \ c.left = {} /\ c.id \in Devices \X Nat /\ c.id[1] = DeviceOf(p)
      BY ConsumerIsOfADevice DEF Shape
    <2> HIDE DEF c
    <2> QED BY <2>1, <2>2, RoundHandled
  <1>4. ASSUME NEW p \in Consumers, Becomes(p, Idle), UNCHANGED deliveredTo PROVE HandledInv'
    <2>1. Idle \in Round
      BY DEF Idle, Round
    <2>2. Idle.items \ Idle.left = {} /\ Idle.pc = "idle"
      BY DEF Idle
    <2> QED BY <1>4, <2>1, <2>2, RoundHandled
  <1>5. ASSUME NEW p \in Consumers, NEW c \in Round, Becomes(p, c), UNCHANGED deliveredTo,
               consumer[p].pc # "idle", c.id = consumer[p].id, c.items = consumer[p].items,
               c.left = consumer[p].left
                 \/ (c.left = consumer[p].left \ {Current(p)}
                       /\ (Current(p) \in Events => HandledAfter(DeviceOf(p), Current(p))))
        PROVE HandledInv'
    <2>1. consumer[p].items \subseteq Events /\ DeviceOf(p) \in Devices
      BY ConsumerIsOfADevice DEF Shape, Round
    <2>2. \A e \in consumer[p].items \ consumer[p].left : HandledAfter(DeviceOf(p), e)
      BY <2>1, HandledStays DEF HandledInv
    <2>3. \A e \in c.items \ c.left : HandledAfter(DeviceOf(p), e)
      BY <1>5, <2>1, <2>2
    <2>4. c.id \in Devices \X Nat /\ c.id[1] = DeviceOf(p)
      BY <1>5 DEF HandledInv
    <2> QED BY <1>5, <2>3, <2>4, RoundHandled
  <1>6. ASSUME NEW p \in Consumers, Pass(p) \/ AlreadyDelivered(p) PROVE HandledInv'
    <2> DEFINE c == [consumer[p] EXCEPT !.left = @ \ {Current(p)}]
    <2>1. consumer[p] \in Round
      BY DEF Shape
    <2>2. c \in Round
      BY <2>1, RoundSteps
    <2>3. c.id = consumer[p].id /\ c.items = consumer[p].items /\ c.left = consumer[p].left \ {Current(p)}
      BY <2>1 DEF Round
    <2>4. Becomes(p, c) /\ UNCHANGED deliveredTo /\ consumer[p].pc # "idle"
      BY <1>6 DEF Pass, AlreadyDelivered, Takes, Shows, serverVars
    <2>5. HandledAfter(DeviceOf(p), Current(p))
      BY <1>6 DEF Pass, AlreadyDelivered, HandledAfter, serverVars
    <2> HIDE DEF c
    <2> QED BY <1>5, <2>2, <2>3, <2>4, <2>5
  <1>7. ASSUME NEW p \in Consumers, Claim(p) PROVE HandledInv'
    <2> DEFINE c == [consumer[p] EXCEPT !.pc = "held"]
    <2>0. consumer[p] \in Round
      BY DEF Shape
    <2>1. c \in Round /\ c.id = consumer[p].id /\ c.items = consumer[p].items /\ c.left = consumer[p].left
      BY <2>0, RoundSteps DEF Round
    <2>2. Becomes(p, c) /\ UNCHANGED deliveredTo /\ consumer[p].pc # "idle"
      BY <1>7 DEF Claim, Takes, Shows, serverVars
    <2> HIDE DEF c
    <2> QED BY <1>5, <2>1, <2>2
  <1>8. ASSUME NEW p \in Consumers, Present(p) PROVE HandledInv'
    <2> DEFINE c == [consumer[p] EXCEPT !.pc = "shown"]
    <2>0. consumer[p] \in Round
      BY DEF Shape
    <2>1. c \in Round /\ c.id = consumer[p].id /\ c.items = consumer[p].items /\ c.left = consumer[p].left
      BY <2>0, RoundSteps DEF Round
    <2>2. Becomes(p, c) /\ UNCHANGED deliveredTo /\ consumer[p].pc # "idle"
      BY <1>8 DEF Present, serverVars
    <2> HIDE DEF c
    <2> QED BY <1>5, <2>1, <2>2
  <1>9. ASSUME NEW p \in Consumers, Record(p) PROVE HandledInv'
    <2> DEFINE c == [consumer[p] EXCEPT !.pc = "showing", !.left = @ \ {Current(p)}]
    <2>1. consumer[p] \in Round
      BY DEF Shape
    <2>2. c \in Round
      BY <2>1, RoundSteps
    <2>3. c.id = consumer[p].id /\ c.items = consumer[p].items /\ c.left = consumer[p].left \ {Current(p)}
      BY <2>1 DEF Round
    <2>4. Becomes(p, c) /\ UNCHANGED deliveredTo /\ consumer[p].pc # "idle"
      BY <1>9 DEF Record, serverVars
    <2>5. ASSUME Current(p) \in Events PROVE HandledAfter(DeviceOf(p), Current(p))
      <3>1. ledger' = [ledger EXCEPT ![DeviceOf(p)][Current(p)] = "delivered"]
        BY <1>9 DEF Record
      <3>2. ledger'[DeviceOf(p)][Current(p)] = "delivered"
        BY <2>5, <3>1, ConsumerIsOfADevice DEF Shape, Table
      <3> QED BY <3>2 DEF HandledAfter
    <2> HIDE DEF c
    <2> QED BY <1>5, <2>2, <2>3, <2>4, <2>5
  <1>10. ASSUME NEW p \in Consumers, ClaimThrows(p) \/ PresentFails(p) \/ AckFails(p) \/ Dies(p)
         PROVE HandledInv'
    BY <1>4, <1>10 DEF ClaimThrows, PresentFails, AckFails, Dies, Aborts, Gives, serverVars
  <1>11. ASSUME NEW p \in Consumers, Ack(p) PROVE HandledInv'
    <2>1. Idle \in Round /\ Becomes(p, Idle) /\ ledger' = ledger /\ passed' = passed
      BY <1>11 DEF Idle, Round, Ack, Gives, history
    <2>2. consumer'[p] = Idle /\ \A q \in Consumers \ {p} : consumer'[q] = consumer[q]
      BY <2>1, BecomesRound
    <2>3. ASSUME NEW e \in Events, NEW id \in deliveredTo'[e] PROVE Handled(id[1], e)
      <3>1. CASE id \in deliveredTo[e]
        BY <3>1 DEF HandledInv
      <3>2. CASE id \notin deliveredTo[e]
        <4>1. e \in consumer[p].items /\ id = consumer[p].id /\ consumer[p].left = {}
          BY <1>11, <2>3, <3>2 DEF Ack, Acknowledged
        <4>2. id[1] = DeviceOf(p)
          BY <1>11, <4>1 DEF HandledInv, Ack
        <4> QED BY <4>1, <4>2 DEF HandledInv
      <3> QED BY <3>1, <3>2
    <2> QED BY <2>1, <2>2, <2>3 DEF HandledInv, Handled, DeviceOf, Idle
  <1> QED
    BY <1>2, <1>3, <1>6, <1>7, <1>8, <1>9, <1>10, <1>11 DEF Next, Goes

-----------------------------------------------------------------------------
(* Every prospect of an alert is paid for.                                 *)

\* A step of one consumer changes the prospects by what it alerts and what it
\* takes or lets go; only that consumer may have ceased to hold something.
LEMMA OneConsumer ==
    ASSUME Shape, Shape', NEW p \in Consumers,
           \A q \in Consumers \ {p} : consumer'[q] = consumer[q],
           NEW d \in Devices, NEW e \in Events
    PROVE  /\ Prospects(d, e)' = Prospects(d, e) + alerts'[d][e] - alerts[d][e]
                                   + (IF d = DeviceOf(p) THEN Bit(p, e)' - Bit(p, e) ELSE 0)
           /\ Holders(d, e)' = {} /\ ~(DeviceOf(p) = d /\ Holds(p) /\ Current(p) = e)
                => Holders(d, e) = {}
  <1>1. \A q \in Consumers \ {p} : Bit(q, e)' = Bit(q, e)
    BY DEF Bit, Current
  <1>2. alerts[d][e] \in Nat /\ alerts'[d][e] \in Nat
    BY DEF Shape, Table
  <1>3. \A q \in Consumers : Bit(q, e) \in {0, 1} /\ Bit(q, e)' \in {0, 1}
    BY DEF Bit
  <1>4. \A k : <<d, k>> # p => Holding(d, k, e)' = Holding(d, k, e)
    BY <1>1 DEF Holding
  <1>5. \A k : <<d, k>> = p => /\ Holding(d, k, e)' = Bit(p, e)' /\ Holding(d, k, e) = Bit(p, e)
                               /\ d = DeviceOf(p)
    BY DEF Holding, DeviceOf
  <1>6. \A k : Holding(d, k, e) \in {0, 1} /\ Holding(d, k, e)' \in {0, 1}
    BY <1>3 DEF Holding
  <1>7. Prospects(d, e)' = Prospects(d, e) + alerts'[d][e] - alerts[d][e]
                             + (IF d = DeviceOf(p) THEN Bit(p, e)' - Bit(p, e) ELSE 0)
    <2>1. CASE p = <<d, "foreground">>
      <3>1. <<d, "background">> # p
        BY <2>1
      <3> QED BY <1>2, <1>3, <1>4, <1>5, <1>6, <2>1, <3>1 DEF Prospects
    <2>2. CASE p = <<d, "background">>
      <3>1. <<d, "foreground">> # p
        BY <2>2
      <3> QED BY <1>2, <1>3, <1>4, <1>5, <1>6, <2>2, <3>1 DEF Prospects
    <2>3. CASE d # DeviceOf(p)
      <3>1. <<d, "foreground">> # p /\ <<d, "background">> # p
        BY <2>3 DEF DeviceOf
      <3> QED BY <1>2, <1>4, <1>6, <2>3, <3>1 DEF Prospects
    <2> QED BY <2>1, <2>2, <2>3, ConsumerIsOfADevice
  <1>8. Holders(d, e)' = {} /\ ~(DeviceOf(p) = d /\ Holds(p) /\ Current(p) = e) => Holders(d, e) = {}
    BY DEF Holders, Holds, Current, DeviceOf
  <1> QED BY <1>7, <1>8

\* Where a step leaves the tables alone, and its consumer's hold, all is paid.
LEMMA QuietPaid ==
    ASSUME Shape, Shape', NEW p \in Consumers,
           \A q \in Consumers \ {p} : consumer'[q] = consumer[q],
           NEW d \in Devices, NEW e \in Events, Paid(d, e),
           ledger'[d][e] = ledger[d][e], alerts'[d][e] = alerts[d][e], doubts'[d][e] = doubts[d][e],
           d = DeviceOf(p) => /\ Bit(p, e)' = Bit(p, e)
                              /\ Holds(p) /\ Current(p) = e => Holds(p)' /\ Current(p)' = e
    PROVE  Paid(d, e)'
  <1>1. Prospects(d, e) \in Nat
    BY DEF Prospects, Holding, Bit, Shape, Table
  <1>2. Prospects(d, e)' = Prospects(d, e)
    <2>1. alerts[d][e] \in Nat /\ Bit(p, e) \in {0, 1}
      BY DEF Shape, Table, Bit
    <2> QED BY <1>1, <2>1, OneConsumer
  <1>3. Free(d, e)' = Free(d, e)
    BY DEF Free
  <1>4. Holders(d, e)' = {} => Holders(d, e) = {}
    <2>1. CASE d = DeviceOf(p) /\ Holds(p) /\ Current(p) = e
      <3>1. p \in Holders(d, e)'
        BY <2>1 DEF Holders, DeviceOf
      <3> QED BY <3>1
    <2> QED BY <2>1, OneConsumer
  <1> QED BY <1>2, <1>3, <1>4 DEF Paid

\* Where it touches them: what it adds is paid for, and a claim left to nobody too.
LEMMA TouchedPaid ==
    ASSUME Shape, Shape', NEW p \in Consumers,
           \A q \in Consumers \ {p} : consumer'[q] = consumer[q],
           NEW d \in Devices, NEW e \in Events, Paid(d, e), d = DeviceOf(p),
           (alerts'[d][e] - alerts[d][e]) + (Bit(p, e)' - Bit(p, e)) + (Free(d, e)' - Free(d, e))
               <= doubts'[d][e] - doubts[d][e],
           \/ ledger'[d][e] # "leased"
           \/ Holds(p)' /\ Current(p)' = e
           \/ /\ alerts'[d][e] = alerts[d][e] /\ Bit(p, e)' <= Bit(p, e)
              /\ doubts'[d][e] = doubts[d][e] + 1
    PROVE  Paid(d, e)'
  <1>1. Prospects(d, e) \in Nat
    BY DEF Prospects, Holding, Bit, Shape, Table
  <1>2. /\ alerts[d][e] \in Nat /\ alerts'[d][e] \in Nat /\ doubts[d][e] \in Nat /\ doubts'[d][e] \in Nat
        /\ Bit(p, e) \in {0, 1} /\ Bit(p, e)' \in {0, 1} /\ Free(d, e) \in {0, 1} /\ Free(d, e)' \in {0, 1}
    BY DEF Shape, Table, Bit, Free
  <1>3. Prospects(d, e)' = Prospects(d, e) + alerts'[d][e] - alerts[d][e] + (Bit(p, e)' - Bit(p, e))
    BY OneConsumer
  <1>4. Prospects(d, e) + Free(d, e) <= 1 + doubts[d][e]
    BY DEF Paid
  <1>5. Prospects(d, e)' + Free(d, e)' <= 1 + doubts'[d][e]
    BY <1>1, <1>2, <1>3, <1>4
  <1>6. ASSUME ledger'[d][e] = "leased", Holders(d, e)' = {} PROVE Prospects(d, e)' <= doubts'[d][e]
    <2>1. ~(Holds(p)' /\ Current(p)' = e)
      <3>1. p \notin Holders(d, e)'
        BY <1>6
      <3> QED BY <3>1 DEF Holders, DeviceOf
    <2>2. /\ alerts'[d][e] = alerts[d][e] /\ Bit(p, e)' <= Bit(p, e)
          /\ doubts'[d][e] = doubts[d][e] + 1
      BY <1>6, <2>1
    <2> QED BY <1>1, <1>2, <1>3, <1>4, <2>2
  <1> QED BY <1>5, <1>6 DEF Paid

\* A consumer that holds nothing changes nothing but its own round.
LEMMA LooseRound ==
    ASSUME Shape, Shape', AlertInv, NEW p \in Consumers, ~Holds(p),
           \A q \in Consumers \ {p} : consumer'[q] = consumer[q], ~Holds(p)',
           UNCHANGED <<ledger, alerts, doubts>>
    PROVE  AlertInv'
  <1> SUFFICES ASSUME NEW d \in Devices, NEW e \in Events PROVE Paid(d, e)'
    BY DEF AlertInv
  <1>1. Bit(p, e) = 0 /\ Bit(p, e)' = 0
    BY DEF Bit, Holds
  <1>2. Paid(d, e)
    BY DEF AlertInv
  <1> QED BY <1>1, <1>2, QuietPaid

\* Where no round changes, nor does what the consumers hold.
LEMMA RoundsStay ==
    ASSUME UNCHANGED consumer, NEW d \in Devices, NEW e \in Events, alerts'[d][e] = alerts[d][e]
    PROVE  Prospects(d, e)' = Prospects(d, e) /\ Holders(d, e)' = Holders(d, e)
  <1>1. \A p : Bit(p, e)' = Bit(p, e)
    BY DEF Bit, Current
  <1>2. Prospects(d, e)' = Prospects(d, e)
    BY <1>1 DEF Prospects, Holding
  <1>3. Holders(d, e)' = Holders(d, e)
    BY DEF Holders, Holds, Current, DeviceOf
  <1> QED BY <1>2, <1>3

LEMMA StillPaid ==
    ASSUME UNCHANGED consumer, NEW d \in Devices, NEW e \in Events, Paid(d, e),
           ledger'[d][e] = ledger[d][e], alerts'[d][e] = alerts[d][e], doubts'[d][e] = doubts[d][e]
    PROVE  Paid(d, e)'
  BY RoundsStay DEF Paid, Free

\* A step about the event at hand leaves the others paid.
LEMMA OthersPaid ==
    ASSUME Shape, Shape', AlertInv, NEW p \in Consumers, NEW x, x = Current(p),
           NEW c \in Round, Becomes(p, c),
           c.left = consumer[p].left \/ c.pc \in {"idle", "showing"},
           \A d \in Devices, e \in Events : (d = DeviceOf(p) /\ e = x)
               \/ /\ ledger'[d][e] = ledger[d][e]
                  /\ alerts'[d][e] = alerts[d][e] /\ doubts'[d][e] = doubts[d][e],
           x \in Events => Paid(DeviceOf(p), x)'
    PROVE  AlertInv'
  <1> SUFFICES ASSUME NEW d \in Devices, NEW e \in Events, ~(d = DeviceOf(p) /\ e = x)
               PROVE  Paid(d, e)'
    BY DEF AlertInv
  <1>1. \A q \in Consumers \ {p} : consumer'[q] = consumer[q]
    BY BecomesRound
  <1>2. Paid(d, e)
    BY DEF AlertInv
  <1>3. ASSUME d = DeviceOf(p) PROVE Bit(p, e)' = Bit(p, e) /\ ~(Holds(p) /\ Current(p) = e)
    <2>1. e # x
      BY <1>3
    <2>2. CASE c.left = consumer[p].left
      <3>1. Current(p)' = x
        BY <2>2, BecomesRound DEF Current
      <3> QED BY <2>1, <3>1 DEF Bit
    <2>3. CASE c.pc \in {"idle", "showing"}
      BY <2>1, <2>3, BecomesRound DEF Bit
    <2> QED BY <2>1, <2>2, <2>3
  <1> QED BY <1>1, <1>2, <1>3, QuietPaid

LEMMA NextAlerts ==
    ASSUME Shape, Shape', HandledInv, AlertInv, [Next]_vars
    PROVE  AlertInv'
  <1>1. CASE UNCHANGED vars \/ Append \/ (\E d \in Devices : Revoke(d) \/ PairAnew(d))
    BY <1>1, StillPaid DEF AlertInv, Append, Revoke, PairAnew, vars, serverVars, history
  <1>2. ASSUME NEW p \in Consumers, \/ List(p) \/ Pass(p) \/ AlreadyDelivered(p) \/ ClaimThrows(p)
                                    \/ Ack(p) \/ AckFails(p)
        PROVE AlertInv'
    <2>1. \E c \in Round : Becomes(p, c) /\ c.pc \in {"idle", "showing"}
      <3>1. consumer[p] \in Round /\ Idle \in Round /\ Idle.pc = "idle"
        BY DEF Shape, Idle, Round
      <3>2. CASE List(p)
        BY <3>2, ListedRound, ConsumerIsOfADevice DEF List
      <3>3. CASE Pass(p) \/ AlreadyDelivered(p)
        <4> DEFINE c == [consumer[p] EXCEPT !.left = @ \ {Current(p)}]
        <4>1. c \in Round /\ c.pc = consumer[p].pc
          BY <3>1, RoundSteps DEF Round
        <4>2. Becomes(p, c) /\ consumer[p].pc = "showing"
          BY <3>3 DEF Pass, AlreadyDelivered, Takes, Shows
        <4> HIDE DEF c
        <4> QED BY <4>1, <4>2
      <3>4. CASE ClaimThrows(p) \/ Ack(p) \/ AckFails(p)
        BY <3>1, <3>4 DEF ClaimThrows, Ack, AckFails, Aborts, Gives
      <3> QED BY <1>2, <3>2, <3>3, <3>4
    <2>2. PICK c \in Round : Becomes(p, c) /\ c.pc \in {"idle", "showing"}
      BY <2>1
    <2>3. ~Holds(p)'
      BY <2>2, BecomesRound DEF Holds
    <2>4. ~Holds(p)
      BY <1>2 DEF List, Pass, AlreadyDelivered, ClaimThrows, Ack, AckFails, Takes, Shows, Holds, Idle
    <2>5. \A q \in Consumers \ {p} : consumer'[q] = consumer[q]
      BY <2>2, BecomesRound
    <2>6. UNCHANGED <<ledger, alerts, doubts>>
      BY <1>2 DEF List, Pass, AlreadyDelivered, ClaimThrows, Ack, AckFails, serverVars, history
    <2> QED BY <2>3, <2>4, <2>5, <2>6, LooseRound
  <1>3. ASSUME NEW p \in Consumers, NEW x, x = Current(p), x \in Events
        PROVE  /\ Paid(DeviceOf(p), x) /\ DeviceOf(p) \in Devices /\ consumer[p] \in Round
               /\ ledger[DeviceOf(p)][x] \in Status
               /\ alerts[DeviceOf(p)][x] \in Nat /\ doubts[DeviceOf(p)][x] \in Nat
    BY <1>3, ConsumerIsOfADevice DEF AlertInv, Shape, Table
  <1>4. ASSUME NEW p \in Consumers, Claim(p) PROVE AlertInv'
    <2> DEFINE c == [consumer[p] EXCEPT !.pc = "held"]
               d == DeviceOf(p)
    <2>1. PICK x : x = Current(p)
      OBVIOUS
    <2>2. consumer[p] \in Round /\ d \in Devices
      BY ConsumerIsOfADevice DEF Shape
    <2>3. c \in Round /\ c.left = consumer[p].left /\ c.pc = "held" /\ Becomes(p, c)
      BY <1>4, <2>2, RoundSteps DEF Claim, Round
    <2> HIDE DEF c
    <2>4. ledger' = [ledger EXCEPT ![d][x] = "leased"] /\ UNCHANGED <<alerts, doubts>>
          /\ ledger[d][x] = "free" /\ consumer[p].pc = "showing"
      BY <1>4, <2>1 DEF Claim, Claimable, Shows, Takes, history
    <2>5. \A b \in Devices, e \in Events :
              ledger'[b][e] = IF b = d /\ e = x THEN "leased" ELSE ledger[b][e]
      BY <2>2, <2>4 DEF Shape, Table
    <2>6. ASSUME x \in Events PROVE Paid(d, x)'
      <3>1. consumer'[p] = c /\ \A q \in Consumers \ {p} : consumer'[q] = consumer[q]
        BY <2>3, BecomesRound
      <3>2. Bit(p, x) = 0 /\ Bit(p, x)' = 1 /\ Holds(p)' /\ Current(p)' = x
        BY <2>1, <2>3, <2>4, <3>1 DEF Bit, Current, Holds
      <3>3. Free(d, x) = 1 /\ Free(d, x)' = 0
        BY <2>2, <2>4, <2>5, <2>6 DEF Free
      <3>4. /\ Paid(d, x) /\ alerts[d][x] \in Nat /\ doubts[d][x] \in Nat
            /\ alerts'[d][x] = alerts[d][x] /\ doubts'[d][x] = doubts[d][x]
        BY <1>3, <2>1, <2>4, <2>6
      <3> QED BY <2>2, <2>6, <3>1, <3>2, <3>3, <3>4, TouchedPaid
    <2> QED BY <2>1, <2>3, <2>4, <2>5, <2>6, OthersPaid
  <1>5. ASSUME NEW p \in Consumers, Present(p) PROVE AlertInv'
    <2> DEFINE c == [consumer[p] EXCEPT !.pc = "shown"]
               d == DeviceOf(p)
    <2>1. PICK x : x = Current(p)
      OBVIOUS
    <2>2. consumer[p] \in Round /\ d \in Devices
      BY ConsumerIsOfADevice DEF Shape
    <2>3. c \in Round /\ c.left = consumer[p].left /\ c.pc = "shown" /\ Becomes(p, c)
      BY <1>5, <2>2, RoundSteps DEF Present, Round
    <2> HIDE DEF c
    <2>4. /\ UNCHANGED <<ledger, doubts>> /\ consumer[p].pc = "held"
          /\ alerts' = [alerts EXCEPT ![d][x] = @ + 1] \/ alerts' = alerts
      BY <1>5, <2>1 DEF Present
    <2>5. \A b \in Devices, e \in Events :
              alerts'[b][e] = alerts[b][e] \/ (b = d /\ e = x /\ alerts'[b][e] = alerts[b][e] + 1)
      <3>1. alerts \in Table(Nat)
        BY DEF Shape
      <3>2. \A b \in Devices, e \in Events :
                [alerts EXCEPT ![d][x] = @ + 1][b][e] = IF b = d /\ e = x THEN alerts[b][e] + 1 ELSE alerts[b][e]
        BY <2>2, <3>1 DEF Table
      <3>3. CASE alerts' = [alerts EXCEPT ![d][x] = @ + 1]
        BY <3>2, <3>3
      <3> QED BY <2>4, <3>3
    <2>6. ASSUME x \in Events PROVE Paid(d, x)'
      <3>1. consumer'[p] = c /\ \A q \in Consumers \ {p} : consumer'[q] = consumer[q]
        BY <2>3, BecomesRound
      <3>2. Bit(p, x) = 1 /\ Bit(p, x)' = 0 /\ Holds(p)' /\ Current(p)' = x
        BY <2>1, <2>3, <2>4, <3>1 DEF Bit, Current, Holds
      <3>3. Free(d, x)' = Free(d, x) /\ Free(d, x) \in {0, 1}
        BY <2>4 DEF Free
      <3>4. /\ Paid(d, x) /\ alerts[d][x] \in Nat /\ doubts[d][x] \in Nat /\ doubts'[d][x] = doubts[d][x]
            /\ alerts'[d][x] = alerts[d][x] \/ alerts'[d][x] = alerts[d][x] + 1
        BY <1>3, <2>1, <2>2, <2>4, <2>5, <2>6
      <3> QED BY <2>2, <2>6, <3>1, <3>2, <3>3, <3>4, TouchedPaid
    <2> QED BY <2>1, <2>3, <2>4, <2>5, <2>6, OthersPaid
  <1>6. ASSUME NEW p \in Consumers, Record(p) PROVE AlertInv'
    <2> DEFINE c == [consumer[p] EXCEPT !.pc = "showing", !.left = @ \ {Current(p)}]
               d == DeviceOf(p)
    <2>1. PICK x : x = Current(p)
      OBVIOUS
    <2>2. consumer[p] \in Round /\ d \in Devices
      BY ConsumerIsOfADevice DEF Shape
    <2>3. c \in Round /\ c.pc = "showing" /\ Becomes(p, c)
      BY <1>6, <2>2, RoundSteps DEF Record, Round
    <2> HIDE DEF c
    <2>4. ledger' = [ledger EXCEPT ![d][x] = "delivered"] /\ UNCHANGED <<alerts, doubts>>
          /\ consumer[p].pc = "shown"
      BY <1>6, <2>1 DEF Record, history
    <2>5. \A b \in Devices, e \in Events :
              ledger'[b][e] = IF b = d /\ e = x THEN "delivered" ELSE ledger[b][e]
      BY <2>2, <2>4 DEF Shape, Table
    <2>6. ASSUME x \in Events PROVE Paid(d, x)'
      <3>1. consumer'[p] = c /\ \A q \in Consumers \ {p} : consumer'[q] = consumer[q]
        BY <2>3, BecomesRound
      <3>2. Bit(p, x) = 0 /\ Bit(p, x)' = 0
        BY <2>3, <2>4, <3>1 DEF Bit
      <3>3. Free(d, x) \in {0, 1} /\ Free(d, x)' = 0 /\ ledger'[d][x] # "leased"
        BY <2>2, <2>5, <2>6 DEF Free
      <3>4. /\ Paid(d, x) /\ alerts[d][x] \in Nat /\ doubts[d][x] \in Nat
            /\ alerts'[d][x] = alerts[d][x] /\ doubts'[d][x] = doubts[d][x]
        BY <1>3, <2>1, <2>4, <2>6
      <3> QED BY <2>2, <2>6, <3>1, <3>2, <3>3, <3>4, TouchedPaid
    <2> QED BY <2>1, <2>3, <2>4, <2>5, <2>6, OthersPaid
  <1>7. ASSUME NEW p \in Consumers, PresentFails(p) PROVE AlertInv'
    <2> DEFINE d == DeviceOf(p)
    <2>1. PICK x : x = Current(p)
      OBVIOUS
    <2>2. ledger \in Table(Status) /\ doubts \in Table(Nat) /\ d \in Devices
      BY ConsumerIsOfADevice DEF Shape
    <2>3. Idle \in Round /\ Idle.pc = "idle" /\ Becomes(p, Idle) /\ Holds(p)
      BY <1>7 DEF PresentFails, Aborts, Gives, Idle, Round
    <2>4. /\ ledger' = [ledger EXCEPT ![d][x] = IF @ = "leased" THEN "free" ELSE @]
          /\ doubts' = IF consumer[p].pc = "shown" THEN [doubts EXCEPT ![d][x] = @ + 1] ELSE doubts
          /\ UNCHANGED alerts
      BY <1>7, <2>1 DEF PresentFails
    <2>5. \A b \in Devices, e \in Events :
              ledger'[b][e] = IF b = d /\ e = x /\ ledger[b][e] = "leased" THEN "free" ELSE ledger[b][e]
      <3>1. \A b \in Devices, e \in Events :
                [ledger EXCEPT ![d][x] = IF @ = "leased" THEN "free" ELSE @][b][e]
                    = IF b = d /\ e = x /\ ledger[b][e] = "leased" THEN "free" ELSE ledger[b][e]
        BY <2>2 DEF Table
      <3> QED BY <2>4, <3>1
    <2>6. \A b \in Devices, e \in Events :
              doubts'[b][e] = IF b = d /\ e = x /\ consumer[p].pc = "shown" THEN doubts[b][e] + 1 ELSE doubts[b][e]
      <3>1. \A b \in Devices, e \in Events :
                [doubts EXCEPT ![d][x] = @ + 1][b][e] = IF b = d /\ e = x THEN doubts[b][e] + 1 ELSE doubts[b][e]
        BY <2>2 DEF Table
      <3>2. CASE consumer[p].pc = "shown"
        <4>1. doubts' = [doubts EXCEPT ![d][x] = @ + 1]
          BY <2>4, <3>2
        <4> QED BY <3>1, <3>2, <4>1
      <3>3. CASE consumer[p].pc # "shown"
        BY <2>4, <3>3
      <3> QED BY <3>2, <3>3
    <2>7. ASSUME x \in Events PROVE Paid(d, x)'
      <3>1. consumer'[p] = Idle /\ \A q \in Consumers \ {p} : consumer'[q] = consumer[q]
        BY <2>3, BecomesRound
      <3>2. Bit(p, x) = (IF consumer[p].pc = "held" THEN 1 ELSE 0) /\ Bit(p, x)' = 0
        BY <2>1, <2>3, <3>1 DEF Bit
      <3>3. Free(d, x) \in {0, 1} /\ Free(d, x)' \in {0, 1}
            /\ (ledger[d][x] # "leased" => Free(d, x)' = Free(d, x)) /\ ledger'[d][x] # "leased"
        BY <2>2, <2>5, <2>7 DEF Free
      <3>4. /\ Paid(d, x) /\ alerts[d][x] \in Nat /\ doubts[d][x] \in Nat /\ alerts'[d][x] = alerts[d][x]
            /\ doubts'[d][x] = IF consumer[p].pc = "shown" THEN doubts[d][x] + 1 ELSE doubts[d][x]
        BY <1>3, <2>1, <2>2, <2>4, <2>6, <2>7
      <3>5. CASE consumer[p].pc = "shown"
        BY <2>2, <2>7, <3>1, <3>2, <3>3, <3>4, <3>5, TouchedPaid
      <3>6. CASE consumer[p].pc = "held"
        BY <2>2, <2>7, <3>1, <3>2, <3>3, <3>4, <3>6, TouchedPaid
      <3> QED BY <2>3, <3>5, <3>6 DEF Holds
    <2>8. \A b \in Devices, e \in Events : (b = d /\ e = x)
              \/ /\ ledger'[b][e] = ledger[b][e]
                 /\ alerts'[b][e] = alerts[b][e] /\ doubts'[b][e] = doubts[b][e]
      BY <2>4, <2>5, <2>6
    <2> QED BY <2>1, <2>3, <2>7, <2>8, OthersPaid
  <1>8. ASSUME NEW p \in Consumers, Dies(p) PROVE AlertInv'
    <2> DEFINE d == DeviceOf(p)
    <2>1. PICK x : x = Current(p)
      OBVIOUS
    <2>2. doubts \in Table(Nat) /\ d \in Devices
      BY ConsumerIsOfADevice DEF Shape
    <2>3. Idle \in Round /\ Idle.pc = "idle" /\ Becomes(p, Idle)
      BY <1>8 DEF Dies, Gives, Idle, Round
    <2>4. consumer'[p] = Idle /\ \A q \in Consumers \ {p} : consumer'[q] = consumer[q]
      BY <2>3, BecomesRound
    <2>5. \A b \in Devices, e \in Events :
              doubts'[b][e] = IF b = d /\ Holds(p) /\ e = x THEN doubts[b][e] + 1 ELSE doubts[b][e]
      <3>1. doubts' = [doubts EXCEPT ![d] = [e \in Events |->
                           IF Holds(p) /\ e = x THEN doubts[d][e] + 1 ELSE doubts[d][e]]]
        BY <1>8, <2>1 DEF Dies
      <3> QED BY <2>2, <3>1 DEF Table
    <2>6. UNCHANGED <<ledger, alerts>>
      BY <1>8 DEF Dies
    <2>7. CASE Holds(p)
      <3>1. ASSUME x \in Events PROVE Paid(d, x)'
        <4>1. Bit(p, x) \in {0, 1} /\ Bit(p, x)' = 0
          BY <2>3, <2>4 DEF Bit
        <4>2. Free(d, x) \in {0, 1} /\ Free(d, x)' = Free(d, x)
          BY <2>6 DEF Free
        <4>3. /\ Paid(d, x) /\ alerts[d][x] \in Nat /\ doubts[d][x] \in Nat
              /\ alerts'[d][x] = alerts[d][x] /\ doubts'[d][x] = doubts[d][x] + 1
          BY <1>3, <2>1, <2>2, <2>5, <2>6, <2>7, <3>1
        <4> QED BY <2>2, <2>4, <3>1, <4>1, <4>2, <4>3, TouchedPaid
      <3> QED BY <2>1, <2>3, <2>5, <2>6, <3>1, OthersPaid
    <2>8. CASE ~Holds(p)
      <3> SUFFICES ASSUME NEW b \in Devices, NEW e \in Events PROVE Paid(b, e)'
        BY DEF AlertInv
      <3>1. Bit(p, e) = 0 /\ Bit(p, e)' = 0
        BY <2>3, <2>4, <2>8 DEF Bit, Holds
      <3>2. Paid(b, e)
        BY DEF AlertInv
      <3>3. doubts'[b][e] = doubts[b][e]
        BY <2>5, <2>8
      <3> QED BY <2>4, <2>6, <2>8, <3>1, <3>2, <3>3, QuietPaid
    <2> QED BY <2>7, <2>8
  <1>9. ASSUME NEW d \in Devices, NEW x \in Events, LeaseLapses(d, x) PROVE AlertInv'
    <2> SUFFICES ASSUME NEW b \in Devices, NEW e \in Events PROVE Paid(b, e)'
      BY DEF AlertInv
    <2>1. ledger' = [ledger EXCEPT ![d][x] = "free"] /\ UNCHANGED <<consumer, alerts>>
          /\ ledger[d][x] = "leased"
      BY <1>9 DEF LeaseLapses, Ending
    <2>2. ledger'[b][e] = IF b = d /\ e = x THEN "free" ELSE ledger[b][e]
      BY <2>1 DEF Shape, Table
    <2>3. doubts'[b][e] = IF b = d /\ e = x /\ Holders(d, x) # {} THEN doubts[b][e] + 1 ELSE doubts[b][e]
      <3>1. [doubts EXCEPT ![d][x] = @ + 1][b][e] = IF b = d /\ e = x THEN doubts[b][e] + 1 ELSE doubts[b][e]
        BY DEF Shape, Table
      <3>2. CASE Holders(d, x) = {}
        BY <1>9, <3>2 DEF LeaseLapses
      <3>3. CASE Holders(d, x) # {}
        <4>1. doubts' = [doubts EXCEPT ![d][x] = @ + 1]
          BY <1>9, <3>3 DEF LeaseLapses
        <4> QED BY <3>1, <3>3, <4>1
      <3> QED BY <3>2, <3>3
    <2>4. Paid(b, e) /\ doubts[b][e] \in Nat
      BY DEF AlertInv, Shape, Table
    <2>5. CASE b = d /\ e = x
      <3>1. Prospects(b, e)' = Prospects(b, e) /\ Holders(b, e)' = Holders(b, e)
        BY <2>1, RoundsStay
      <3>2. Free(b, e) = 0 /\ Free(b, e)' = 1 /\ ledger'[b][e] # "leased"
        BY <2>1, <2>2, <2>5 DEF Free
      <3>3. Prospects(b, e) \in Nat
        BY DEF Prospects, Holding, Bit, Shape, Table
      <3> QED BY <2>1, <2>3, <2>4, <2>5, <3>1, <3>2, <3>3 DEF Paid
    <2>6. CASE ~(b = d /\ e = x)
      BY <2>1, <2>2, <2>3, <2>4, <2>6, StillPaid
    <2> QED BY <2>5, <2>6
  <1> QED
    BY <1>1, <1>2, <1>4, <1>5, <1>6, <1>7, <1>8, <1>9 DEF Next, Goes, Lapses

-----------------------------------------------------------------------------
(* The feed and the rounds that list from it.                              *)

\* The parts of TypeOK that a step of a consumer's round can disturb.
RoundOf(c, events) ==
    /\ c.pc \in {"idle", "showing", "held", "shown"}
    /\ c.left \subseteq c.items /\ c.items \subseteq events \ Legacy

LEMMA RoundTypes ==
    ASSUME Shape, TypeOK, NEW p \in Consumers, NEW c \in Round, Becomes(p, c), RoundOf(c, feed),
           UNCHANGED <<feed, admitted, identity>>, ledger' \in Table(Status),
           \A e \in Events : deliveredTo'[e] # {} => e \in feed
    PROVE  TypeOK'
  <1>1. \A q \in Consumers : RoundOf(consumer'[q], feed)
    BY BecomesRound DEF TypeOK, RoundOf
  <1> QED BY <1>1 DEF TypeOK, RoundOf, Table, Status

LEMMA InitTypes == Init => TypeOK
  BY EventsAssumption DEF Init, TypeOK, IdsOf, Idle, Events

LEMMA NextTypes ==
    ASSUME Shape, Shape', TypeOK, [Next]_vars
    PROVE  TypeOK'
  <1>0. ledger' \in Table(Status) /\ Idle \in Round /\ RoundOf(Idle, feed)
    BY DEF Shape, Round, Idle, RoundOf
  <1>1. \A p \in Consumers : consumer[p] \in Round /\ RoundOf(consumer[p], feed)
    BY DEF Shape, TypeOK, RoundOf
  <1>2. \A e \in Events : deliveredTo[e] # {} => e \in feed
    BY DEF TypeOK
  <1>3. CASE UNCHANGED vars
    BY <1>3 DEF vars, serverVars, TypeOK
  <1>4. CASE Append
    BY <1>4 DEF Append, TypeOK
  <1>5. ASSUME NEW d \in Devices, Revoke(d) PROVE TypeOK'
    BY <1>5 DEF Revoke, TypeOK
  <1>6. ASSUME NEW d \in Devices, PairAnew(d) PROVE TypeOK'
    <2>1. identity[d][2] + 1 \in 1..MaxIds
      BY <1>6, EventsAssumption DEF PairAnew, TypeOK, IdsOf
    <2>2. identity' = [identity EXCEPT ![d] = <<d, identity[d][2] + 1>>] /\ d \in DOMAIN identity
      BY <1>6 DEF PairAnew, Shape
    <2>3. identity'[d] \in IdsOf(d) /\ \A c \in Devices \ {d} : identity'[c] = identity[c]
      <3> DEFINE next == identity[d][2] + 1
      <3>1. next \in 1..MaxIds /\ identity' = [identity EXCEPT ![d] = <<d, next>>]
        BY <2>1, <2>2
      <3> HIDE DEF next
      <3> QED BY <2>2, <3>1 DEF IdsOf, Shape
    <2>4. /\ UNCHANGED <<feed, deliveredTo, ledger, consumer>>
          /\ admitted' = admitted \cup {identity'[d]}
      BY <1>6 DEF PairAnew
    <2>5. /\ admitted' \subseteq UNION {IdsOf(c) : c \in Devices}
          /\ \A c \in Devices : identity'[c] \in IdsOf(c)
      BY <2>3, <2>4 DEF TypeOK
    <2> QED BY <2>4, <2>5 DEF TypeOK
  <1>7. ASSUME NEW p \in Consumers, List(p) PROVE TypeOK'
    <2> DEFINE c == [pc |-> "showing", id |-> identity[DeviceOf(p)],
                     items |-> Undelivered(identity[DeviceOf(p)]),
                     left |-> Undelivered(identity[DeviceOf(p)])]
    <2>1. c \in Round /\ Becomes(p, c)
      BY <1>7, ListedRound, ConsumerIsOfADevice DEF List
    <2>2. RoundOf(c, feed)
      BY DEF RoundOf, Undelivered
    <2>3. UNCHANGED <<feed, admitted, deliveredTo, identity>>
      BY <1>7 DEF List, serverVars
    <2> HIDE DEF c
    <2> QED BY <1>0, <1>2, <2>1, <2>2, <2>3, RoundTypes
  <1>8. ASSUME NEW p \in Consumers, Pass(p) \/ AlreadyDelivered(p) PROVE TypeOK'
    <2> DEFINE c == [consumer[p] EXCEPT !.left = @ \ {Current(p)}]
    <2>1. c \in Round
      BY <1>1, RoundSteps
    <2>2. Becomes(p, c) /\ UNCHANGED <<feed, admitted, deliveredTo, identity>>
      BY <1>8 DEF Pass, AlreadyDelivered, serverVars
    <2>3. c.pc = consumer[p].pc /\ c.left \subseteq consumer[p].left /\ c.items = consumer[p].items
      BY <1>1 DEF Round
    <2> HIDE DEF c
    <2>4. RoundOf(c, feed)
      BY <1>1, <2>1, <2>3 DEF Round, RoundOf
    <2> QED BY <1>0, <1>2, <2>1, <2>2, <2>4, RoundTypes
  <1>9. ASSUME NEW p \in Consumers, NEW pc \in {"held", "shown"},
               Becomes(p, [consumer[p] EXCEPT !.pc = pc]),
               UNCHANGED <<feed, admitted, deliveredTo, identity>>
        PROVE  TypeOK'
    <2> DEFINE c == [consumer[p] EXCEPT !.pc = pc]
    <2>1. c \in Round
      BY <1>1, RoundSteps
    <2>2. c.pc = pc /\ c.left = consumer[p].left /\ c.items = consumer[p].items
      BY <1>1 DEF Round
    <2>3. Becomes(p, c)
      BY <1>9
    <2> HIDE DEF c
    <2>4. RoundOf(c, feed)
      BY <1>1, <2>2 DEF RoundOf
    <2> QED BY <1>0, <1>2, <1>9, <2>1, <2>3, <2>4, RoundTypes
  <1>10. ASSUME NEW p \in Consumers, Claim(p) \/ Present(p) PROVE TypeOK'
    BY <1>9, <1>10 DEF Claim, Present, serverVars
  <1>11. ASSUME NEW p \in Consumers, Record(p) PROVE TypeOK'
    <2> DEFINE c == [consumer[p] EXCEPT !.pc = "showing", !.left = @ \ {Current(p)}]
    <2>1. c \in Round
      BY <1>1, RoundSteps
    <2>2. Becomes(p, c) /\ UNCHANGED <<feed, admitted, deliveredTo, identity>>
      BY <1>11 DEF Record, serverVars
    <2>3. c.pc = "showing" /\ c.left \subseteq consumer[p].left /\ c.items = consumer[p].items
      BY <1>1 DEF Round
    <2> HIDE DEF c
    <2>4. RoundOf(c, feed)
      BY <1>1, <2>3 DEF RoundOf
    <2> QED BY <1>0, <1>2, <2>1, <2>2, <2>4, RoundTypes
  <1>12. ASSUME NEW p \in Consumers,
                ClaimThrows(p) \/ PresentFails(p) \/ AckFails(p) \/ Dies(p)
         PROVE  TypeOK'
    <2>1. Becomes(p, Idle) /\ UNCHANGED <<feed, admitted, deliveredTo, identity>>
      BY <1>12 DEF ClaimThrows, PresentFails, AckFails, Dies, Aborts, Gives, serverVars
    <2> QED BY <1>0, <1>2, <2>1, RoundTypes
  <1>13. ASSUME NEW p \in Consumers, Ack(p) PROVE TypeOK'
    <2>1. Becomes(p, Idle) /\ UNCHANGED <<feed, admitted, identity>>
      BY <1>13 DEF Ack, Gives
    <2>2. \A e \in Events : deliveredTo'[e] # {} => e \in feed
      BY <1>1, <1>2, <1>13 DEF Ack, Acknowledged, RoundOf
    <2> QED BY <1>0, <2>1, <2>2, RoundTypes
  <1>14. CASE Lapses
    <2>1. UNCHANGED <<feed, admitted, deliveredTo, identity, consumer>>
      BY <1>14 DEF Lapses, LeaseLapses, serverVars
    <2> QED BY <1>0, <2>1 DEF TypeOK, Table, Status
  <1> QED
    BY <1>3, <1>4, <1>5, <1>6, <1>7, <1>8, <1>10, <1>11, <1>12, <1>13, <1>14 DEF Next, Goes

-----------------------------------------------------------------------------
\* Rounds, the ledger and the history are consistent, and every prospect of an
\* alert is paid for, in every reachable state.
THEOREM DeliveryInvariant == Spec => [](Shape /\ HandledInv /\ AlertInv)
  <1> DEFINE Inv == Shape /\ HandledInv /\ AlertInv
  <1>1. Init => Inv
    BY InitShape, InitHandled, InitAlerts
  <1>2. Inv /\ [Next]_vars => Inv'
    BY NextShape, NextHandled, NextAlerts
  <1> QED BY <1>1, <1>2, PTL DEF Spec

\* A round never lists what the feed does not hold or an old release marked
\* read, nothing outside the feed is acknowledged, and every device uses an id of
\* its own.
THEOREM TypeCorrect == Spec => []TypeOK
  <1>1. Init => Shape /\ HandledInv /\ TypeOK
    BY InitShape, InitHandled, InitTypes
  <1>2. Shape /\ HandledInv /\ TypeOK /\ [Next]_vars => (Shape /\ HandledInv /\ TypeOK)'
    BY NextShape, NextHandled, NextTypes
  <1> QED BY <1>1, <1>2, PTL DEF Spec

\* What a device acknowledged was presented there or is the app's to present,
\* whatever breaks off a round.
THEOREM AcknowledgedIsHandled == Spec => []AcknowledgedWereHandled
  <1>1. HandledInv => AcknowledgedWereHandled
    BY DEF HandledInv, Handled, AcknowledgedWereHandled
  <1> QED BY <1>1, DeliveryInvariant, PTL

\* An alert is repeated only after a claim whose outcome was not recorded, for
\* any number of rounds, failures, lapsed claims and new pairings.
THEOREM RepeatedOnlyInDoubt == Spec => []AlertsRepeatOnlyInDoubt
  <1>1. Shape /\ AlertInv => AlertsRepeatOnlyInDoubt
    <2> SUFFICES ASSUME Shape, AlertInv, NEW d \in Devices, NEW e \in Events
                 PROVE  alerts[d][e] <= 1 + doubts[d][e]
      BY DEF AlertsRepeatOnlyInDoubt
    <2>1. /\ alerts[d][e] \in Nat /\ doubts[d][e] \in Nat /\ Free(d, e) \in {0, 1}
          /\ Holding(d, "foreground", e) \in {0, 1} /\ Holding(d, "background", e) \in {0, 1}
      BY DEF Shape, Table, Free, Holding, Bit
    <2>2. Prospects(d, e) + Free(d, e) <= 1 + doubts[d][e]
      BY DEF AlertInv, Paid
    <2> QED BY <2>1, <2>2 DEF Prospects
  <1> QED BY <1>1, DeliveryInvariant, PTL

=============================================================================
