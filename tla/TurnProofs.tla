----------------------------- MODULE TurnProofs -----------------------------
(* Theorems about one turn of a voice call, for every value of the constants: *)
(* about TurnCoordinator, which runs it, and about Reply, which decides what  *)
(* it says.                                                                   *)
EXTENDS TurnCoordinator, Reply, SequenceTheorems, FiniteSetTheorems,
        NaturalsInduction, WellFoundedInduction, TLAPS

\* The bodies of the steps that look at the event, with their inputs.
LEMMA StepCases ==
    ASSUME [Next]_vars
    PROVE  \/ UNCHANGED vars
           \/ \E e \in Events :
                \/ Stale(e) \/ NoEffect(e) \/ SpeechStarted(e) \/ RepeatedTurn(e)
                \/ TurnProcessed(e) \/ TurnFailed(e) \/ Disconnect(e)
                \/ \E status \in {"DELIVERING", "COMPLETED", "INTERRUPTED"} :
                      DeliveryUpdate(e, status)
  BY DEF Next, Ignore

\* The instructions before a turn are well formed.
LEMMA OrdersType ==
    ASSUME TypeOK
    PROVE  Orders \in Seq(Instructions) /\ Cut \in Turns \cup {None}
<1>1. Playing => Cancel(active.turn) \in Instructions /\ active.turn \in Turns
  BY DEF TypeOK, Playing, ActiveDeliveries, Cancel, Instructions
<1> QED
  BY <1>1 DEF TypeOK, Orders, Cut

\* The parts of an event have their types.
LEMMA EventType ==
    ASSUME TypeOK, NEW e \in Events, Accept(e)
    PROVE  /\ lastSequence' \in -1 .. MaxSeq /\ processedEvents' \in SUBSET EventIds
           /\ lastSequence' = e.seq /\ e.seq \in 0 .. MaxSeq /\ e.turn \in Turns
           /\ lastSequence < e.seq
  BY CoordinatorAssumption DEF TypeOK, Accept, Events

\* What the processor is given is a well-formed run.
LEMMA RunType ==
    ASSUME TypeOK, NEW e \in Events, StartTurn(e)
    PROVE  processedTurns' \in SUBSET Turns /\ runs' \in Seq(Runs)
<1> DEFINE run == [turn |-> e.turn, seq |-> e.seq, told |-> Cut, at |-> Len(issued)]
<1>1. e.turn \in Turns /\ e.seq \in 0 .. MaxSeq
  BY EventType DEF StartTurn
<1>2. Len(issued) \in Nat
  BY DEF TypeOK
<1>3. run \in Runs
  BY <1>1, <1>2, OrdersType DEF Runs
<1> QED
  BY <1>1, <1>3 DEF StartTurn, TypeOK

\* Every step keeps the types.
LEMMA NextType == TypeOK /\ [Next]_vars => TypeOK'
<1> SUFFICES ASSUME TypeOK, [Next]_vars PROVE TypeOK'
  OBVIOUS
<1>1. CASE UNCHANGED vars
  BY <1>1 DEF TypeOK, vars, state
<1>2. ASSUME NEW e \in Events, Stale(e) PROVE TypeOK'
  BY <1>2 DEF TypeOK, Stale, state, Events
<1>3. ASSUME NEW e \in Events, NoEffect(e) \/ RepeatedTurn(e) PROVE TypeOK'
  BY <1>3, EventType DEF TypeOK, NoEffect, RepeatedTurn, state
<1>4. ASSUME NEW e \in Events, SpeechStarted(e) PROVE TypeOK'
  <2>1. CASE Playing
    <3>1. active \in ActiveDeliveries
      BY <2>1 DEF Playing, TypeOK
    <3>2. active' \in ActiveDeliveries /\ pending' \in Turns
          /\ issued' = Append(issued, Cancel(active.turn))
      BY <1>4, <2>1, <3>1 DEF SpeechStarted, ActiveDeliveries, Status, Progress
    <3>3. Cancel(active.turn) \in Instructions
      BY <3>1 DEF Cancel, Instructions, ActiveDeliveries
    <3> QED
      BY <1>4, <3>2, <3>3, EventType DEF SpeechStarted, TypeOK
  <2>2. CASE ~Playing
    BY <1>4, <2>2, EventType DEF SpeechStarted, TypeOK
  <2> QED
    BY <2>1, <2>2
<1>5. ASSUME NEW e \in Events, TurnProcessed(e) PROVE TypeOK'
  <2>1. e.turn \in Turns
    BY <1>5, EventType DEF TurnProcessed, StartTurn
  <2>2. active' \in ActiveDeliveries
    BY <1>5, <2>1 DEF TurnProcessed, ActiveDeliveries, Status, Live, Progress
  <2>3. Speak(e.turn) \in Instructions
    BY <2>1 DEF Speak, Instructions
  <2>4. /\ issued' \in Seq(Instructions) /\ currentTurn' \in Turns
        /\ pending' = None /\ UNCHANGED <<disconnected, completed, stopped>>
    BY <1>5, <2>1, <2>3, OrdersType DEF TurnProcessed, StartTurn
  <2>5. processedTurns' \in SUBSET Turns /\ runs' \in Seq(Runs)
    BY <1>5, RunType DEF TurnProcessed
  <2>6. lastSequence' \in -1 .. MaxSeq /\ processedEvents' \in SUBSET EventIds
    BY <1>5, EventType DEF TurnProcessed, StartTurn
  <2> QED
    BY <2>2, <2>4, <2>5, <2>6 DEF TypeOK
<1>6. ASSUME NEW e \in Events, TurnFailed(e) PROVE TypeOK'
  <2>1. active' \in ActiveDeliveries \cup {None}
    <3>1. CASE Playing
      <4>1. active \in ActiveDeliveries /\ active' = [active EXCEPT !.status = "CANCELLED"]
        BY <1>6, <3>1 DEF TurnFailed, Playing, TypeOK
      <4> QED
        BY <4>1 DEF ActiveDeliveries, Status
    <3>2. CASE ~Playing
      BY <1>6, <3>2 DEF TurnFailed, TypeOK
    <3> QED
      BY <3>1, <3>2
  <2> QED
    BY <1>6, <2>1, EventType, RunType, OrdersType DEF TurnFailed, StartTurn, TypeOK
<1>7. ASSUME NEW e \in Events, NEW status \in {"DELIVERING", "COMPLETED", "INTERRUPTED"},
             DeliveryUpdate(e, status)
      PROVE  TypeOK'
  <2>1. CASE Playing /\ e.turn = currentTurn
    <3>1. active \in ActiveDeliveries /\ active.turn \in Turns
      BY <2>1 DEF Playing, TypeOK, ActiveDeliveries
    <3>2. active' \in ActiveDeliveries
      BY <1>7, <2>1, <3>1 DEF DeliveryUpdate, ActiveDeliveries, Status, Live, Progress
    <3> QED
      BY <1>7, <2>1, <3>1, <3>2, EventType DEF DeliveryUpdate, TypeOK
  <2>2. CASE ~(Playing /\ e.turn = currentTurn)
    BY <1>7, <2>2, EventType DEF DeliveryUpdate, TypeOK
  <2> QED
    BY <2>1, <2>2
<1>8. ASSUME NEW e \in Events, Disconnect(e) PROVE TypeOK'
  <2>1. CASE active # None /\ active.status \notin {"COMPLETED", "CANCELLED"}
    <3>1. active \in ActiveDeliveries
      BY <2>1 DEF TypeOK
    <3>2. active' \in ActiveDeliveries /\ issued' = Append(issued, Cancel(active.turn))
      BY <1>8, <2>1, <3>1 DEF Disconnect, ActiveDeliveries, Status
    <3>3. Cancel(active.turn) \in Instructions
      BY <3>1 DEF Cancel, Instructions, ActiveDeliveries
    <3> QED
      BY <1>8, <3>2, <3>3, EventType DEF Disconnect, TypeOK
  <2>2. CASE ~(active # None /\ active.status \notin {"COMPLETED", "CANCELLED"})
    BY <1>8, <2>2, EventType DEF Disconnect, TypeOK
  <2> QED
    BY <2>1, <2>2
<1> QED
  BY <1>1, <1>2, <1>3, <1>4, <1>5, <1>6, <1>7, <1>8, StepCases

\* Deliveries, instructions and histories are well formed in every reachable state,
\* whatever events the transport delivers.
THEOREM TypeCorrect == Spec => []TypeOK
<1>1. Init => TypeOK
  <2>1. Init => lastSequence \in -1 .. MaxSeq
    BY CoordinatorAssumption DEF Init
  <2>2. Init => issued \in Seq(Instructions) /\ runs \in Seq(Runs)
    BY DEF Init
  <2> QED
    BY <2>1, <2>2 DEF Init, TypeOK
<1> QED
  BY <1>1, NextType, PTL DEF Spec

------------------------------------------------------------------------------
(* One voice *)

\* An instruction more: who may still be heard.
LEMMA HeardAfterNothing ==
    ASSUME issued' = issued, completed \subseteq completed', stopped \subseteq stopped',
           NEW t \in Turns, Audible(t)'
    PROVE  Audible(t) /\ t \notin completed' \cup stopped'
  BY DEF Audible

\* A turn heard after one CANCEL_CURRENT more was heard before, and is another one.
LEMMA HeardAfterCancel ==
    ASSUME TypeOK, NEW x \in Turns, NEW q \in Seq(Instructions),
           q = Append(issued, Cancel(x)), NEW t \in Turns,
           \E i \in DOMAIN q : q[i] = Speak(t), \A i \in DOMAIN q : q[i] # Cancel(t)
    PROVE  /\ \E i \in DOMAIN issued : issued[i] = Speak(t)
           /\ \A i \in DOMAIN issued : issued[i] # Cancel(t)
           /\ t # x
<1>1. issued \in Seq(Instructions)
  BY DEF TypeOK
<1>2. DOMAIN q = 1 .. Len(issued) + 1 /\ DOMAIN issued = 1 .. Len(issued)
      /\ Len(issued) \in Nat /\ q[Len(issued) + 1] = Cancel(x)
      /\ \A i \in 1 .. Len(issued) : q[i] = issued[i]
  BY <1>1 DEF Cancel, Instructions
<1>3. Cancel(x) # Speak(t) /\ (x = t => Cancel(x) = Cancel(t))
  BY DEF Cancel, Speak
<1> QED
  BY <1>2, <1>3

\* A turn heard after the SPEAK of another was heard before it.
LEMMA HeardAfterSpeak ==
    ASSUME NEW q \in Seq(Instructions), NEW x \in Turns, NEW t \in Turns,
           issued' = Append(q, Speak(x)), Audible(t)', t # x
    PROVE  /\ \E i \in DOMAIN q : q[i] = Speak(t)
           /\ \A i \in DOMAIN q : q[i] # Cancel(t)
<1>1. DOMAIN issued' = 1 .. Len(q) + 1 /\ DOMAIN q = 1 .. Len(q) /\ Len(q) \in Nat
      /\ issued'[Len(q) + 1] = Speak(x) /\ \A i \in 1 .. Len(q) : issued'[i] = q[i]
  BY DEF Speak, Instructions
<1>2. Speak(x) # Speak(t)
  BY DEF Speak
<1> QED
  BY <1>1, <1>2 DEF Audible

\* Once the instructions before a turn are out, nothing is heard that was playing.
LEMMA HeardAfterOrders ==
    ASSUME TypeOK, OneVoice, NEW t \in Turns, t \notin completed \cup stopped,
           \E i \in DOMAIN Orders : Orders[i] = Speak(t),
           \A i \in DOMAIN Orders : Orders[i] # Cancel(t)
    PROVE  FALSE
<1>1. CASE Playing
  <2>1. active.turn \in Turns /\ Orders = Append(issued, Cancel(active.turn))
        /\ Orders \in Seq(Instructions)
    BY <1>1, OrdersType DEF Playing, TypeOK, ActiveDeliveries, Orders
  <2>2. Audible(t) /\ t # active.turn
    BY <2>1, HeardAfterCancel DEF Audible
  <2> QED
    BY <2>2 DEF OneVoice
<1>2. CASE ~Playing
  BY <1>2 DEF Orders, OneVoice, Audible
<1> QED
  BY <1>1, <1>2

\* Every step keeps the only audible response the active one.
LEMMA NextVoice == TypeOK /\ OneVoice /\ [Next]_vars => OneVoice'
<1> SUFFICES ASSUME TypeOK, OneVoice, [Next]_vars, NEW t \in Turns, Audible(t)'
             PROVE  (Playing /\ active.turn = t /\ ~disconnected)'
  BY DEF OneVoice
<1>1. CASE UNCHANGED state
  BY <1>1 DEF state, OneVoice, Audible, Playing
<1>2. ASSUME NEW e \in Events, SpeechStarted(e)
      PROVE  (Playing /\ active.turn = t /\ ~disconnected)'
  <2>1. CASE Playing
    <3>1. active.turn \in Turns /\ issued' = Append(issued, Cancel(active.turn))
          /\ issued' \in Seq(Instructions) /\ UNCHANGED <<completed, stopped>>
      <4>1. active.turn \in Turns
        BY <2>1 DEF Playing, TypeOK, ActiveDeliveries
      <4>2. Cancel(active.turn) \in Instructions
        BY <4>1 DEF Cancel, Instructions
      <4>3. issued' = Append(issued, Cancel(active.turn))
            /\ UNCHANGED <<completed, stopped>>
        BY <1>2, <2>1 DEF SpeechStarted
      <4>4. issued \in Seq(Instructions)
        BY DEF TypeOK
      <4> QED
        BY <4>1, <4>2, <4>3, <4>4
    <3>2. Audible(t) /\ t # active.turn
      BY <3>1, HeardAfterCancel DEF Audible
    <3> QED
      BY <3>2 DEF OneVoice
  <2>2. CASE ~Playing
    BY <1>2, <2>2 DEF SpeechStarted, OneVoice, Audible, Playing
  <2> QED
    BY <2>1, <2>2
<1>3. ASSUME NEW e \in Events, TurnProcessed(e)
      PROVE  (Playing /\ active.turn = t /\ ~disconnected)'
  <2>1. issued' = Append(Orders, Speak(e.turn)) /\ e.turn \in Turns
        /\ UNCHANGED <<completed, stopped>> /\ Orders \in Seq(Instructions)
    BY <1>3, EventType, OrdersType DEF TurnProcessed, StartTurn
  <2>2. t = e.turn
    <3>1. SUFFICES ASSUME t # e.turn PROVE FALSE
      OBVIOUS
    <3>2. (\E i \in DOMAIN Orders : Orders[i] = Speak(t))
          /\ (\A i \in DOMAIN Orders : Orders[i] # Cancel(t))
      BY <2>1, <3>1, HeardAfterSpeak
    <3>3. t \notin completed \cup stopped
      BY <2>1 DEF Audible
    <3> QED
      BY <3>2, <3>3, HeardAfterOrders
  <2>3. active' = [turn |-> e.turn, status |-> "PENDING", progress |-> "NOT_STARTED"]
        /\ ~disconnected'
    BY <1>3 DEF TurnProcessed, StartTurn, Accept, Fresh
  <2>4. active' \in ActiveDeliveries
    BY <2>1, <2>3 DEF ActiveDeliveries, Status, Live, Progress
  <2> QED
    BY <2>2, <2>3, <2>4, NoneAssumption DEF Playing, Live
<1>4. ASSUME NEW e \in Events, TurnFailed(e)
      PROVE  (Playing /\ active.turn = t /\ ~disconnected)'
  <2>1. issued' = Orders /\ UNCHANGED <<completed, stopped>>
    BY <1>4 DEF TurnFailed, StartTurn
  <2> QED
    BY <2>1, HeardAfterOrders DEF Audible
<1>5. ASSUME NEW e \in Events, NEW status \in {"DELIVERING", "COMPLETED", "INTERRUPTED"},
             DeliveryUpdate(e, status)
      PROVE  (Playing /\ active.turn = t /\ ~disconnected)'
  <2>1. UNCHANGED issued /\ completed \subseteq completed' /\ stopped \subseteq stopped'
        /\ ~disconnected'
    BY <1>5 DEF DeliveryUpdate, Accept, Fresh
  <2>2. Audible(t) /\ t \notin completed' \cup stopped'
    BY <2>1, HeardAfterNothing
  <2>3. Playing /\ active.turn = t /\ active \in ActiveDeliveries
    BY <2>2 DEF OneVoice, Playing, TypeOK
  <2>4. CASE e.turn = currentTurn
    <3>1. status = "DELIVERING"
      BY <1>5, <2>2, <2>3, <2>4 DEF DeliveryUpdate
    <3>2. active' = [active EXCEPT !.status = "DELIVERING", !.progress = "PARTIAL"]
      BY <1>5, <2>3, <2>4, <3>1 DEF DeliveryUpdate
    <3>3. active'.status = "DELIVERING" /\ active'.turn = t /\ active' \in ActiveDeliveries
      BY <2>3, <3>2 DEF ActiveDeliveries, Status, Live, Progress
    <3> QED
      BY <2>1, <3>3, NoneAssumption DEF Playing, Live
  <2>5. CASE e.turn # currentTurn
    BY <1>5, <2>1, <2>3, <2>5 DEF DeliveryUpdate, Playing
  <2> QED
    BY <2>4, <2>5
<1>6. ASSUME NEW e \in Events, Disconnect(e)
      PROVE  (Playing /\ active.turn = t /\ ~disconnected)'
  <2>1. UNCHANGED <<completed, stopped>>
    BY <1>6 DEF Disconnect
  <2>2. Audible(t) => Playing /\ active.turn = t
    BY DEF OneVoice
  <2>3. CASE active # None /\ active.status \notin {"COMPLETED", "CANCELLED"}
    <3>1. active.turn \in Turns /\ issued' = Append(issued, Cancel(active.turn))
          /\ issued' \in Seq(Instructions)
      <4>1. active.turn \in Turns
        BY <2>3 DEF TypeOK, ActiveDeliveries
      <4>2. Cancel(active.turn) \in Instructions
        BY <4>1 DEF Cancel, Instructions
      <4>3. issued' = Append(issued, Cancel(active.turn))
        BY <1>6, <2>3 DEF Disconnect
      <4>4. issued \in Seq(Instructions)
        BY DEF TypeOK
      <4>5. Append(issued, Cancel(active.turn)) \in Seq(Instructions)
        BY <4>2, <4>4
      <4> QED
        BY <4>1, <4>3, <4>5
    <3>2. Audible(t) /\ t # active.turn
      BY <2>1, <3>1, HeardAfterCancel DEF Audible
    <3> QED
      BY <2>2, <3>2
  <2>4. CASE ~(active # None /\ active.status \notin {"COMPLETED", "CANCELLED"})
    <3>1. issued' = issued
      BY <1>6, <2>4 DEF Disconnect
    <3>2. Audible(t)
      BY <2>1, <3>1 DEF Audible
    <3> QED
      BY <2>2, <2>4, <3>2 DEF Playing, Live
  <2> QED
    BY <2>3, <2>4
<1> QED
  BY <1>1, <1>2, <1>3, <1>4, <1>5, <1>6, StepCases
     DEF vars, Stale, NoEffect, RepeatedTurn

\* At most one response is ever on the line, and none after the hang-up.
THEOREM OneVoiceCorrect == Spec => []OneVoice
<1>1. Init => OneVoice
  BY DEF Init, OneVoice, Audible
<1>2. TypeOK /\ OneVoice /\ [Next]_vars => OneVoice'
  BY NextVoice
<1> QED
  BY <1>1, <1>2, TypeCorrect, PTL DEF Spec

------------------------------------------------------------------------------
(* Each turn once, in order *)

\* What has run or been spoken is a processed turn, not newer than the last event.
OrderInv ==
    /\ \A i \in DOMAIN runs :
          runs[i].turn \in processedTurns /\ runs[i].seq <= lastSequence
    /\ \A i \in DOMAIN issued :
          issued[i].action = "SPEAK" => issued[i].turn \in processedTurns
    /\ TurnsOnceInOrder

\* A CANCEL_CURRENT more changes nothing of it, a later event neither.
LEMMA OrderKept ==
    ASSUME TypeOK, TypeOK', OrderInv, lastSequence' >= lastSequence,
           UNCHANGED <<processedTurns, runs>>,
           \/ issued' = issued
           \/ \E x \in Turns : issued' = Append(issued, Cancel(x))
    PROVE  OrderInv'
<1>1. \A i \in DOMAIN runs : runs[i].seq \in Nat
  <2>1. \A i \in DOMAIN runs : runs[i] \in Runs
    BY DEF TypeOK
  <2>2. \A x \in Runs : x.seq \in Nat
    BY CoordinatorAssumption DEF Runs
  <2> QED
    BY <2>1, <2>2
<1>2. \A i \in DOMAIN issued' : issued'[i].action = "SPEAK" =>
          i \in DOMAIN issued /\ issued'[i] = issued[i]
  <2>1. ASSUME NEW x \in Turns, issued' = Append(issued, Cancel(x)),
               NEW i \in DOMAIN issued', issued'[i].action = "SPEAK"
        PROVE  i \in DOMAIN issued /\ issued'[i] = issued[i]
    <3>1. issued \in Seq(Instructions) /\ Cancel(x).action # "SPEAK"
          /\ Cancel(x) \in Instructions
      BY DEF TypeOK, Cancel, Instructions
    <3> QED
      BY <2>1, <3>1
  <2> QED
    BY <2>1
<1>3. lastSequence \in Int /\ lastSequence' \in Int
  BY CoordinatorAssumption DEF TypeOK
<1> QED
  BY <1>1, <1>2, <1>3 DEF OrderInv, TurnsOnceInOrder

\* The processor is given one turn more, new and later than all before.
LEMMA RunsOrdered ==
    ASSUME TypeOK, OrderInv, NEW e \in Events, StartTurn(e)
    PROVE  /\ \A i \in DOMAIN runs' :
                 runs'[i].turn \in processedTurns' /\ runs'[i].seq <= lastSequence'
           /\ \A i, j \in DOMAIN runs' :
                 /\ runs'[i].turn = runs'[j].turn => i = j
                 /\ i < j => runs'[i].seq < runs'[j].seq
<1> DEFINE run == [turn |-> e.turn, seq |-> e.seq, told |-> Cut, at |-> Len(issued)]
<1>1. runs \in Seq(Runs) /\ Len(runs) \in Nat /\ DOMAIN runs = 1 .. Len(runs)
      /\ \A i \in 1 .. Len(runs) : runs[i].seq \in Nat /\ runs[i].turn \in processedTurns
                                   /\ runs[i].seq <= lastSequence
  <2>1. runs \in Seq(Runs)
    BY DEF TypeOK
  <2>2. Len(runs) \in Nat /\ DOMAIN runs = 1 .. Len(runs)
        /\ \A i \in 1 .. Len(runs) : runs[i] \in Runs
    BY <2>1
  <2>3. \A x \in Runs : x.seq \in Nat
    BY CoordinatorAssumption DEF Runs
  <2> QED
    BY <2>1, <2>2, <2>3 DEF OrderInv
<1>2. e.seq \in Nat /\ lastSequence' = e.seq /\ lastSequence < e.seq
      /\ lastSequence \in Int
  BY EventType, CoordinatorAssumption DEF StartTurn, TypeOK
<1>3. e.turn \notin processedTurns /\ processedTurns' = processedTurns \cup {e.turn}
      /\ runs' = Append(runs, run)
  BY DEF StartTurn
<1>4. DOMAIN runs' = 1 .. Len(runs) + 1 /\ runs'[Len(runs) + 1] = run
      /\ \A i \in 1 .. Len(runs) : runs'[i] = runs[i]
  <2>1. run \in Runs
    BY <1>2, EventType, OrdersType DEF StartTurn, TypeOK, Runs
  <2> QED
    BY <1>1, <1>3, <2>1
<1>5. run.turn = e.turn /\ run.seq = e.seq
  OBVIOUS
<1>6. \A i \in 1 .. Len(runs) : runs'[i].seq < e.seq /\ runs'[i].turn # e.turn
  BY <1>1, <1>2, <1>3, <1>4
<1>7. \A i, j \in 1 .. Len(runs) :
          /\ runs'[i].turn = runs'[j].turn => i = j
          /\ i < j => runs'[i].seq < runs'[j].seq
  BY <1>1, <1>4 DEF OrderInv, TurnsOnceInOrder
<1>8. \A i \in DOMAIN runs' : i \in 1 .. Len(runs) \/ i = Len(runs) + 1
  BY <1>1, <1>4
<1>9. \A i \in DOMAIN runs' :
          runs'[i].turn \in processedTurns' /\ runs'[i].seq <= lastSequence'
  BY <1>1, <1>2, <1>3, <1>4, <1>5, <1>8
<1>10. \A i, j \in DOMAIN runs' :
          /\ runs'[i].turn = runs'[j].turn => i = j
          /\ i < j => runs'[i].seq < runs'[j].seq
  BY <1>1, <1>4, <1>5, <1>6, <1>7, <1>8
<1> QED
  BY <1>9, <1>10

\* What is spoken is spoken once.
LEMMA SpokenOnce ==
    ASSUME TypeOK, OrderInv, NEW e \in Events, StartTurn(e),
           issued' = Orders \/ issued' = Append(Orders, Speak(e.turn))
    PROVE  /\ \A i \in DOMAIN issued' :
                 issued'[i].action = "SPEAK" => issued'[i].turn \in processedTurns'
           /\ \A i, j \in DOMAIN issued' :
                 (issued'[i].action = "SPEAK" /\ issued'[i] = issued'[j]) => i = j
<1>1. Orders \in Seq(Instructions) /\ issued \in Seq(Instructions) /\ e.turn \in Turns
      /\ Len(Orders) \in Nat
  BY OrdersType, EventType DEF StartTurn, TypeOK
<1>2. \A i \in DOMAIN Orders : Orders[i].action = "SPEAK" =>
          i \in DOMAIN issued /\ Orders[i] = issued[i]
  <2>1. CASE Playing
    <3>1. Orders = Append(issued, Cancel(active.turn)) /\ Cancel(active.turn).action # "SPEAK"
      BY <2>1 DEF Orders, Cancel
    <3> QED
      BY <1>1, <3>1
  <2>2. CASE ~Playing
    BY <2>2 DEF Orders
  <2> QED
    BY <2>1, <2>2
<1>3. /\ \A i \in DOMAIN Orders :
            Orders[i].action = "SPEAK" => Orders[i].turn \in processedTurns
      /\ \A i, j \in DOMAIN Orders :
            (Orders[i].action = "SPEAK" /\ Orders[i] = Orders[j]) => i = j
  BY <1>2 DEF OrderInv, TurnsOnceInOrder
<1>4. e.turn \notin processedTurns /\ processedTurns' = processedTurns \cup {e.turn}
  BY DEF StartTurn
<1>5. CASE issued' = Orders
  BY <1>3, <1>4, <1>5
<1>6. CASE issued' = Append(Orders, Speak(e.turn))
  <2>1. Speak(e.turn) \in Instructions /\ Speak(e.turn).turn = e.turn
    BY <1>1 DEF Speak, Instructions
  <2>2. DOMAIN issued' = 1 .. Len(Orders) + 1 /\ DOMAIN Orders = 1 .. Len(Orders)
        /\ issued'[Len(Orders) + 1] = Speak(e.turn)
        /\ \A i \in 1 .. Len(Orders) : issued'[i] = Orders[i]
    BY <1>1, <1>6, <2>1
  <2>3. \A i \in 1 .. Len(Orders) : issued'[i] # Speak(e.turn)
    <3>1. SUFFICES ASSUME NEW i \in 1 .. Len(Orders), Orders[i] = Speak(e.turn) PROVE FALSE
      BY <2>2
    <3>2. Orders[i].action = "SPEAK" /\ Orders[i].turn = e.turn
      BY <3>1 DEF Speak
    <3> QED
      BY <1>3, <1>4, <2>2, <3>2
  <2>4. \A i \in DOMAIN issued' : i \in 1 .. Len(Orders) \/ i = Len(Orders) + 1
    BY <1>1, <2>2
  <2> QED
    BY <1>1, <1>3, <1>4, <2>1, <2>2, <2>3, <2>4
<1> QED
  BY <1>5, <1>6

\* Every step keeps turns unique and in order.
LEMMA NextOrder == TypeOK /\ OrderInv /\ [Next]_vars => OrderInv'
<1> SUFFICES ASSUME TypeOK, OrderInv, [Next]_vars PROVE OrderInv'
  OBVIOUS
<1>0. TypeOK' /\ lastSequence \in Int
  BY NextType, CoordinatorAssumption DEF TypeOK
<1>1. CASE UNCHANGED <<lastSequence, state>>
  BY <1>1 DEF state, OrderInv, TurnsOnceInOrder
<1>2. ASSUME NEW e \in Events,
             \/ NoEffect(e) \/ RepeatedTurn(e) \/ SpeechStarted(e) \/ Disconnect(e)
             \/ \E status \in {"DELIVERING", "COMPLETED", "INTERRUPTED"} :
                   DeliveryUpdate(e, status)
      PROVE  OrderInv'
  <2>1. Accept(e)
    BY <1>2 DEF NoEffect, RepeatedTurn, SpeechStarted, Disconnect, DeliveryUpdate
  <2>2. lastSequence' >= lastSequence
    BY <1>0, <2>1, EventType
  <2>3. UNCHANGED <<processedTurns, runs>>
    BY <1>2 DEF NoEffect, RepeatedTurn, SpeechStarted, Disconnect, DeliveryUpdate, state
  <2>4. issued' = issued \/ (active # None /\ issued' = Append(issued, Cancel(active.turn)))
    BY <1>2
       DEF NoEffect, RepeatedTurn, SpeechStarted, Playing, Disconnect, DeliveryUpdate, state
  <2>5. active # None => active.turn \in Turns
    BY DEF TypeOK, ActiveDeliveries
  <2> QED
    BY <1>0, <2>2, <2>3, <2>4, <2>5, OrderKept
<1>3. ASSUME NEW e \in Events, TurnProcessed(e) \/ TurnFailed(e) PROVE OrderInv'
  <2>1. StartTurn(e) /\ (issued' = Orders \/ issued' = Append(Orders, Speak(e.turn)))
    BY <1>3 DEF TurnProcessed, TurnFailed
  <2> QED
    BY <2>1, RunsOrdered, SpokenOnce DEF OrderInv, TurnsOnceInOrder
<1> QED
  BY <1>1, <1>2, <1>3, StepCases DEF vars, Stale

\* A turn reaches the processor once and is spoken at most once, in the order of the
\* sequence numbers, whatever the transport repeats, delays or reorders.
THEOREM TurnsOnceCorrect == Spec => []TurnsOnceInOrder
<1>1. Init => OrderInv
  BY DEF Init, OrderInv, TurnsOnceInOrder
<1>2. TypeOK /\ OrderInv /\ [Next]_vars => OrderInv'
  BY NextOrder
<1>3. OrderInv => TurnsOnceInOrder
  BY DEF OrderInv
<1> QED
  BY <1>1, <1>2, <1>3, TypeCorrect, PTL DEF Spec

------------------------------------------------------------------------------
(* What a turn is told of interruptions *)

Unspoken(q) == \A j \in DOMAIN q : q[j].action # "SPEAK"

LastSpoken(q, t) ==
    \E i \in DOMAIN q :
        q[i] = Speak(t) /\ \A j \in DOMAIN q : q[j].action = "SPEAK" => j <= i

\* The active delivery is that of the response ordered last.
SpokenInv ==
    /\ currentTurn = None => active = None /\ pending = None /\ Unspoken(issued)
    /\ currentTurn # None =>
          active # None /\ active.turn = currentTurn /\ LastSpoken(issued, currentTurn)

\* What the next turn is going to be told is the response ordered last, unless that
\* was delivered to its end.
NewsInv ==
    /\ completed \subseteq processedTurns
    /\ Playing => pending = None
    /\ ~disconnected =>
          Cut = IF currentTurn \in completed THEN None ELSE currentTurn

\* A response ordered before some turn reached the processor is over by then: no
\* later report completes it.
SettledInv ==
    \A k \in DOMAIN runs :
        /\ runs[k].at <= Len(issued)
        /\ \A i \in 1 .. runs[k].at : issued[i] = Speak(currentTurn) => ~Playing

ToldInv == SpokenInv /\ NewsInv /\ SettledInv /\ InterruptionsTold

\* The step orders a CANCEL_CURRENT at most, and completes the active delivery at most.
CancelsAtMost ==
    \/ issued' = issued
    \/ active # None /\ \E x \in Turns : issued' = Append(issued, Cancel(x))

CompletesAtMost ==
    \/ completed' = completed
    \/ Playing /\ completed' = completed \cup {active.turn}

\* A SPEAK is the last one spoken when it is issued.
LEMMA SpeakIsLast ==
    ASSUME NEW q \in Seq(Instructions), NEW t \in Turns
    PROVE  LastSpoken(Append(q, Speak(t)), t)
<1>1. Speak(t) \in Instructions
  BY DEF Speak, Instructions
<1>2. DOMAIN Append(q, Speak(t)) = 1 .. Len(q) + 1 /\ Len(q) \in Nat
      /\ Append(q, Speak(t))[Len(q) + 1] = Speak(t)
  BY <1>1
<1> QED
  BY <1>2 DEF LastSpoken

\* A CANCEL_CURRENT changes nothing of what was spoken last.
LEMMA CancelSpeaksNothing ==
    ASSUME NEW q \in Seq(Instructions), NEW x \in Turns, NEW t
    PROVE  /\ Unspoken(q) => Unspoken(Append(q, Cancel(x)))
           /\ LastSpoken(q, t) => LastSpoken(Append(q, Cancel(x)), t)
<1>1. Cancel(x) \in Instructions /\ Cancel(x).action # "SPEAK"
  BY DEF Cancel, Instructions
<1>2. DOMAIN Append(q, Cancel(x)) = 1 .. Len(q) + 1 /\ DOMAIN q = 1 .. Len(q)
      /\ Len(q) \in Nat /\ Append(q, Cancel(x))[Len(q) + 1] = Cancel(x)
      /\ \A i \in 1 .. Len(q) : Append(q, Cancel(x))[i] = q[i]
  BY <1>1
<1>3. \A j \in DOMAIN Append(q, Cancel(x)) :
          Append(q, Cancel(x))[j].action = "SPEAK" => j \in DOMAIN q
  BY <1>1, <1>2
<1>4. Unspoken(q) => Unspoken(Append(q, Cancel(x)))
  BY <1>2, <1>3 DEF Unspoken
<1>5. LastSpoken(q, t) => LastSpoken(Append(q, Cancel(x)), t)
  BY <1>2, <1>3 DEF LastSpoken
<1> QED
  BY <1>4, <1>5

\* A run knows how many instructions had been issued before it.
LEMMA RunPlace ==
    ASSUME TypeOK, NEW k \in DOMAIN runs
    PROVE  runs[k].at \in Nat
<1>1. runs[k] \in Runs
  BY DEF TypeOK
<1>2. \A x \in Runs : x.at \in Nat
  BY DEF Runs
<1> QED
  BY <1>1, <1>2

\* A step that changes neither the current turn nor the histories of the turns, and
\* issues at most a CANCEL_CURRENT, settles nothing anew; what is playing was.
LEMMA SettledKept ==
    ASSUME TypeOK, SettledInv, UNCHANGED <<currentTurn, runs>>,
           Playing' => Playing, CancelsAtMost
    PROVE  SettledInv'
<1>1. issued \in Seq(Instructions) /\ Len(issued) \in Nat
      /\ \A k \in DOMAIN runs : runs[k].at \in Nat
  BY RunPlace DEF TypeOK
<1>2. Len(issued') >= Len(issued) /\ Len(issued') \in Nat
      /\ \A i \in 1 .. Len(issued) : issued'[i] = issued[i]
  <2>1. ASSUME NEW x \in Turns, issued' = Append(issued, Cancel(x))
        PROVE  Len(issued') = Len(issued) + 1
               /\ \A i \in 1 .. Len(issued) : issued'[i] = issued[i]
    BY <1>1, <2>1 DEF Cancel, Instructions
  <2> QED
    BY <1>1, <2>1 DEF CancelsAtMost
<1> QED
  BY <1>1, <1>2 DEF SettledInv

\* An accepted event that leaves the turns alone leaves what they were told true, as
\* long as no response is completed that a turn was already told of.
LEMMA ToldKept ==
    ASSUME TypeOK, ToldInv, runs' = runs, CancelsAtMost, CompletesAtMost
    PROVE  InterruptionsTold'
<1>1. issued \in Seq(Instructions) /\ Len(issued) \in Nat
  BY DEF TypeOK
<1>2. \A i \in 1 .. Len(issued) : issued'[i] = issued[i]
  <2>1. ASSUME NEW x \in Turns, issued' = Append(issued, Cancel(x))
        PROVE  \A i \in 1 .. Len(issued) : issued'[i] = issued[i]
    BY <1>1, <2>1 DEF Cancel, Instructions
  <2> QED
    BY <2>1 DEF CancelsAtMost
<1> SUFFICES ASSUME NEW k \in DOMAIN runs
             PROVE  LET before == {i \in 1 .. runs[k].at : issued'[i].action = "SPEAK"}
                    IN  /\ before = {} => runs[k].told = None
                        /\ \A i \in before : (\A j \in before : j <= i) =>
                              runs[k].told = IF issued'[i].turn \in completed'
                                                THEN None ELSE issued'[i].turn
  BY DEF InterruptionsTold
<1> DEFINE before == {i \in 1 .. runs[k].at : issued[i].action = "SPEAK"}
<1>3. runs[k].at \in Nat /\ runs[k].at <= Len(issued)
  BY RunPlace DEF ToldInv, SettledInv
<1>4. before = {i \in 1 .. runs[k].at : issued'[i].action = "SPEAK"}
      /\ \A i \in before : issued'[i] = issued[i]
  BY <1>1, <1>2, <1>3
<1>5. before = {} => runs[k].told = None
  BY DEF ToldInv, InterruptionsTold
<1>6. \A i \in before : (\A j \in before : j <= i) =>
          runs[k].told = IF issued[i].turn \in completed THEN None ELSE issued[i].turn
  BY DEF ToldInv, InterruptionsTold
<1>7. \A i \in before : issued[i].turn \in completed' <=> issued[i].turn \in completed
  <2> SUFFICES ASSUME NEW i \in before, Playing, issued[i].turn = active.turn PROVE FALSE
    BY DEF CompletesAtMost
  <2>1. currentTurn # None /\ active.turn = currentTurn
    BY DEF ToldInv, SpokenInv, Playing
  <2>2. issued[i] \in Instructions
    BY <1>1, <1>3
  <2>3. issued[i] = Speak(currentTurn)
    BY <2>1, <2>2 DEF Instructions, Speak
  <2> QED
    BY <2>3 DEF ToldInv, SettledInv
<1> HIDE DEF before
<1> QED
  BY <1>4, <1>5, <1>6, <1>7

\* The turn given to the processor now is told of the response spoken last.
LEMMA CutIsLast ==
    ASSUME TypeOK, SpokenInv, NewsInv, ~disconnected
    PROVE  LET before == {i \in 1 .. Len(issued) : issued[i].action = "SPEAK"}
           IN  /\ before = {} => Cut = None
               /\ \A i \in before : (\A j \in before : j <= i) =>
                     Cut = IF issued[i].turn \in completed THEN None ELSE issued[i].turn
<1> DEFINE before == {i \in 1 .. Len(issued) : issued[i].action = "SPEAK"}
<1>1. Len(issued) \in Nat /\ DOMAIN issued = 1 .. Len(issued)
  BY DEF TypeOK
<1>2. CASE currentTurn = None
  <2>1. before = {} /\ active = None /\ pending = None
    BY <1>1, <1>2 DEF SpokenInv, Unspoken
  <2>2. Cut = None
    BY <2>1 DEF Cut, Playing
  <2> QED
    BY <2>1, <2>2
<1>3. CASE currentTurn # None
  <2>1. PICK last \in DOMAIN issued :
            /\ issued[last] = Speak(currentTurn)
            /\ \A j \in DOMAIN issued : issued[j].action = "SPEAK" => j <= last
    BY <1>3 DEF SpokenInv, LastSpoken
  <2>2. issued[last].action = "SPEAK" /\ issued[last].turn = currentTurn
    BY <2>1 DEF Speak
  <2>3. last \in before
    BY <1>1, <2>2
  <2>4. ASSUME NEW i \in before, \A j \in before : j <= i PROVE i = last
    BY <1>1, <2>1, <2>3, <2>4
  <2> QED
    BY <2>2, <2>3, <2>4 DEF NewsInv
<1> QED
  BY <1>2, <1>3

\* Turns that reached the processor before this one were told the same.
LEMMA ToldOnStart ==
    ASSUME TypeOK, ToldInv, NEW e \in Events, StartTurn(e),
           \A i \in 1 .. Len(issued) : issued'[i] = issued[i]
    PROVE  InterruptionsTold'
<1> DEFINE run == [turn |-> e.turn, seq |-> e.seq, told |-> Cut, at |-> Len(issued)]
<1>1. Len(issued) \in Nat /\ DOMAIN runs = 1 .. Len(runs) /\ Len(runs) \in Nat
      /\ completed' = completed
  BY DEF TypeOK, StartTurn
<1>2. run \in Runs
  BY <1>1, EventType, OrdersType DEF StartTurn, Runs
<1>3. DOMAIN runs' = 1 .. Len(runs) + 1 /\ runs'[Len(runs) + 1] = run
      /\ \A k \in 1 .. Len(runs) : runs'[k] = runs[k]
  BY <1>2 DEF StartTurn, TypeOK
<1> SUFFICES ASSUME NEW k \in DOMAIN runs'
             PROVE  LET before == {i \in 1 .. runs'[k].at : issued'[i].action = "SPEAK"}
                    IN  /\ before = {} => runs'[k].told = None
                        /\ \A i \in before : (\A j \in before : j <= i) =>
                              runs'[k].told = IF issued'[i].turn \in completed'
                                                 THEN None ELSE issued'[i].turn
  BY DEF InterruptionsTold
<1> DEFINE before == {i \in 1 .. runs'[k].at : issued[i].action = "SPEAK"}
<1>4. runs'[k].at \in Nat /\ runs'[k].at <= Len(issued)
  <2>1. CASE k \in DOMAIN runs
    BY <1>1, <1>3, <2>1, RunPlace DEF ToldInv, SettledInv
  <2>2. CASE k = Len(runs) + 1
    BY <1>1, <1>3, <2>2
  <2> QED
    BY <1>1, <1>3, <2>1, <2>2
<1>5. before = {i \in 1 .. runs'[k].at : issued'[i].action = "SPEAK"}
      /\ \A i \in before : issued'[i] = issued[i]
  BY <1>1, <1>4
<1>6. /\ before = {} => runs'[k].told = None
      /\ \A i \in before : (\A j \in before : j <= i) =>
            runs'[k].told = IF issued[i].turn \in completed THEN None ELSE issued[i].turn
  <2>1. CASE k \in DOMAIN runs
    <3>1. runs'[k] = runs[k]
      BY <1>1, <1>3, <2>1
    <3> QED
      BY <2>1, <3>1 DEF ToldInv, InterruptionsTold
  <2>2. CASE k = Len(runs) + 1
    <3>1. runs'[k].at = Len(issued) /\ runs'[k].told = Cut /\ ~disconnected
      BY <1>3, <2>2 DEF StartTurn, Accept, Fresh
    <3> QED
      BY <3>1, CutIsLast DEF ToldInv
  <2> QED
    BY <1>1, <1>3, <2>1, <2>2
<1> HIDE DEF before, run
<1> QED
  BY <1>1, <1>5, <1>6

\* The instructions before a turn only cancel.
LEMMA OrdersCancel ==
    ASSUME TypeOK
    PROVE  /\ Orders \in Seq(Instructions) /\ Len(Orders) >= Len(issued)
           /\ \A i \in 1 .. Len(issued) : Orders[i] = issued[i]
           /\ Orders = issued \/ \E x \in Turns : Orders = Append(issued, Cancel(x))
<1>1. issued \in Seq(Instructions) /\ Len(issued) \in Nat
  BY DEF TypeOK
<1>2. CASE Playing
  <2>1. active.turn \in Turns /\ Orders = Append(issued, Cancel(active.turn))
    BY <1>2 DEF Playing, TypeOK, ActiveDeliveries, Orders
  <2>2. Cancel(active.turn) \in Instructions
    BY <2>1 DEF Cancel, Instructions
  <2> QED
    BY <1>1, <2>1, <2>2
<1>3. CASE ~Playing
  BY <1>1, <1>3 DEF Orders
<1> QED
  BY <1>2, <1>3

\* The turn that starts is settled against no response: its own is new.
LEMMA SettledOnStart ==
    ASSUME TypeOK, OrderInv, SettledInv, NEW e \in Events, StartTurn(e),
           Len(issued') \in Nat, Len(issued') >= Len(issued),
           \A i \in 1 .. Len(issued) : issued'[i] = issued[i],
           currentTurn' = e.turn \/ ~Playing'
    PROVE  SettledInv'
<1> DEFINE run == [turn |-> e.turn, seq |-> e.seq, told |-> Cut, at |-> Len(issued)]
<1>1. Len(issued) \in Nat /\ DOMAIN runs = 1 .. Len(runs) /\ Len(runs) \in Nat
      /\ DOMAIN issued = 1 .. Len(issued)
  BY DEF TypeOK
<1>2. run \in Runs
  BY <1>1, EventType, OrdersType DEF StartTurn, Runs
<1>3. DOMAIN runs' = 1 .. Len(runs) + 1 /\ runs'[Len(runs) + 1] = run
      /\ \A k \in 1 .. Len(runs) : runs'[k] = runs[k]
  BY <1>2 DEF StartTurn, TypeOK
<1>4. ASSUME NEW k \in DOMAIN runs' PROVE runs'[k].at \in Nat /\ runs'[k].at <= Len(issued)
  <2>1. CASE k \in DOMAIN runs
    BY <1>1, <1>3, <2>1, RunPlace DEF SettledInv
  <2>2. CASE k = Len(runs) + 1
    BY <1>1, <1>3, <2>2
  <2> QED
    BY <1>1, <1>3, <2>1, <2>2
<1>5. \A i \in 1 .. Len(issued) : issued[i] # Speak(e.turn)
  <2>1. \A i \in DOMAIN issued :
            issued[i].action = "SPEAK" => issued[i].turn \in processedTurns
    BY DEF OrderInv
  <2>2. e.turn \notin processedTurns
    BY DEF StartTurn
  <2>3. Speak(e.turn).action = "SPEAK" /\ Speak(e.turn).turn = e.turn
    BY DEF Speak
  <2> QED
    BY <1>1, <2>1, <2>2, <2>3
<1>6. ASSUME NEW k \in DOMAIN runs', NEW i \in 1 .. runs'[k].at,
             issued'[i] = Speak(currentTurn')
      PROVE  ~Playing'
  BY <1>1, <1>4, <1>5, <1>6
<1>7. \A k \in DOMAIN runs' : runs'[k].at <= Len(issued')
  BY <1>1, <1>4
<1> HIDE DEF run
<1> QED
  BY <1>6, <1>7 DEF SettledInv

\* A turn that reaches the processor cuts what is playing; the news of it is
\* absorbed by a turn that is processed, and kept by one that fails.
LEMMA StartTold ==
    ASSUME TypeOK, TypeOK', OrderInv, ToldInv, NEW e \in Events,
           TurnProcessed(e) \/ TurnFailed(e)
    PROVE  ToldInv'
<1>0. /\ StartTurn(e) /\ ~disconnected /\ ~disconnected' /\ completed' = completed
      /\ e.turn \in Turns /\ e.turn \notin completed /\ e.turn # None
      /\ completed \subseteq processedTurns'
      /\ Orders \in Seq(Instructions) /\ Len(issued) \in Nat /\ Len(Orders) \in Nat
  BY EventType, OrdersType, CoordinatorAssumption
     DEF TurnProcessed, TurnFailed, StartTurn, Accept, Fresh, ToldInv, NewsInv, TypeOK
<1>1. Len(Orders) >= Len(issued) /\ \A i \in 1 .. Len(issued) : Orders[i] = issued[i]
  BY OrdersCancel
<1>2. CASE TurnProcessed(e)
  <2>1. active' = [turn |-> e.turn, status |-> "PENDING", progress |-> "NOT_STARTED"]
        /\ currentTurn' = e.turn /\ pending' = None
        /\ issued' = Append(Orders, Speak(e.turn))
    BY <1>2 DEF TurnProcessed
  <2>2. active' \in ActiveDeliveries
    BY <1>0, <2>1 DEF ActiveDeliveries, Status, Live, Progress
  <2>3. Playing'
    BY <2>1, <2>2, NoneAssumption DEF Playing, Live
  <2>4. Len(issued') = Len(Orders) + 1 /\ \A i \in 1 .. Len(Orders) : issued'[i] = Orders[i]
    BY <1>0, <2>1 DEF Speak, Instructions
  <2>5. LastSpoken(issued', e.turn)
    BY <1>0, <2>1, SpeakIsLast
  <2>6. SpokenInv'
    BY <1>0, <2>1, <2>2, <2>5, NoneAssumption DEF SpokenInv
  <2>7. NewsInv'
    BY <1>0, <2>1, <2>3 DEF NewsInv, Cut
  <2>8. Len(issued') \in Nat /\ Len(issued') >= Len(issued)
        /\ \A i \in 1 .. Len(issued) : issued'[i] = issued[i]
    BY <1>0, <1>1, <2>4
  <2>9. SettledInv' /\ InterruptionsTold'
    BY <1>0, <2>1, <2>8, SettledOnStart, ToldOnStart DEF ToldInv
  <2> QED
    BY <2>6, <2>7, <2>9 DEF ToldInv
<1>3. CASE TurnFailed(e)
  <2>1. active' = (IF Playing THEN [active EXCEPT !.status = "CANCELLED"] ELSE active)
        /\ currentTurn' = currentTurn /\ pending' = Cut /\ issued' = Orders
    BY <1>3 DEF TurnFailed
  <2>2. Playing => active \in ActiveDeliveries /\ active'.status = "CANCELLED"
                   /\ active' # None /\ active'.turn = active.turn
    <3>1. Playing => active \in ActiveDeliveries /\ active' \in ActiveDeliveries \cup {None}
      BY DEF Playing, TypeOK
    <3> QED
      BY <2>1, <3>1, NoneAssumption DEF ActiveDeliveries, Status, Live
  <2>3. ~Playing'
    BY <2>1, <2>2 DEF Playing, Live
  <2>4. Cut' = Cut
    BY <2>1, <2>3 DEF Cut
  <2>5. NewsInv'
    BY <1>0, <2>1, <2>3, <2>4 DEF ToldInv, NewsInv
  <2>6. currentTurn = None => Orders = issued /\ Cut = None /\ active' = None
    BY <2>1 DEF ToldInv, SpokenInv, Orders, Cut, Playing
  <2>7. currentTurn # None => LastSpoken(Orders, currentTurn)
    <3>1. issued \in Seq(Instructions)
      BY DEF TypeOK
    <3> QED
      BY <3>1, OrdersCancel, CancelSpeaksNothing DEF ToldInv, SpokenInv
  <2>8. currentTurn # None => active' # None /\ active'.turn = currentTurn
    BY <2>1, <2>2 DEF ToldInv, SpokenInv
  <2>9. SpokenInv'
    BY <2>1, <2>6, <2>7, <2>8 DEF ToldInv, SpokenInv
  <2>10. SettledInv' /\ InterruptionsTold'
    BY <1>0, <1>1, <2>1, <2>3, SettledOnStart, ToldOnStart DEF ToldInv
  <2> QED
    BY <2>5, <2>9, <2>10 DEF ToldInv
<1> QED
  BY <1>2, <1>3

\* Speech, reports and the hang-up leave the last response last.
LEMMA SpokenKept ==
    ASSUME TypeOK, SpokenInv, currentTurn' = currentTurn,
           \/ active' = active
           \/ active # None /\ active' # None /\ active'.turn = active.turn,
           pending' = pending \/ active # None, CancelsAtMost
    PROVE  SpokenInv'
<1>1. issued \in Seq(Instructions)
  BY DEF TypeOK
<1>2. CASE currentTurn = None
  BY <1>2 DEF SpokenInv, CancelsAtMost
<1>3. CASE currentTurn # None
  <2>1. LastSpoken(issued, currentTurn) /\ active # None /\ active.turn = currentTurn
    BY <1>3 DEF SpokenInv
  <2>2. LastSpoken(issued', currentTurn)
    BY <1>1, <2>1, CancelSpeaksNothing DEF CancelsAtMost
  <2> QED
    BY <1>3, <2>1, <2>2 DEF SpokenInv
<1> QED
  BY <1>2, <1>3

\* The caller starts to speak.
LEMMA SpeechTold ==
    ASSUME TypeOK, ToldInv, NEW e \in Events, SpeechStarted(e)
    PROVE  ToldInv'
<1>0. /\ UNCHANGED <<processedTurns, currentTurn, disconnected, runs, completed>>
      /\ SpokenInv /\ NewsInv /\ SettledInv
  BY DEF SpeechStarted, ToldInv
<1>1. CompletesAtMost
  BY <1>0 DEF CompletesAtMost
<1>2. CASE ~Playing
  <2>1. UNCHANGED <<active, pending, issued>>
    BY <1>2 DEF SpeechStarted
  <2>2. CancelsAtMost /\ Playing' = Playing /\ Cut' = Cut
    BY <2>1 DEF CancelsAtMost, Playing, Cut
  <2>3. SpokenInv' /\ SettledInv' /\ InterruptionsTold'
    BY <1>0, <1>1, <2>1, <2>2, SpokenKept, SettledKept, ToldKept
  <2>4. NewsInv'
    BY <1>0, <2>1, <2>2 DEF NewsInv
  <2> QED
    BY <2>3, <2>4 DEF ToldInv
<1>3. CASE Playing
  <2>1. active \in ActiveDeliveries /\ active # None /\ active.turn \in Turns
    BY <1>3 DEF Playing, TypeOK, ActiveDeliveries
  <2>2. pending' = active.turn /\ issued' = Append(issued, Cancel(active.turn))
        /\ active' = [active EXCEPT
                        !.status = "INTERRUPTED",
                        !.progress = IF active.status = "DELIVERING"
                                        THEN "PARTIAL" ELSE "NOT_STARTED"]
    BY <1>3 DEF SpeechStarted
  <2>3. active' \in ActiveDeliveries /\ active'.status = "INTERRUPTED"
        /\ active'.turn = active.turn
    BY <2>1, <2>2 DEF ActiveDeliveries, Status, Progress
  <2>4. active' # None /\ ~Playing' /\ CancelsAtMost
    BY <2>1, <2>2, <2>3, NoneAssumption DEF Playing, Live, CancelsAtMost
  <2>5. SpokenInv'
    BY <1>0, <2>1, <2>3, <2>4, SpokenKept
  <2>6. NewsInv'
    BY <1>0, <1>3, <2>2, <2>4 DEF NewsInv, Cut
  <2>7. SettledInv' /\ InterruptionsTold'
    BY <1>0, <1>1, <2>4, SettledKept, ToldKept
  <2> QED
    BY <2>5, <2>6, <2>7 DEF ToldInv
<1> QED
  BY <1>2, <1>3

\* The player reports.
LEMMA ReportTold ==
    ASSUME TypeOK, OrderInv, ToldInv, NEW e \in Events,
           NEW status \in {"DELIVERING", "COMPLETED", "INTERRUPTED"},
           DeliveryUpdate(e, status)
    PROVE  ToldInv'
<1>0. /\ UNCHANGED <<processedTurns, currentTurn, disconnected, issued, runs>>
      /\ ~disconnected /\ SpokenInv /\ NewsInv /\ SettledInv
  BY DEF DeliveryUpdate, Accept, Fresh, ToldInv
<1>1. CancelsAtMost
  BY <1>0 DEF CancelsAtMost
<1>2. CASE ~(Playing /\ e.turn = currentTurn)
  <2>1. UNCHANGED <<active, pending, completed>>
    BY <1>2 DEF DeliveryUpdate
  <2>2. CompletesAtMost /\ Playing' = Playing /\ Cut' = Cut
    BY <2>1 DEF CompletesAtMost, Playing, Cut
  <2>3. SpokenInv' /\ SettledInv' /\ InterruptionsTold'
    BY <1>0, <1>1, <2>1, <2>2, SpokenKept, SettledKept, ToldKept
  <2>4. NewsInv'
    BY <1>0, <2>1, <2>2 DEF NewsInv
  <2> QED
    BY <2>3, <2>4 DEF ToldInv
<1>3. CASE Playing /\ e.turn = currentTurn
  <2>1. active \in ActiveDeliveries /\ active # None /\ active.turn = currentTurn
        /\ currentTurn # None
    BY <1>0, <1>3 DEF Playing, TypeOK, SpokenInv
  <2>2. /\ active' = [active EXCEPT
                        !.status = status,
                        !.progress = IF status = "COMPLETED" THEN "COMPLETED" ELSE "PARTIAL"]
        /\ pending' = IF status = "INTERRUPTED" THEN active.turn ELSE pending
        /\ completed' = IF status = "COMPLETED"
                           THEN completed \cup {active.turn} ELSE completed
    BY <1>3 DEF DeliveryUpdate
  <2>3. active' \in ActiveDeliveries /\ active'.status = status
        /\ active'.turn = active.turn
    BY <2>1, <2>2 DEF ActiveDeliveries, Status, Live, Progress
  <2>4. active' # None /\ (Playing' <=> status = "DELIVERING") /\ CompletesAtMost
    BY <1>3, <2>2, <2>3, NoneAssumption DEF Playing, Live, CompletesAtMost
  <2>5. SpokenInv'
    BY <1>0, <1>1, <2>1, <2>3, <2>4, SpokenKept
  <2>6. pending = None /\ Cut = currentTurn /\ currentTurn \notin completed
    BY <1>0, <1>3, <2>1 DEF NewsInv, Cut
  <2>7. currentTurn \in processedTurns
    <3>1. PICK i \in DOMAIN issued : issued[i] = Speak(currentTurn)
      BY <1>0, <2>1 DEF SpokenInv, LastSpoken
    <3>2. issued[i].action = "SPEAK" /\ issued[i].turn = currentTurn
      BY <3>1 DEF Speak
    <3> QED
      BY <3>2 DEF OrderInv
  <2>8. NewsInv'
    <3>1. completed' \subseteq processedTurns'
      BY <1>0, <2>1, <2>2, <2>7 DEF NewsInv
    <3>2. Playing' => pending' = None
      BY <2>2, <2>4, <2>6
    <3>3. Cut' = IF currentTurn' \in completed' THEN None ELSE currentTurn'
      BY <1>0, <2>1, <2>2, <2>3, <2>4, <2>6 DEF Cut
    <3> QED
      BY <3>1, <3>2, <3>3 DEF NewsInv
  <2>9. SettledInv' /\ InterruptionsTold'
    BY <1>0, <1>1, <1>3, <2>4, SettledKept, ToldKept
  <2> QED
    BY <2>5, <2>8, <2>9 DEF ToldInv
<1> QED
  BY <1>2, <1>3

\* The caller hangs up.
LEMMA HangUpTold ==
    ASSUME TypeOK, ToldInv, NEW e \in Events, Disconnect(e)
    PROVE  ToldInv'
<1>0. /\ UNCHANGED <<processedTurns, currentTurn, runs, completed>>
      /\ disconnected' = TRUE /\ pending' = None
      /\ SpokenInv /\ NewsInv /\ SettledInv
  BY DEF Disconnect, ToldInv
<1>1. /\ ~Playing' /\ CancelsAtMost
      /\ \/ active' = active
         \/ active # None /\ active' # None /\ active'.turn = active.turn
  <2>1. CASE active # None /\ active.status \notin {"COMPLETED", "CANCELLED"}
    <3>1. active \in ActiveDeliveries /\ active.turn \in Turns
      BY <2>1 DEF TypeOK, ActiveDeliveries
    <3>2. active' = [active EXCEPT !.status = "CANCELLED"]
          /\ issued' = Append(issued, Cancel(active.turn))
      BY <2>1 DEF Disconnect
    <3>3. active' \in ActiveDeliveries /\ active'.status = "CANCELLED"
          /\ active'.turn = active.turn
      BY <3>1, <3>2 DEF ActiveDeliveries, Status
    <3> QED
      BY <2>1, <3>1, <3>2, <3>3, NoneAssumption DEF Playing, Live, CancelsAtMost
  <2>2. CASE ~(active # None /\ active.status \notin {"COMPLETED", "CANCELLED"})
    <3>1. active' = active /\ issued' = issued
      BY <2>2 DEF Disconnect
    <3> QED
      BY <2>2, <3>1 DEF Playing, Live, CancelsAtMost
  <2> QED
    BY <2>1, <2>2
<1>2. pending' = pending \/ active # None
  BY <1>0 DEF SpokenInv
<1>3. CompletesAtMost
  BY <1>0 DEF CompletesAtMost
<1>4. SpokenInv' /\ SettledInv' /\ InterruptionsTold'
  BY <1>0, <1>1, <1>2, <1>3, SpokenKept, SettledKept, ToldKept
<1>5. NewsInv'
  BY <1>0, <1>1 DEF NewsInv
<1> QED
  BY <1>4, <1>5 DEF ToldInv

\* Every step keeps what turns are told true.
LEMMA NextTold == TypeOK /\ OrderInv /\ ToldInv /\ [Next]_vars => ToldInv'
<1> SUFFICES ASSUME TypeOK, OrderInv, ToldInv, [Next]_vars PROVE ToldInv'
  OBVIOUS
<1>1. CASE UNCHANGED state
  BY <1>1 DEF state, ToldInv, SpokenInv, NewsInv, SettledInv, InterruptionsTold,
              Playing, Cut, Unspoken, LastSpoken
<1>2. TypeOK'
  BY NextType
<1> QED
  BY <1>1, <1>2, StartTold, SpeechTold, ReportTold, HangUpTold, StepCases
     DEF vars, Stale, NoEffect, RepeatedTurn

\* Whatever the transport repeats, delays or reorders, and whichever turns fail, each
\* turn is told exactly of the response spoken last before it, unless that had been
\* delivered to its end.
THEOREM InterruptionsToldCorrect == Spec => []InterruptionsTold
<1>1. Init => OrderInv
  BY DEF Init, OrderInv, TurnsOnceInOrder
<1>2. Init => ToldInv
  <2> SUFFICES ASSUME Init PROVE ToldInv
    OBVIOUS
  <2>1. SpokenInv /\ SettledInv /\ InterruptionsTold
    BY DEF Init, SpokenInv, SettledInv, InterruptionsTold, Unspoken
  <2>2. NewsInv
    BY DEF Init, NewsInv, Cut, Playing
  <2> QED
    BY <2>1, <2>2 DEF ToldInv
<1>3. TypeOK /\ OrderInv /\ [Next]_vars => OrderInv'
  BY NextOrder
<1>4. TypeOK /\ OrderInv /\ ToldInv /\ [Next]_vars => ToldInv'
  BY NextTold
<1>5. ToldInv => InterruptionsTold
  BY DEF ToldInv
<1> QED
  BY <1>1, <1>2, <1>3, <1>4, <1>5, TypeCorrect, PTL DEF Spec

-----------------------------------------------------------------------------
(* The inductive invariant of the reply.                                     *)

Lengths == {"short", "moderate", "detailed"}

CallFields == {"id", "campaign", "stage", "about", "problem", "recent", "prior",
               "turns", "calls", "eligible", "offered", "contact", "confirmed",
               "greeting", "over"}

TurnFields == {"heard", "advice", "result", "action", "scope", "tier", "view",
               "proposal", "escalation", "consultative", "answer", "guidance"}

ReplyFields == {"text", "worded", "goal", "question", "result", "proposal",
                "addressee", "service", "view", "over"}

\* A record with these fields.
Has(r, fields) == DOMAIN r = fields /\ r = [f \in fields |-> r[f]]

\* Each step finds the records that the step before left it.
Shapes ==
    /\ phase \in {"hear", "decide", "consult", "speak"}
    /\ Has(call, CallFields)
    /\ call.stage \in DOMAIN StageRank
    /\ call.turns \in Nat /\ call.calls \in Nat
    /\ call.calls <= Policies.budget.calls
    /\ phase # "hear" => Has(turn, TurnFields) /\ turn.heard \in Heard
    /\ reply # None => phase = "hear" /\ Has(reply, ReplyFields)

\* The context a turn is given does not contradict itself.
Clear(c) == ~ContradictsItself(Business.evidence, c)

ClearContext ==
    /\ phase = "decide" => Clear(call)
    /\ phase \in {"consult", "speak"} => Clear(Seen(call, turn.view))

\* The stage advised is none behind the one reached.
Onward ==
    (phase = "decide" /\ turn.advice # None) =>
        /\ turn.advice.stage \in DOMAIN StageRank
        /\ StageRank[turn.advice.stage] >= StageRank[call.stage]

\* What is executed is permitted, and was not decided by a priority.
Approved ==
    (phase \in {"consult", "speak"} /\ turn.result = "executed") =>
        turn.heard.priority = None /\ Permitted(turn.proposal)

Unadvised(t) == /\ t.escalation = None /\ t.consultative = None
                /\ t.answer = None /\ t.guidance = None

\* What the policies had to say of a turn comes of the context it was given.
Advised(t) ==
    LET c == Seen(call, t.view)
        fit == ServiceFit(c.problem, Shop(c))
    IN  /\ t.escalation = Escalated(EscalationFacts(c, t.heard),
                                    EscalationRequest(t.heard), t.scope, t.tier)
        /\ t.answer = ServiceAnswer(fit, Shop(c))
        /\ t.consultative.depth \in Lengths
        /\ t.guidance.depth \in Lengths
        /\ ValidGuidance(t.guidance, [recent |-> call.recent,
                                      fit |-> FitOf(t.consultative)])

Advising ==
    /\ phase \in {"decide", "consult"} => Unadvised(turn)
    /\ phase = "speak" => IF turn.heard.priority = None THEN Advised(turn)
                          ELSE Unadvised(turn)

\* The turns that are over.
Done == IF phase \in {"consult", "speak"} THEN call.turns - 1 ELSE call.turns

\* What was asked in the last turns is among the recent concepts, no further
\* back than the turns since.
Remembered ==
    /\ call.recent \in Seq(Range(call.recent))
    /\ None \notin Range(call.recent)
    /\ Len(call.recent) <= MaxRecentConcepts
    /\ asked \in Seq(Range(asked))
    /\ phase \in {"consult", "speak"} => call.turns > 0
    /\ \A i \in DOMAIN asked :
          /\ asked[i].turn \in Nat
          /\ Done - asked[i].turn < MaxRecentConcepts =>
                \E k \in DOMAIN call.recent :
                    /\ call.recent[k] = asked[i].concept
                    /\ Len(call.recent) - k <= Done - asked[i].turn

ReplyIInv ==
    /\ Shapes /\ ClearContext /\ Onward /\ Approved /\ Advising /\ Remembered
    /\ EvidenceOnly /\ NothingBeyondAuthority /\ OfferIsBacked
    /\ NoQuestionTwice

-----------------------------------------------------------------------------
(* What the renderer's words can be made of.                                 *)

\* The renderer's own sentences, other than an offer or a discovery question.
Plainly == Wording \ (Offering \cup {"discovery_question"})

\* Everything the renderer may say of r is in X.
Lets(r, X) ==
    /\ Plainly \subseteq X
    /\ r.plan.length \in Lengths /\ r.budget \in Nat \ {0}
    /\ r.facts \in Seq(X)
    /\ r.plan.question # None => "discovery_question" \in X
    /\ r.escalation # None =>
          /\ r.escalation.mode = "offer_human_follow_up" =>
                "may_request_human" \in X
          /\ r.escalation.mode = "offer_callback" => "may_request_callback" \in X
          /\ r.escalation.mode = "offer_information_follow_up" =>
                "may_request_information" \in X
          /\ r.escalation.mode = "answer_with_evidence" =>
                \A e \in r.evidence : e.id \in r.escalation.cites => e.statement \in X
    /\ r.answer # None => r.answer.statement \in X

\* A text made of nothing but X.
Tells(text, X) == text \in Seq(SUBSET X)

\* A sentence of one thing.
LEMMA SaysTells ==
    ASSUME NEW X, NEW clause \in X
    PROVE  /\ Tells(Says(clause), X) /\ Len(Says(clause)) = 1
           /\ Says(clause) # <<>>
  BY DEF Tells, Says

\* Two texts after each other.
LEMMA BothTell ==
    ASSUME NEW X, NEW s, NEW t, Tells(s, X), Tells(t, X)
    PROVE  Tells(s \o t, X)
  BY DEF Tells

\* One of the plain sentences, whatever else may be said.
LEMMA PlainTells ==
    ASSUME NEW X, NEW clause \in Plainly, Plainly \subseteq X
    PROVE  /\ Tells(Says(clause), X) /\ Says(clause) # <<>>
           /\ Len(Says(clause)) = 1
<1>1. clause \in X
  OBVIOUS
<1> QED
  BY <1>1, SaysTells

\* The empty text says nothing.
LEMMA NothingTells == \A X : Tells(<<>>, X)
  BY DEF Tells

\* The plain sentences by name: the questions, and the others.
LEMMA PlainWords ==
    /\ {"was_that_for_me", "clarify_missed", "contact_right", "clarify_meaning",
        "what_next", "main_issue", "how_to_continue", "which_contact",
        "clarify_detail", "who_is_speaking", "small_next_step", "clarify_that",
        "clarify_need"} \subseteq Plainly
    /\ {"greeting", "reason_for_call", "missing_fact", "return_to_point",
        "cannot_authorize", "only_a_request", "cannot_transfer", "unavailable",
        "contact_needed", "cannot_disclose", "cannot_help", "understood",
        "leave_it", "no_guarantee", "business_call", "simpler", "keep_it_brief",
        "will_not_force", "useful_context", "connects_to_point",
        "understand_first", "use_correction", "focus_on_that", "acknowledged",
        "contact_confirmed", "needs_confirmation", "cannot_confirm",
        "missed_that", "coming_back", "take_your_time", "optout_recorded",
        "not_continuing", "framing", "identity"} \subseteq Plainly
  BY DEF Plainly, Wording, Offering, Questions

\* The words for an addressee.
LEMMA AddresseeTells ==
    ASSUME NEW r, NEW X, Plainly \subseteq X
    PROVE  Tells(AddresseeText(r), X)
  BY PlainTells, PlainWords DEF AddresseeText

\* Coming back to the unfinished point adds a plain sentence.
LEMMA ResumeTells ==
    ASSUME NEW r, NEW X, NEW text, Plainly \subseteq X, Tells(text, X)
    PROVE  Tells(WithResume(text, r), X)
<1>1. Tells(Says("return_to_point"), X)
  BY PlainTells, PlainWords
<1> QED
  BY <1>1, BothTell DEF WithResume

\* The words of a recovery action are plain.
LEMMA ActionTells ==
    ASSUME NEW action, NEW X, Plainly \subseteq X
    PROVE  Tells(TypedAction(action), X)
  BY PlainTells, PlainWords DEF TypedAction

\* What is admitted is plain.
LEMMA AdmissionTells ==
    ASSUME NEW d, NEW X, Plainly \subseteq X
    PROVE  Tells(Admission(d), X)
  BY PlainTells, PlainWords, NothingTells DEF Admission, MissingFact

\* An offer is one that may be said.
LEMMA OfferTells ==
    ASSUME NEW r, NEW X, Lets(r, X), r.escalation # None
    PROVE  Tells(Offer(r.escalation.mode), X)
  BY SaysTells, NothingTells DEF Offer, Lets

\* The words of an escalation.
LEMMA EscalationTells ==
    ASSUME NEW r, NEW X, Lets(r, X), r.escalation # None
    PROVE  Tells(EscalationText(r), X)
<1> DEFINE d == r.escalation
           cited == {e \in r.evidence : e.id \in d.cites}
<1>0. Plainly \subseteq X
  BY DEF Lets
<1>1. CASE d.mode = "answer_with_evidence"
  <2>1. CASE cited = {}
    <3>1. EscalationText(r) = MissingFact
      BY <1>1, <2>1 DEF EscalationText
    <3> QED
      BY <3>1, <1>0, PlainTells, PlainWords DEF MissingFact
  <2>2. CASE cited # {}
    <3>1. PICK e : e = CHOOSE x \in cited : TRUE
      OBVIOUS
    <3>2. e \in cited
      BY <3>1, <2>2
    <3>3. e.statement \in X
      BY <1>1, <3>2 DEF Lets
    <3>4. EscalationText(r) = WithResume(Says(e.statement), r)
      BY <1>1, <2>2, <3>1 DEF EscalationText
    <3> QED
      BY <1>0, <3>3, <3>4, SaysTells, ResumeTells
  <2> QED
    BY <2>1, <2>2
<1>2. CASE d.mode = "ask_clarifying_question"
  <2>1. /\ Tells(Says("contact_needed") \o Says("which_contact"), X)
        /\ Tells(Says("clarify_detail"), X)
    BY <1>0, PlainTells, PlainWords, BothTell
  <2> QED
    BY <1>2, <2>1 DEF EscalationText
<1>3. CASE d.mode = "safe_redirect"
  BY <1>0, <1>3, PlainTells, PlainWords DEF EscalationText
<1>4. CASE d.mode = "polite_wrap_up"
  <2>1. Tells(Says("understood") \o Says("leave_it"), X)
    BY <1>0, PlainTells, PlainWords, BothTell
  <2> QED
    BY <1>4, <2>1 DEF EscalationText
<1>5. CASE d.mode \notin {"answer_with_evidence", "ask_clarifying_question",
                          "safe_redirect", "polite_wrap_up"}
  <2>1. Tells(Admission(d) \o Offer(d.mode), X)
    BY <1>0, AdmissionTells, OfferTells, BothTell
  <2>2. EscalationText(r) = WithResume(Admission(d) \o Offer(d.mode), r)
    BY <1>5 DEF EscalationText
  <2> QED
    BY <1>0, <2>1, <2>2, ResumeTells
<1> QED
  BY <1>1, <1>2, <1>3, <1>4, <1>5

\* The words about a service that fits.
LEMMA FitTells ==
    ASSUME NEW answer, NEW X, Plainly \subseteq X,
           answer # None => answer.statement \in X
    PROVE  Tells(GroundedServiceFit(answer), X)
<1>1. Tells(MissingFact, X) /\ Tells(Says("no_guarantee"), X)
  BY PlainTells, PlainWords DEF MissingFact
<1>2. CASE answer = None
  BY <1>1, <1>2 DEF GroundedServiceFit
<1>3. CASE answer # None
  <2>1. Tells(Says(answer.statement), X)
    BY <1>3, SaysTells
  <2> QED
    BY <1>1, <2>1, BothTell DEF GroundedServiceFit
<1> QED
  BY <1>2, <1>3

\* The words of a consultative decision.
LEMMA ConsultativeTells ==
    ASSUME NEW r, NEW X, Lets(r, X)
    PROVE  Tells(ConsultativeText(r), X)
<1> DEFINE c == r.consultative
<1>0. Plainly \subseteq X
  BY DEF Lets
<1>1. /\ Tells(Says("business_call"), X) /\ Tells(Says("simpler"), X)
      /\ Tells(Says("keep_it_brief"), X) /\ Tells(Says("will_not_force"), X)
      /\ Tells(Says("small_next_step"), X) /\ Tells(Says("useful_context"), X)
      /\ Tells(MissingFact, X) /\ Tells(<<>>, X)
  BY <1>0, PlainTells, PlainWords, NothingTells DEF MissingFact
<1>2. Tells(GroundedServiceFit(r.answer), X)
  BY <1>0, FitTells DEF Lets
<1>3. r.plan.question # None => Tells(Says("discovery_question"), X)
  BY SaysTells DEF Lets
<1> QED
  BY <1>1, <1>2, <1>3 DEF ConsultativeText

\* The limit on the sentences is never above the budget.
LEMMA LimitIs ==
    ASSUME NEW r, r.plan.length \in Lengths, r.budget \in Nat \ {0}
    PROVE  SentenceLimit(r) \in Nat \ {0} /\ SentenceLimit(r) <= r.budget
  BY DEF SentenceLimit, LengthGuidance, Lengths

\* A text keeps to what it says when it is cut to the budget.
LEMMA FittedTells ==
    ASSUME NEW r, NEW X, NEW text, Lets(r, X), Tells(text, X)
    PROVE  Tells(FitToBudget(text, r), X)
<1>1. PICK limit : limit = SentenceLimit(r)
  OBVIOUS
<1>2. limit \in Nat \ {0}
  BY <1>1, LimitIs DEF Lets
<1>3. PICK n : n = Len(text)
  OBVIOUS
<1>4. n \in Nat /\ DOMAIN text = 1..n /\ \A i \in 1..n : text[i] \in SUBSET X
  BY <1>3 DEF Tells
<1> SUFFICES ASSUME ~(n <= limit)
             PROVE  Tells(FitToBudget(text, r), X)
  BY <1>1, <1>3 DEF FitToBudget
<1>5. n > 1 /\ n - 1 \in 1..n /\ n \in 1..n /\ 1 \in 1..n
  BY <1>2, <1>4
<1>6. /\ Tells(<<text[1]>>, X) /\ Tells(<<text[n - 1] \cup text[n]>>, X)
      /\ Tells(<<text[1] \cup text[n]>>, X)
  BY <1>4, <1>5 DEF Tells
<1>7. ASSUME NEW a \in 1..n, NEW b \in 0..n
      PROVE  Tells(SubSeq(text, a, b), X)
  BY <1>4 DEF Tells
<1>8. /\ Tells(SubSeq(text, 1, limit), X)
      /\ Tells(SubSeq(text, n - limit + 1, n), X)
      /\ Tells(SubSeq(text, 1, limit - 1), X)
  BY <1>2, <1>4, <1>5, <1>7
<1>9. Tells(Append(SubSeq(text, 1, limit - 1), text[n]), X)
  BY <1>4, <1>5, <1>8 DEF Tells
<1> QED
  BY <1>1, <1>3, <1>6, <1>8, <1>9 DEF FitToBudget

\* The approved facts of a turn.
LEMMA FactsTell ==
    ASSUME NEW r, NEW X, Lets(r, X)
    PROVE  /\ Tells(Facts(r), X)
           /\ \A otherwise : Tells(otherwise, X) =>
                 Tells(FactsOr(r, otherwise), X)
<1>1. PICK n \in Nat : DOMAIN r.facts = 1..n
  BY DEF Lets
<1>2. \A i \in 1..n : r.facts[i] \in X
  BY <1>1 DEF Lets
<1>3. Facts(r) = [i \in 1..n |-> {r.facts[i]}]
  BY <1>1 DEF Facts
<1>4. \A i \in 1..n : {r.facts[i]} \in SUBSET X
  BY <1>2
<1>5. Facts(r) \in [1..n -> SUBSET X]
  BY <1>3, <1>4
<1>6. Tells(Facts(r), X)
  BY <1>5 DEF Tells
<1> QED
  BY <1>6 DEF FactsOr

\* The words of a plan.
LEMMA PlannedTells ==
    ASSUME NEW r, NEW X, Lets(r, X)
    PROVE  Tells(PlannedText(r), X)
<1>0. Plainly \subseteq X
  BY DEF Lets
<1>1. /\ Tells(MissingFact, X) /\ Tells(<<>>, X)
      /\ Tells(Says("connects_to_point"), X) /\ Tells(Says("use_correction"), X)
      /\ Tells(Says("focus_on_that"), X) /\ Tells(Says("clarify_meaning"), X)
      /\ Tells(Says("what_next"), X) /\ Tells(Says("main_issue"), X)
      /\ Tells(Says("acknowledged"), X)
      /\ Tells(TypedAction(r.plan.action), X)
      /\ Tells(Says("understand_first"), X)
  BY <1>0, PlainTells, PlainWords, NothingTells, ActionTells DEF MissingFact
<1>2. Tells(Facts(r) \o Says("understand_first"), X)
  BY <1>1, FactsTell, BothTell
<1>3. Append(Facts(r), {"understand_first"}) =
        Facts(r) \o Says("understand_first")
  <2>1. PICK f : f = Facts(r)
    OBVIOUS
  <2>2. PICK S : S = SUBSET X
    OBVIOUS
  <2>3. f \in Seq(S) /\ {"understand_first"} \in S
    BY <1>0, <2>1, <2>2, FactsTell, PlainWords DEF Tells
  <2>4. Append(f, {"understand_first"}) = f \o <<{"understand_first"}>>
    BY <2>3, AppendIsConcat
  <2> QED
    BY <2>1, <2>4 DEF Says
<1>4. /\ Tells(FactsOr(r, MissingFact), X)
      /\ Tells(FactsOr(r, Says("use_correction")), X)
      /\ Tells(FactsOr(r, Says("focus_on_that")), X)
      /\ Tells(FactsOr(r, TypedAction(r.plan.action)), X)
  BY <1>1, FactsTell
<1>5. /\ Tells(FactsOr(r, MissingFact) \o Says("connects_to_point"), X)
      /\ Tells(FactsOr(r, MissingFact) \o <<>>, X)
  BY <1>1, <1>4, BothTell
<1>6. PICK goal : goal =
        CASE r.plan.goal = "answer_current_question" ->
                        FactsOr(r, MissingFact) \o
                        (IF r.plan.resume /\ r.plan.pending
                            /\ r.plan.handling = "integrate_if_useful"
                         THEN Says("connects_to_point") ELSE <<>>)
                  [] r.plan.goal = "explore_objection" ->
                        Append(Facts(r), {"understand_first"})
                  [] r.plan.goal = "incorporate_correction" ->
                        FactsOr(r, Says("use_correction"))
                  [] r.plan.goal = "follow_new_direction" ->
                        FactsOr(r, Says("focus_on_that"))
                  [] r.plan.goal = "clarify_meaning" -> Says("clarify_meaning")
                  [] OTHER -> FactsOr(r, TypedAction(r.plan.action))
  OBVIOUS
<1>7. Tells(goal, X)
  BY <1>1, <1>2, <1>3, <1>4, <1>5, <1>6
<1>8. PICK question : question =
        CASE r.plan.question = "answer_then_follow_up" -> Says("what_next")
          [] r.plan.question = "explore_with_one_question" -> Says("main_issue")
          [] OTHER -> <<>>
  OBVIOUS
<1>9. Tells(question, X)
  BY <1>1, <1>8
<1>10. PICK ack : ack = IF r.plan.ack = None THEN <<>> ELSE Says("acknowledged")
  OBVIOUS
<1>11. Tells(ack, X)
  BY <1>1, <1>10
<1>12. PlannedText(r) = FitToBudget(ack \o goal \o question, r)
  BY <1>6, <1>8, <1>10 DEF PlannedText
<1> QED
  BY <1>7, <1>9, <1>11, <1>12, BothTell, FittedTells

\* Whatever decides the words, they are ones that may be said.
LEMMA ComposeTells ==
    ASSUME NEW r, NEW X, Lets(r, X)
    PROVE  Tells(Compose(r), X)
<1>0. Plainly \subseteq X
  BY DEF Lets
<1>1. Tells(ContactText(r), X) /\ Tells(Says("identity"), X)
  BY <1>0, PlainTells, PlainWords DEF ContactText
<1>2. r.result \in {"escalate", "redirect", "fallback"}
        => Tells(ResultText(r), X)
  <2>1. /\ Tells(Says("needs_confirmation"), X) /\ Tells(Says("cannot_confirm"), X)
        /\ Tells(TypedAction(r.plan.action), X)
        /\ Tells(Says("missed_that") \o Says("clarify_missed"), X)
    BY <1>0, PlainTells, PlainWords, ActionTells, BothTell
  <2> QED
    BY <2>1 DEF ResultText
<1> QED
  BY <1>0, <1>1, <1>2, AddresseeTells, EscalationTells, ConsultativeTells,
     PlannedTells DEF Compose

\* The fallback is one plain sentence.
LEMMA FallbackTells ==
    ASSUME NEW r, NEW X, Plainly \subseteq X
    PROVE  /\ Tells(FallbackText(r), X) /\ Len(FallbackText(r)) = 1
           /\ FallbackText(r) # <<>>
  BY PlainTells, PlainWords DEF FallbackText

\* What is rendered is made of what the renderer may say, and neither empty nor
\* longer than the budget.
LEMMA RenderedTells ==
    ASSUME NEW r, NEW X, Lets(r, X)
    PROVE  /\ Tells(Rendered(r), X) /\ Rendered(r) # <<>>
           /\ Len(Rendered(r)) <= r.budget
<1>1. SentenceLimit(r) \in Nat \ {0} /\ SentenceLimit(r) <= r.budget
  BY LimitIs DEF Lets
<1>2. Tells(Compose(r), X)
  BY ComposeTells
<1>3. /\ Tells(FallbackText(r), X) /\ Len(FallbackText(r)) = 1
      /\ FallbackText(r) # <<>>
  BY FallbackTells DEF Lets
<1>4. CASE Acceptable(Compose(r), FALSE, r)
  <2>1. Rendered(r) = Compose(r)
    BY <1>4 DEF Rendered
  <2>2. Compose(r) # <<>> /\ Len(Compose(r)) <= SentenceLimit(r)
    BY <1>4 DEF Acceptable
  <2>3. Len(Compose(r)) \in Nat /\ r.budget \in Nat
    BY <1>2 DEF Tells, Lets
  <2> QED
    BY <1>1, <1>2, <2>1, <2>2, <2>3
<1>5. CASE ~Acceptable(Compose(r), FALSE, r)
  <2>1. Rendered(r) = FallbackText(r)
    BY <1>5 DEF Rendered
  <2>2. r.budget \in Nat \ {0}
    BY DEF Lets
  <2>3. 1 <= r.budget
    BY <2>2
  <2>4. Len(Rendered(r)) = 1
    BY <1>3, <2>1
  <2>5. Len(Rendered(r)) <= r.budget
    BY <2>3, <2>4
  <2> QED
    BY <1>3, <2>1, <2>5
<1> QED
  BY <1>4, <1>5

\* A candidate that is accepted is one of an executed turn, fits the plan and
\* the budget, and has no term the evidence does not account for.
LEMMA AcceptedIs ==
    ASSUME NEW candidate \in Candidates, NEW r, Accepted(candidate, r),
           r.plan.length \in Lengths, r.budget \in Nat \ {0}
    PROVE  /\ candidate # None /\ r.result = "executed" /\ r.addressee = "agent"
           /\ candidate.text # <<>>
           /\ candidate.text \in Seq(Range(candidate.text))
           /\ Len(candidate.text) <= r.budget
           /\ \A i \in DOMAIN candidate.text :
                 /\ \A s \in candidate.text[i] \cap Statements :
                       Business.found[s] \subseteq AccountedFor(r)
                 /\ AsksIn(candidate.text[i]) => r.plan.question # None
<1>1. /\ candidate # None /\ r.result = "executed" /\ r.addressee = "agent"
      /\ candidate.text # <<>> /\ Len(candidate.text) <= SentenceLimit(r)
      /\ candidate.terms \subseteq AccountedFor(r)
      /\ QuestionsFit(candidate, r)
  BY DEF Accepted, MayRealize, Acceptable, Valid, Grounded, Clean
<1>2. /\ candidate.text \in Seq(Range(candidate.text))
      /\ \A i \in DOMAIN candidate.text :
            \A s \in candidate.text[i] \cap Statements :
                Business.found[s] \subseteq candidate.terms
  BY <1>1, CandidatesAssumption DEF CandidatesAssumption
<1>3. Len(candidate.text) <= r.budget
  <2>1. /\ SentenceLimit(r) \in Nat \ {0} /\ SentenceLimit(r) <= r.budget
        /\ Len(candidate.text) \in Nat
    BY <1>2, LimitIs
  <2> QED
    BY <1>1, <2>1
<1>4. ASSUME NEW i \in DOMAIN candidate.text, AsksIn(candidate.text[i])
      PROVE  r.plan.question # None
  <2>1. PICK asks : asks = {k \in DOMAIN candidate.text : AsksIn(candidate.text[k])}
    OBVIOUS
  <2>2. PICK n \in Nat : DOMAIN candidate.text = 1..n
    BY <1>2
  <2>3. IsFiniteSet(1..n)
    BY FS_Interval
  <2>4. asks \subseteq 1..n /\ i \in asks
    BY <1>4, <2>1, <2>2
  <2>5. IsFiniteSet(asks)
    BY <2>3, <2>4, FS_Subset
  <2>6. Cardinality(asks) # 0
    BY <2>4, <2>5, FS_EmptySet
  <2>7. QuestionMarks(candidate.text) = Cardinality(asks)
    BY <2>1 DEF QuestionMarks
  <2> QED
    BY <1>1, <2>6, <2>7 DEF QuestionsFit
<1> QED
  BY <1>1, <1>2, <1>3, <1>4

\* The framing is said with the first sentence.
LEMMA FramedIs ==
    ASSUME NEW S, NEW text \in Seq(S), text # <<>>, NEW strategy
    PROVE  /\ Framed(text, strategy) # <<>>
           /\ Len(Framed(text, strategy)) = Len(text)
           /\ DOMAIN Framed(text, strategy) = DOMAIN text
           /\ \A i \in DOMAIN text :
                 Framed(text, strategy)[i] \subseteq text[i] \cup {"framing"}
<1>1. PICK n \in Nat : n = Len(text) /\ DOMAIN text = 1..n
  OBVIOUS
<1>2. n # 0
  BY <1>1
<1>3. CASE strategy \in Framings
  <2>1. PICK g : g = [text EXCEPT ![1] = @ \cup {"framing"}]
    OBVIOUS
  <2>2. DOMAIN g = 1..n /\ \A i \in 1..n : g[i] \subseteq text[i] \cup {"framing"}
    BY <1>1, <2>1
  <2>3. g \in [1..n -> {g[i] : i \in 1..n}]
    <3>1. g = [i \in 1..n |-> IF i = 1 THEN text[i] \cup {"framing"} ELSE text[i]]
      BY <1>1, <2>1
    <3> QED
      BY <3>1
  <2>4. g \in Seq({g[i] : i \in 1..n}) /\ Len(g) = n
    BY <2>3
  <2>5. g # <<>>
    BY <1>2, <2>4
  <2> QED
    BY <1>1, <1>3, <2>1, <2>2, <2>4, <2>5 DEF Framed
<1>4. CASE strategy \notin Framings
  BY <1>4 DEF Framed
<1> QED
  BY <1>3, <1>4

\* A set of numbers has a least one.
LEMMA LeastNumber ==
    ASSUME NEW S, S \subseteq Nat, S # {}
    PROVE  \E n \in S : \A m \in S : n <= m
<1>1. PICK n \in S : \A m \in S : ~(<<m, n>> \in OpToRel(<, Nat))
  BY NatLessThanWellFounded, WFMin
<1>2. \A m \in S : ~(m < n)
  BY <1>1 DEF OpToRel
<1> QED
  BY <1>2

\* Items of which no two say different things say one thing.
LEMMA OneStatement ==
    ASSUME NEW items, IsFiniteSet(items), ~Conflicting(items),
           NEW a \in items, NEW b \in items
    PROVE  a.statement = b.statement
<1> SUFFICES ASSUME a.statement # b.statement
             PROVE  FALSE
  OBVIOUS
<1>1. PICK said : said = {item.statement : item \in items}
  OBVIOUS
<1>2. PICK g : g = [item \in items |-> item.statement]
  OBVIOUS
<1>3. g \in Surjection(items, said)
  BY <1>1, <1>2 DEF Surjection
<1>4. IsFiniteSet(said)
  BY <1>3, FS_Surjection
<1>5. PICK x : x = a.statement
  OBVIOUS
<1>6. PICK y : y = b.statement
  OBVIOUS
<1>7. x # y /\ {x} \cup {y} \in SUBSET said
  BY <1>1, <1>5, <1>6
<1>8. IsFiniteSet({x}) /\ Cardinality({x}) = 1
  BY FS_Singleton
<1>9. Cardinality({x} \cup {y}) = 2
  <2>1. y \notin {x}
    BY <1>7
  <2>2. PICK S : S = {x}
    OBVIOUS
  <2>3. Cardinality(S \cup {y}) = Cardinality(S) + 1
    BY <1>8, <2>1, <2>2, FS_AddElement
  <2> QED
    BY <1>8, <2>2, <2>3
<1>10. Cardinality({x} \cup {y}) <= Cardinality(said)
  BY <1>4, <1>7, FS_Subset
<1>11. Cardinality(said) \in Nat /\ ~(Cardinality(said) > 1)
  BY <1>1, <1>4, FS_CardinalityType DEF Conflicting
<1> QED
  BY <1>9, <1>10, <1>11

-----------------------------------------------------------------------------
(* The escalation policy.                                                    *)

\* What an escalation offers there is, and what it cites is evidence that
\* matches and does not conflict.
LEMMA EscalatedIs ==
    ASSUME NEW facts, NEW request, NEW scope, NEW tier, NEW d,
           d = Escalated(facts, request, scope, tier), request.followUp = None
    PROVE  /\ d.mode = "offer_human_follow_up" =>
                 "human_handoff" \in facts.capabilities
           /\ d.mode = "offer_callback" => "callback" \in facts.capabilities
           /\ d.mode = "offer_information_follow_up" =>
                 \/ "technical_review" \in facts.capabilities
                 \/ /\ "email" \in facts.capabilities
                    /\ facts.contact = "confirmed"
           /\ d.cites # {} =>
                 \E found : /\ found = Matches(facts.evidence, request,
                                               facts.campaign)
                            /\ ~Conflicting(found) /\ d.cites = Cited(found)
<1> DEFINE Claim(e) ==
               /\ e.mode = "offer_human_follow_up" =>
                     "human_handoff" \in facts.capabilities
               /\ e.mode = "offer_callback" => "callback" \in facts.capabilities
               /\ e.mode = "offer_information_follow_up" =>
                     \/ "technical_review" \in facts.capabilities
                     \/ /\ "email" \in facts.capabilities
                        /\ facts.contact = "confirmed"
               /\ e.cites # {} =>
                     \E found : /\ found = Matches(facts.evidence, request,
                                                   facts.campaign)
                                /\ ~Conflicting(found) /\ e.cites = Cited(found)
           quiet == {"acknowledge_unknown", "safe_redirect", "polite_wrap_up",
                     "ask_clarifying_question", "proceed_normally"}
<1>1. \A reason, capability, available, resume :
         \A mode \in quiet :
            Claim(Decision(reason, mode, capability, available, resume))
  BY DEF Decision
<1>2. Claim(HumanRequest(facts))
  BY DEF HumanRequest, Decision
<1>3. Claim(CommercialAuthority(facts))
  BY DEF CommercialAuthority, Decision
<1>c. ASSUME NEW reason, "technical_review" \in facts.capabilities
      PROVE  Claim(Decision(reason, "offer_information_follow_up",
                            "technical_review", TRUE, facts.pending))
  BY <1>c DEF Decision
<1>d. ASSUME NEW found, ~Conflicting(found),
             found = Matches(facts.evidence, request, facts.campaign)
      PROVE  Claim([Decision("none", "answer_with_evidence", None, FALSE,
                             facts.pending) EXCEPT !.cites = Cited(found)])
  BY <1>d DEF Decision
<1> HIDE DEF Claim
<1>4. Claim(Unanswered(facts, request.kind))
  <2>1. PICK reason : reason =
          CASE request.kind = "technical_detail" -> "unknown_technical_detail"
            [] request.kind = "product_capability" ->
                    "unknown_product_capability"
            [] OTHER -> "missing_approved_evidence"
    OBVIOUS
  <2>2. Claim(Decision(reason, "acknowledge_unknown", None, FALSE, facts.pending))
    BY <1>1
  <2> QED
    BY <1>c, <2>1, <2>2 DEF Unanswered
<1>5. Claim(FactAnswer(facts, request))
  <2>1. PICK found : found = Matches(facts.evidence, request, facts.campaign)
    OBVIOUS
  <2>2. CASE Conflicting(found)
    BY <1>1, <2>1, <2>2 DEF FactAnswer
  <2>3. CASE ~Conflicting(found) /\ request.restricted
    BY <1>1, <2>1, <2>3 DEF FactAnswer
  <2>4. CASE ~Conflicting(found) /\ ~request.restricted /\ found # {}
    <3>1. FactAnswer(facts, request) =
            [Decision("none", "answer_with_evidence", None, FALSE, facts.pending)
                EXCEPT !.cites = Cited(found)]
      BY <2>1, <2>4 DEF FactAnswer
    <3> QED
      BY <1>d, <2>1, <2>4, <3>1
  <2>5. CASE ~Conflicting(found) /\ ~request.restricted /\ found = {}
    BY <1>4, <2>1, <2>5 DEF FactAnswer
  <2> QED
    BY <2>2, <2>3, <2>4, <2>5
<1>6. PICK e : e = Evaluate(facts, request, scope, tier)
  OBVIOUS
<1>7. Claim(e)
  <2>1. CASE scope \in {"out_of_scope", "unknown_scope"}
    BY <1>1, <1>6, <2>1 DEF Evaluate
  <2>2. CASE /\ scope \notin {"out_of_scope", "unknown_scope"}
             /\ tier \in {"human_approval_required", "denied"}
    BY <1>1, <1>3, <1>6, <2>2 DEF Evaluate
  <2>3. CASE /\ scope \notin {"out_of_scope", "unknown_scope"}
             /\ tier \notin {"human_approval_required", "denied"}
    BY <1>1, <1>2, <1>5, <1>6, <2>3 DEF Evaluate
  <2> QED
    BY <2>1, <2>2, <2>3
<1>8. Claim(d)
  BY <1>1, <1>6, <1>7 DEF Escalated
<1> QED
  BY <1>8 DEF Claim

-----------------------------------------------------------------------------
(* The evidence of a context.                                                *)

\* An item of the context applies to the service, and whatever in the context
\* is about the same fact and applies to it too says the same.
Holds(item, service, c) ==
    /\ ScopeMatches(item, c.campaign, service)
    /\ \A other \in ContextEvidence(Business.evidence, c) :
          /\ other.key = item.key
          /\ ScopeMatches(other, c.campaign, service)
          => other.statement = item.statement

\* A statement that holds for one of the services.
Supported(s, services, c) ==
    \E item \in ContextEvidence(Business.evidence, c), service \in services :
        item.statement = s /\ Holds(item, service, c)

\* The context of a turn is a finite part of the evidence; when it does not
\* contradict itself, an id is one item.
LEMMA ContextIs ==
    ASSUME NEW c
    PROVE  /\ ContextEvidence(Business.evidence, c) \subseteq Business.evidence
           /\ IsFiniteSet(ContextEvidence(Business.evidence, c))
           /\ Clear(c) =>
                 \A a, b \in ContextEvidence(Business.evidence, c) :
                    a.id = b.id => a = b
<1>1. PICK seen : seen = ContextEvidence(Business.evidence, c)
  OBVIOUS
<1>2. seen \subseteq Applicable(Business.evidence, c)
  BY <1>1 DEF ContextEvidence
<1>3. seen \in SUBSET Business.evidence
  BY <1>2 DEF Applicable
<1>4. IsFiniteSet(seen)
  BY <1>3, FS_Subset, BusinessAssumption DEF BusinessAssumption
<1>5. Clear(c) => \A a, b \in seen : a.id = b.id => a = b
  BY <1>2 DEF Clear, ContradictsItself
<1> QED
  BY <1>1, <1>3, <1>4, <1>5

\* What an escalated answer cites holds for the service it was asked about.
LEMMA CitedHolds ==
    ASSUME NEW c, Clear(c), NEW request, NEW found,
           found = Matches(ContextEvidence(Business.evidence, c), request,
                           c.campaign),
           ~Conflicting(found), request.type = None,
           NEW item \in ContextEvidence(Business.evidence, c),
           item.id \in Cited(found)
    PROVE  Holds(item, request.service, c)
<1>1. PICK seen : seen = ContextEvidence(Business.evidence, c)
  OBVIOUS
<1>2. IsFiniteSet(seen) /\ \A a, b \in seen : a.id = b.id => a = b
  BY <1>1, ContextIs
<1>3. found \in SUBSET seen
  BY <1>1 DEF Matches
<1>4. IsFiniteSet(found)
  BY <1>2, <1>3, FS_Subset
<1>5. PICK other \in found : other.id = item.id
  BY DEF Cited
<1>6. item \in found
  BY <1>1, <1>2, <1>3, <1>5
<1>7. ScopeMatches(item, c.campaign, request.service) /\ item.key = request.key
      /\ request.key # None
  BY <1>6 DEF Matches
<1>8. ASSUME NEW x \in seen, x.key = item.key,
             ScopeMatches(x, c.campaign, request.service)
      PROVE  x.statement = item.statement
  <2>1. x \in found
    BY <1>1, <1>7, <1>8 DEF Matches
  <2> QED
    BY <1>4, <1>6, <2>1, OneStatement
<1> QED
  BY <1>1, <1>7, <1>8 DEF Holds

\* What the answer of a fit says of the service holds for it.
LEMMA AnswerHolds ==
    ASSUME NEW c, NEW problem, NEW fit, fit = ServiceFit(problem, Shop(c)),
           NEW answer, answer = ServiceAnswer(fit, Shop(c)), answer # None
    PROVE  /\ answer.statement \in answer.approved
           /\ \A s \in answer.approved : Supported(s, {fit.service}, c)
<1> DEFINE fresh == {rule \in Business.rules :
                        /\ rule.service \in Business.authorized
                                            \cap EligibleServices(c)
                        /\ problem.category \in rule.categories
                        /\ rule.service \notin OfferedServices(c)}
<1>1. PICK shop : shop = Shop(c)
  OBVIOUS
<1>2. /\ shop.rules = Business.rules /\ shop.authorized = Business.authorized
      /\ shop.eligible = EligibleServices(c)
      /\ shop.offered = OfferedServices(c)
      /\ shop.evidence = ContextEvidence(Business.evidence, c)
      /\ shop.campaign = c.campaign
  BY <1>1 DEF Shop
<1>3. fit.status = "supported_fit"
  BY <1>1 DEF ServiceAnswer
<1>4. PICK one : one \in fresh /\ fit.service = one.service /\ fit.cites # {}
  <2>1. PICK relevant : relevant = {rule \in shop.rules :
                        /\ rule.service \in shop.authorized \cap shop.eligible
                        /\ problem.category \in rule.categories}
    OBVIOUS
  <2>2. PICK new : new = {rule \in relevant : rule.service \notin shop.offered}
    OBVIOUS
  <2>3. PICK one : one = CHOOSE rule \in new : TRUE
    OBVIOUS
  <2>4. PICK cited : cited = MatchingEvidence(shop.evidence, one, shop.campaign)
    OBVIOUS
  <2>5. new # {} /\ cited # {} /\ fit = Fit("supported_fit", one.service, {},
                                            {i.id : i \in cited})
    BY <1>1, <1>3, <2>1, <2>2, <2>3, <2>4 DEF ServiceFit, Fit, Insufficient
  <2>6. one \in new
    BY <2>3, <2>5
  <2>7. one \in fresh
    BY <1>2, <2>1, <2>2, <2>6
  <2> QED
    BY <2>5, <2>7 DEF Fit
<1>5. PICK rule : rule = RuleOf(fit.service, shop.rules)
  OBVIOUS
<1>6. rule \in Business.rules /\ rule.service = fit.service
  BY <1>2, <1>4, <1>5 DEF RuleOf
<1>7. fit.service # None
  BY <1>4, BusinessAssumption DEF BusinessAssumption
<1>8. PICK cited : cited = MatchingEvidence(shop.evidence, rule, shop.campaign)
  OBVIOUS
<1>9. PICK first : first = Foremost(cited)
  OBVIOUS
<1>10. /\ {i.id : i \in cited} = fit.cites
       /\ answer = [allowed |-> TRUE, statement |-> first.statement,
                    approved |-> {i.statement : i \in cited},
                    caseStudy |-> first.type = "case_study"]
  BY <1>1, <1>3, <1>5, <1>8, <1>9 DEF ServiceAnswer
<1>11. PICK found : found = {item \in shop.evidence :
                        /\ item.key \in rule.facts
                        /\ InScope(item, rule.service, shop.campaign)}
  OBVIOUS
<1>12. cited # {} /\ cited \subseteq found
       /\ \A a, b \in found : a.key = b.key => a.statement = b.statement
  BY <1>4, <1>8, <1>10, <1>11 DEF MatchingEvidence
<1>13. first \in cited
  <2>1. PICK ids : ids = {i.id : i \in cited}
    OBVIOUS
  <2>2. ids # {} /\ ids \subseteq Nat
    BY <1>2, <1>11, <1>12, <2>1, ContextIs, BusinessAssumption
       DEF BusinessAssumption
  <2>3. PICK n \in ids : \A m \in ids : n <= m
    BY <2>2, LeastNumber
  <2>4. \E i \in cited : \A j \in cited : i.id <= j.id
    BY <2>1, <2>3
  <2> QED
    BY <1>9, <2>4 DEF Foremost
<1>14. answer.statement \in answer.approved
  BY <1>10, <1>13
<1>15. ASSUME NEW item \in cited
       PROVE  Holds(item, fit.service, c)
  <2>1. \A i \in found : ScopeMatches(i, c.campaign, fit.service)
    BY <1>2, <1>6, <1>7, <1>11 DEF InScope, ScopeMatches
  <2>2. \A i \in shop.evidence : /\ i.key = item.key
                                 /\ ScopeMatches(i, c.campaign, fit.service)
                                 => i \in found
    BY <1>2, <1>6, <1>11, <1>12 DEF InScope, ScopeMatches
  <2> QED
    BY <1>2, <1>12, <2>1, <2>2 DEF Holds
<1>16. cited \subseteq ContextEvidence(Business.evidence, c)
  BY <1>2, <1>11, <1>12
<1> QED
  BY <1>10, <1>14, <1>15, <1>16 DEF Supported

-----------------------------------------------------------------------------
(* The decision of the Brain.                                                *)

\* Every tier a loaded policy comes to is one of the four.
LEMMA TiersKnown ==
    /\ \A action : AuthorityOf(action, None, Policies.authority) \in Tiers
    /\ \A request : CommercialTier(request, Policies.authority) \in Tiers
<1>1. LoadableAuthority(Policies.authority)
  BY PoliciesAssumption DEF PoliciesAssumption
<1>2. PICK p : p = Policies.authority
  OBVIOUS
<1>3. /\ p.default \in Tiers
      /\ \A a \in DOMAIN p.actions : p.actions[a] \in Tiers
      /\ \A k \in DOMAIN p.commercial : p.commercial[k] \in Tiers
      /\ p.discount # None => p.discount.within \in Tiers /\ p.discount.over \in Tiers
      /\ p.disclosure # None => p.disclosure.tier \in Tiers
  BY <1>1, <1>2 DEF LoadableAuthority
<1>4. \A action : AuthorityOf(action, None, p) \in Tiers
  BY <1>3 DEF AuthorityOf
<1>5. \A request : CommercialTier(request, p) \in Tiers
  BY <1>3 DEF CommercialTier
<1> QED
  BY <1>2, <1>4, <1>5

\* The more restrictive of two tiers lets the agent act only when both do.
LEMMA BothFree ==
    ASSUME NEW a \in Tiers, NEW b \in Tiers,
           MoreRestrictive(a, b) \in {"auto_execute", "policy_bounded"}
    PROVE  /\ a \in {"auto_execute", "policy_bounded"}
           /\ b \in {"auto_execute", "policy_bounded"}
           /\ "policy_bounded" \in {a, b} =>
                 MoreRestrictive(a, b) = "policy_bounded"
  BY DEF MoreRestrictive, Tiers, Restrictiveness

\* What is executed was permitted and decided by no priority; the provider is
\* only asked while calls are left.
LEMMA DecidedIs ==
    ASSUME NEW priority, NEW left, NEW p, NEW executes \in BOOLEAN,
           NEW decision, decision = Decided(priority, left, p, Policies)
    PROVE  /\ ResultKind(decision, executes) = "executed" =>
                 priority = None /\ Permitted(p)
           /\ decision.reasoned \in BOOLEAN
           /\ decision.reasoned => left.calls # None /\ ~(left.calls <= 0)
<1>1. CASE decision = Stopped("pipeline_stopped")
  BY <1>1 DEF Stopped, ResultKind
<1>2. CASE decision # Stopped("pipeline_stopped")
  <2>1. PICK scope : scope = ScopeOf(p.action, p.topic, Policies.scope)
    OBVIOUS
  <2>2. PICK tier : tier = AuthorityOf(p.action, p.request, Policies.authority)
    OBVIOUS
  <2>3. PICK authority : authority = Policies.authority
    OBVIOUS
  <2>4. /\ priority = None
        /\ BudgetOf({}, left, Policies.budget) # "wind_down"
        /\ BudgetOf({}, left, Policies.budget) # "early_exit"
        /\ decision = Classified(p, Policies.scope, Policies.authority)
    BY <1>2 DEF Decided
  <2>5. left.calls # None /\ ~(left.calls <= 0)
    BY <2>4 DEF BudgetOf, RunOut
  <2>6. decision.reasoned = TRUE
    BY <2>4 DEF Classified, Stopped
  <2>7. ASSUME ResultKind(decision, executes) = "executed"
        PROVE  Permitted(p)
    <3>1. decision.outcome = "authority_approved" /\ ~decision.bounded
      <4>1. decision.outcome # "executed"
        BY <2>4 DEF Classified, Stopped
      <4> QED
        BY <2>7, <4>1 DEF ResultKind, Executable
    <3>2. /\ scope = "in_scope" /\ p.action # None
          /\ tier \in {"auto_execute", "policy_bounded"}
          /\ ~(tier = "policy_bounded" /\ Bounded(p.request, authority))
      <4>2. ~(~WellFormed(p) \/ p.action = None)
        BY <2>4, <3>1 DEF Classified, Stopped
      <4>3. scope = "in_scope"
        BY <2>1, <2>4, <3>1, <4>2 DEF Classified, Stopped
      <4>4. /\ decision.outcome =
                    CASE tier = "human_approval_required" -> "escalate"
                      [] tier = "denied" -> "redirect"
                      [] OTHER -> "authority_approved"
            /\ decision.bounded = (/\ tier = "policy_bounded"
                                   /\ Bounded(p.request, authority))
        BY <2>1, <2>2, <2>3, <2>4, <4>2, <4>3 DEF Classified, Stopped
      <4>5. tier \in Tiers
        <5>1. CASE p.request = None
          BY <2>2, <5>1, TiersKnown
        <5>2. CASE p.request # None
          BY <2>2, <5>2, TiersKnown DEF AuthorityOf, MoreRestrictive
        <5> QED
          BY <5>1, <5>2
      <4> QED
        BY <3>1, <4>2, <4>3, <4>4, <4>5 DEF Tiers, Restrictiveness
    <3>3. /\ p.topic \in Policies.scope.topics \ Policies.scope.restricted
          /\ p.action \in Policies.scope.actions
      BY <2>1, <3>2 DEF ScopeOf
    <3>4. PICK own : own = AuthorityOf(p.action, None, authority)
      OBVIOUS
    <3>5. own \in Tiers
      BY <2>3, <3>4, TiersKnown
    <3>6. CASE p.request = None
      BY <2>2, <2>3, <3>2, <3>3, <3>4, <3>6 DEF Permitted
    <3>7. CASE p.request # None
      <4>1. PICK requested : requested = CommercialTier(p.request, authority)
        OBVIOUS
      <4>2. requested \in Tiers
        BY <2>3, <4>1, TiersKnown
      <4>3. tier = MoreRestrictive(own, requested)
        BY <2>2, <2>3, <3>4, <3>7, <4>1 DEF AuthorityOf
      <4>4. /\ own \in {"auto_execute", "policy_bounded"}
            /\ requested \in {"auto_execute", "policy_bounded"}
            /\ "policy_bounded" \in {own, requested} => tier = "policy_bounded"
        BY <3>2, <3>5, <4>2, <4>3, BothFree
      <4>5. "policy_bounded" \in {own, requested} =>
                /\ p.request.kind # "pricing_disclosure"
                /\ p.request.kind = "discount" => authority.discount = None
        BY <3>2, <3>7, <4>4 DEF Bounded
      <4> QED
        BY <2>3, <3>3, <3>4, <4>1, <4>4, <4>5 DEF Permitted
    <3> QED
      BY <3>6, <3>7
  <2> QED
    BY <2>4, <2>5, <2>6, <2>7
<1> QED
  BY <1>1, <1>2

-----------------------------------------------------------------------------
(* What the strategy, the consultative engine and the cognition recommend.   *)

\* The stage advised is none behind the stage of the conversation.
LEMMA StageAdvised ==
    ASSUME NEW in, in.stage \in DOMAIN StageRank
    PROVE  /\ Recommended(in).stage \in DOMAIN StageRank
           /\ StageRank[Recommended(in).stage] >= StageRank[in.stage]
<1> DEFINE Ahead(advice) ==
                /\ advice.stage \in DOMAIN StageRank
                /\ StageRank[advice.stage] >= StageRank[in.stage]
           Ahead1(stage) ==
                /\ stage \in DOMAIN StageRank
                /\ StageRank[stage] >= StageRank[in.stage]
<1>1. /\ Ahead1(in.stage) /\ Ahead1("next_step")
      /\ in.stage = "discovery" => /\ Ahead1("value_exploration")
                                   /\ Ahead1("qualification")
      /\ in.stage = "opening" => Ahead1("discovery")
  BY DEF StageRank
<1>2. \A stage, mode, type, gaps :
         Advice(stage, mode, type, gaps).stage = stage
  BY DEF Advice
<1>3. \A stage, type : Normally(stage, type, in).stage = stage
  BY <1>2 DEF Normally
<1>4. AskForNextStep.stage = "next_step"
  BY DEF AskForNextStep, Advice
<1>5. ASSUME NEW interested, in.stage = "discovery"
      PROVE  Ahead1(DiscoveryAdvice(in, interested).stage)
  <2>1. DiscoveryAdvice(in, interested).stage \in
            {"value_exploration", "next_step", "discovery", "qualification"}
    BY <1>3, <1>4 DEF DiscoveryAdvice
  <2> QED
    BY <1>1, <1>5, <2>1
<1>6. ASSUME NEW interested
      PROVE  Ahead1(StageAdvice(in, interested).stage)
  <2>1. CASE in.stage = "opening"
    <3>1. StageAdvice(in, interested).stage \in {"opening", "discovery"}
      BY <1>3, <2>1 DEF StageAdvice, Normally, Advice
    <3> QED
      BY <1>1, <2>1, <3>1
  <2>2. CASE in.stage = "discovery"
    BY <1>5, <2>2 DEF StageAdvice
  <2>3. CASE in.stage = "value_exploration"
    <3>1. StageAdvice(in, interested).stage \in {"next_step", "value_exploration"}
      BY <1>3, <1>4, <2>3 DEF StageAdvice
    <3> QED
      BY <1>1, <2>3, <3>1
  <2>4. CASE in.stage \notin {"opening", "discovery", "value_exploration"}
    <3>1. StageAdvice(in, interested).stage = in.stage
      BY <1>3, <2>4 DEF StageAdvice
    <3> QED
      BY <1>1, <3>1
  <2> QED
    BY <2>1, <2>2, <2>3, <2>4
<1>7. \/ Recommended(in).stage \in {in.stage, "next_step"}
      \/ \E interested : Recommended(in) = StageAdvice(in, interested)
  <2>1. PICK gaps : gaps = RemainingGaps(in)
    OBVIOUS
  <2>2. PICK interested :
            interested = ("interested" \in in.told \/ in.about.interested = TRUE)
    OBVIOUS
  <2>3. PICK next : next = [Normally("next_step", "propose_next_step", in) EXCEPT
                                !.micro = Commitment(in)]
    OBVIOUS
  <2>4. next.stage = "next_step"
    BY <2>3 DEF Normally, Advice
  <2>5. \A mode, type, a, b :
            /\ [Advice(in.stage, mode, type, gaps) EXCEPT !.micro = a].stage
                    = in.stage
            /\ [Advice(in.stage, mode, type, gaps) EXCEPT !.micro = a,
                    !.resume = b].stage = in.stage
    BY DEF Advice
  <2> QED
    BY <1>2, <2>1, <2>2, <2>3, <2>4, <2>5 DEF Recommended
<1> QED
  BY <1>1, <1>6, <1>7

\* Every consultative decision has a length.
LEMMA ConsultedDepth ==
    ASSUME NEW in
    PROVE  Consulted(in).depth \in Lengths
<1>1. \A move, depth : Move(move, depth).depth = depth
  BY DEF Move
<1>2. \A move, gap : AskFor(move, gap, in).depth = "short"
  BY DEF AskFor, Move
<1>3. Explaining(in).depth \in Lengths
  BY DEF Explaining, Move, Lengths
<1>4. Answering(in).depth \in Lengths
  BY DEF Answering, Move, Lengths
<1>5. Discover(in).depth = "short"
  BY <1>1, <1>2 DEF Discover
<1>6. /\ [Move("answer_direct_question", "short") EXCEPT !.transparent = TRUE].depth
            = "short"
      /\ [Move("simplify_explanation", "short") EXCEPT !.resume = in.pending].depth
            = "short"
  BY DEF Move
<1>7. "short" \in Lengths
  BY DEF Lengths
<1> QED
  BY <1>1, <1>2, <1>3, <1>4, <1>5, <1>6, <1>7 DEF Consulted

\* Guidance passes its own validator.
LEMMA GuidedIs ==
    ASSUME NEW in, in.depth \in Lengths, None \notin Range(in.recent)
    PROVE  Guided(in).depth \in Lengths /\ ValidGuidance(Guided(in), in)
<1>1. Guided(in).depth \in Lengths
  BY DEF Guided, Depth, Lengths
<1>2. QuestionFocus(in) \notin Range(in.recent)
  <2>1. PICK order : order = QuestionCandidates(in)
    OBVIOUS
  <2>2. PICK open : open = {i \in DOMAIN order :
                              order[i] \notin {None} \cup Range(in.recent)}
    OBVIOUS
  <2>3. CASE open = {}
    BY <2>1, <2>2, <2>3 DEF QuestionFocus
  <2>4. CASE open # {}
    <3>1. DOMAIN order = 1..6
      BY <2>1 DEF QuestionCandidates
    <3>2. open \subseteq Nat
      BY <2>2, <3>1
    <3>3. PICK n \in open : \A m \in open : n <= m
      BY <2>4, <3>2, LeastNumber
    <3>4. Min(open) \in open
      BY <3>3 DEF Min
    <3>5. QuestionFocus(in) = order[Min(open)]
      BY <2>1, <2>2, <2>4 DEF QuestionFocus
    <3> QED
      BY <2>2, <3>4, <3>5
  <2> QED
    BY <2>3, <2>4
<1>3. /\ BuyingGuidance(in) = "explain_fit" => in.fit.status = "supported_fit"
      /\ BuyingGuidance(in) = "suggest_micro_commitment" =>
            Interest(in) = "buying_signal"
  BY DEF BuyingGuidance
<1> QED
  BY <1>1, <1>2, <1>3 DEF ValidGuidance, Guided

-----------------------------------------------------------------------------
(* The plan.                                                                 *)

\* Every plan has a length.
LEMMA PlanLength ==
    ASSUME NEW in,
           in.consultative # None => in.consultative.depth \in Lengths,
           in.guidance # None => in.guidance.depth \in Lengths
    PROVE  Plan(in).length \in Lengths
<1> DEFINE Long(plan) == plan.length \in Lengths
<1>1. \A length \in Lengths : FittedLength(length, in.strategy) \in Lengths
  BY DEF FittedLength, Lengths
<1>2. \A goal : \A length \in Lengths : Long(Plain(in, goal, length))
  BY <1>1 DEF Plain
<1>3. \A plan, resumes, otherwise :
        Long(plan) => Long(Resuming(plan, in, resumes, otherwise))
  BY DEF Resuming
<1>4. \A plan : Long(plan) => /\ Long(Holding(plan, in)) /\ Long(Dropping(plan))
                              /\ Long(Acknowledging(plan, in))
  BY DEF Holding, Dropping, Acknowledging
<1>5. \A plan, question, clarify :
        Long(plan) => Long(Asking(plan, question, clarify))
  BY DEF Asking
<1>6. \A plan, x : Long(plan) => /\ Long([plan EXCEPT !.resume = x])
                                 /\ Long([plan EXCEPT !.pending = x])
  OBVIOUS
<1>7. {"short", "moderate", "detailed"} \subseteq Lengths
  BY DEF Lengths
<1> HIDE DEF Long
<1>8. Long(AddresseePlan(in))
  BY <1>2, <1>4, <1>5, <1>6, <1>7 DEF AddresseePlan
<1>9. Long(EscalationPlan(in))
  BY <1>2, <1>3, <1>4, <1>5, <1>7 DEF EscalationPlan
<1>10. in.result \in {"fallback", "redirect", "escalate"} => Long(SafetyPlan(in))
  BY <1>2, <1>4, <1>5, <1>7 DEF SafetyPlan
<1>11. in.consultative # None => Long(ConsultativePlan(in))
  BY <1>2, <1>3, <1>4, <1>5 DEF ConsultativePlan
<1>12. Long(CategoryPlan(in))
  <2>1. ExplanatoryLength(in.need) \in Lengths /\ OrdinaryLength(in.need) \in Lengths
    BY <1>7 DEF ExplanatoryLength, OrdinaryLength
  <2> QED
    BY <1>2, <1>3, <1>4, <1>5, <1>6, <1>7, <2>1 DEF CategoryPlan
<1>13. Long(Plan(in))
  BY <1>8, <1>9, <1>10, <1>11, <1>12 DEF Plan
<1> QED
  BY <1>13 DEF Long

-----------------------------------------------------------------------------
(* What a turn may say.                                                      *)

\* Two calls with the same context.
LEMMA SameContext ==
    ASSUME NEW c, NEW d, c.campaign = d.campaign, c.eligible = d.eligible,
           c.offered = d.offered
    PROVE  /\ ContextEvidence(Business.evidence, c) =
                ContextEvidence(Business.evidence, d)
           /\ Shop(c) = Shop(d)
           /\ Clear(c) <=> Clear(d)
           /\ \A s, services : Supported(s, services, c) <=>
                                    Supported(s, services, d)
<1>1. Applicable(Business.evidence, c) = Applicable(Business.evidence, d)
  BY DEF Applicable, Applies, EligibleServices, OfferedServices
<1>2. ContextEvidence(Business.evidence, c) = ContextEvidence(Business.evidence, d)
  BY <1>1 DEF ContextEvidence
<1>3. Shop(c) = Shop(d)
  BY <1>2 DEF Shop, EligibleServices, OfferedServices
<1>4. Clear(c) <=> Clear(d)
  BY <1>1 DEF Clear, ContradictsItself
<1>5. \A item, service : Holds(item, service, c) <=> Holds(item, service, d)
  BY <1>2 DEF Holds
<1> QED
  BY <1>2, <1>3, <1>4, <1>5 DEF Supported

\* What is shown of a call.
LEMMA SeenIs ==
    ASSUME NEW c, Has(c, CallFields), NEW view
    PROVE  /\ Has(Seen(c, view), CallFields)
           /\ Seen(c, view).campaign = c.campaign
           /\ Seen(c, view).problem = c.problem
           /\ Seen(c, view).recent = c.recent
           /\ Seen(c, view).stage = c.stage
           /\ Seen(c, view).offered = view.offered
           /\ Seen(c, view).eligible = view.eligible
           /\ Seen(c, view).contact = view.contact
           /\ Seen(c, view).confirmed = view.confirmed
  BY DEF Has, CallFields, Seen

\* The terms of a statement that stand in evidence which may be stated.
Counted(s, services, c) ==
    \A term \in Business.found[s] :
        \E item \in ContextEvidence(Business.evidence, c) :
            /\ term \in Business.covers[item.statement]
            /\ \E service \in services : Holds(item, service, c)

\* The services whose facts a turn may state.
ServicesOf(c, t) == {t.service, ServiceFit(c.problem, Shop(c)).service}

\* What the reply to t may say when its context is c.
Sayable(c, t, plan) ==
    Plainly
    \cup (IF plan.question = None THEN {} ELSE {"discovery_question"})
    \cup (IF "human_handoff" \in Business.capabilities
          THEN {"may_request_human"} ELSE {})
    \cup (IF "callback" \in Business.capabilities
          THEN {"may_request_callback"} ELSE {})
    \cup (IF \/ "technical_review" \in Business.capabilities
             \/ "email" \in Business.capabilities /\ c.confirmed = TRUE
          THEN {"may_request_information"} ELSE {})
    \cup {s \in Statements : Supported(s, ServicesOf(c, t), c)}

\* What a sentence of such a reply can say of statements and offers.
LEMMA SayableIs ==
    ASSUME NEW c, NEW t, NEW plan
    PROVE  /\ \A s \in Statements \cap Sayable(c, t, plan) :
                  Supported(s, ServicesOf(c, t), c)
           /\ "discovery_question" \in Sayable(c, t, plan) =>
                  plan.question # None
           /\ "may_request_human" \in Sayable(c, t, plan) =>
                  "human_handoff" \in Business.capabilities
           /\ "may_request_callback" \in Sayable(c, t, plan) =>
                  "callback" \in Business.capabilities
           /\ "may_request_information" \in Sayable(c, t, plan) =>
                  \/ "technical_review" \in Business.capabilities
                  \/ "email" \in Business.capabilities /\ c.confirmed = TRUE
<1>1. Statements \cap Wording = {}
  BY BusinessAssumption DEF BusinessAssumption
<1>2. /\ Plainly \subseteq Wording /\ Plainly \cap Offering = {}
      /\ "discovery_question" \notin Plainly
      /\ Offering \cup {"discovery_question"} \subseteq Wording
  BY DEF Plainly, Wording, Questions
<1>3. Offering = {"may_request_human", "may_request_callback",
                  "may_request_information"}
  BY DEF Offering
<1>4. /\ {"may_request_human", "may_request_callback",
          "may_request_information", "discovery_question"} \cap Plainly = {}
      /\ {"may_request_human", "may_request_callback",
          "may_request_information", "discovery_question"} \cap Statements = {}
  BY <1>1, <1>2, <1>3
<1>5. PICK held : held = {s \in Statements : Supported(s, ServicesOf(c, t), c)}
  OBVIOUS
<1>6. \A s \in Statements \cap Sayable(c, t, plan) : s \in held
  BY <1>1, <1>2, <1>3, <1>5 DEF Sayable
<1>7. {"may_request_human", "may_request_callback",
       "may_request_information", "discovery_question"} \cap held = {}
  BY <1>4, <1>5
<1> QED
  BY <1>4, <1>5, <1>6, <1>7 DEF Sayable

\* What the escalation of a turn cites holds for the service asked about, and
\* what it offers there is.
LEMMA EscalationHolds ==
    ASSUME NEW c, Clear(c), NEW t, NEW scope, NEW tier, NEW d,
           d = Escalated(EscalationFacts(c, t), EscalationRequest(t), scope, tier)
    PROVE  /\ d.mode = "offer_human_follow_up" =>
                 "human_handoff" \in Business.capabilities
           /\ d.mode = "offer_callback" => "callback" \in Business.capabilities
           /\ d.mode = "offer_information_follow_up" =>
                 \/ "technical_review" \in Business.capabilities
                 \/ "email" \in Business.capabilities /\ c.confirmed = TRUE
           /\ \A item \in ContextEvidence(Business.evidence, c) :
                 item.id \in d.cites =>
                    Supported(item.statement, ServicesOf(c, t), c)
<1>1. PICK facts : facts = EscalationFacts(c, t)
  OBVIOUS
<1>2. PICK request : request = EscalationRequest(t)
  OBVIOUS
<1>3. /\ facts.capabilities = Business.capabilities
      /\ facts.contact = ContactStatus(c) /\ facts.campaign = c.campaign
      /\ facts.evidence = ContextEvidence(Business.evidence, c)
  BY <1>1 DEF EscalationFacts
<1>4. request.followUp = None /\ request.type = None /\ request.service = t.service
  BY <1>2 DEF EscalationRequest
<1>5. facts.contact = "confirmed" => c.confirmed = TRUE
  BY <1>3 DEF ContactStatus
<1>6. /\ d.mode = "offer_human_follow_up" =>
                 "human_handoff" \in facts.capabilities
      /\ d.mode = "offer_callback" => "callback" \in facts.capabilities
      /\ d.mode = "offer_information_follow_up" =>
                 \/ "technical_review" \in facts.capabilities
                 \/ /\ "email" \in facts.capabilities
                    /\ facts.contact = "confirmed"
      /\ d.cites # {} =>
                 \E found : /\ found = Matches(facts.evidence, request,
                                               facts.campaign)
                            /\ ~Conflicting(found) /\ d.cites = Cited(found)
  BY <1>1, <1>2, <1>4, EscalatedIs
<1>7. ASSUME NEW item \in ContextEvidence(Business.evidence, c),
             item.id \in d.cites
      PROVE  Supported(item.statement, ServicesOf(c, t), c)
  <2>1. PICK found : /\ found = Matches(facts.evidence, request, facts.campaign)
                     /\ ~Conflicting(found) /\ d.cites = Cited(found)
    BY <1>6, <1>7
  <2>2. Holds(item, request.service, c)
    BY <1>3, <1>4, <1>7, <2>1, CitedHolds
  <2> QED
    BY <1>4, <1>7, <2>2 DEF Supported, ServicesOf
<1> QED
  BY <1>3, <1>5, <1>6, <1>7

\* Everything a turn has to say when its words are made.
Ready ==
    /\ phase = "speak"
    /\ Shapes /\ ClearContext /\ Approved /\ Advising

\* The words of a turn are made from what its context lets the reply say.
LEMMA InputLets ==
    ASSUME Ready, NEW plan, plan = Plan(PlanInput(turn)),
           NEW c, c = Seen(call, turn.view)
    PROVE  /\ Lets(RenderInput(call, turn, plan), Sayable(c, turn.heard, plan))
           /\ plan.length \in Lengths
           /\ RenderInput(call, turn, plan).plan = plan
           /\ RenderInput(call, turn, plan).result = turn.result
           /\ RenderInput(call, turn, plan).budget = Policies.budget.sentences
           /\ Policies.budget.sentences \in Nat \ {0}
           /\ \A s \in ApprovedEvidence(RenderInput(call, turn, plan)) :
                  Supported(s, ServicesOf(c, turn.heard), c)
<1>1. /\ Clear(c) /\ Has(call, CallFields)
      /\ IF turn.heard.priority = None THEN Advised(turn) ELSE Unadvised(turn)
  BY DEF Ready, Shapes, ClearContext, Advising
<1>2. /\ turn.consultative # None => turn.consultative.depth \in Lengths
      /\ turn.guidance # None => turn.guidance.depth \in Lengths
  BY <1>1 DEF Advised, Unadvised
<1>3. plan.length \in Lengths
  <2>1. PICK in : in = PlanInput(turn)
    OBVIOUS
  <2>2. in.consultative = turn.consultative /\ in.guidance = turn.guidance
    BY <2>1 DEF PlanInput
  <2> QED
    BY <1>2, <2>1, <2>2, PlanLength
<1>4. Policies.budget.sentences \in Nat \ {0}
  BY PoliciesAssumption DEF PoliciesAssumption, LoadableBudget
<1>5. PICK r : r = RenderInput(call, turn, plan)
  OBVIOUS
<1>6. /\ r.plan = plan /\ r.escalation = turn.escalation
      /\ r.answer = turn.answer /\ r.result = turn.result
      /\ r.budget = Policies.budget.sentences
      /\ r.facts = CASE turn.heard.priority = "dnc" -> <<"optout_recorded">>
                     [] turn.heard.priority = "not_interested"
                            -> <<"not_continuing">>
                     [] OTHER -> <<>>
      /\ r.evidence = IF turn.escalation = None THEN {}
                      ELSE {i \in ContextEvidence(Business.evidence, c) :
                                i.id \in turn.escalation.cites}
  BY <1>5 DEF RenderInput
<1>7. PICK X : X = Sayable(c, turn.heard, plan)
  OBVIOUS
<1>8. Plainly \subseteq X
  BY <1>7 DEF Sayable
<1>9. r.facts \in Seq(X)
  <2>1. "optout_recorded" \in X /\ "not_continuing" \in X
    BY <1>8, PlainWords
  <2> QED
    BY <1>6, <2>1
<1>10. ASSUME NEW s \in Statements, Supported(s, ServicesOf(c, turn.heard), c)
       PROVE  s \in X
  BY <1>7, <1>10 DEF Sayable
<1>11. plan.question # None => "discovery_question" \in X
  BY <1>7 DEF Sayable
<1>12. turn.escalation # None =>
          /\ turn.escalation.mode = "offer_human_follow_up" =>
                "may_request_human" \in X
          /\ turn.escalation.mode = "offer_callback" =>
                "may_request_callback" \in X
          /\ turn.escalation.mode = "offer_information_follow_up" =>
                "may_request_information" \in X
          /\ \A e \in r.evidence :
                Supported(e.statement, ServicesOf(c, turn.heard), c)
  <2> SUFFICES ASSUME turn.escalation # None
               PROVE  /\ turn.escalation.mode = "offer_human_follow_up" =>
                            "may_request_human" \in X
                      /\ turn.escalation.mode = "offer_callback" =>
                            "may_request_callback" \in X
                      /\ turn.escalation.mode = "offer_information_follow_up" =>
                            "may_request_information" \in X
                      /\ \A e \in r.evidence :
                            Supported(e.statement, ServicesOf(c, turn.heard), c)
    OBVIOUS
  <2>1. turn.escalation = Escalated(EscalationFacts(c, turn.heard),
                                    EscalationRequest(turn.heard),
                                    turn.scope, turn.tier)
    BY <1>1 DEF Advised, Unadvised
  <2>2. PICK d : d = turn.escalation
    OBVIOUS
  <2>3. /\ d.mode = "offer_human_follow_up" =>
                 "human_handoff" \in Business.capabilities
        /\ d.mode = "offer_callback" => "callback" \in Business.capabilities
        /\ d.mode = "offer_information_follow_up" =>
                 \/ "technical_review" \in Business.capabilities
                 \/ "email" \in Business.capabilities /\ c.confirmed = TRUE
        /\ \A item \in ContextEvidence(Business.evidence, c) :
                 item.id \in d.cites =>
                    Supported(item.statement, ServicesOf(c, turn.heard), c)
    BY <1>1, <2>1, <2>2, EscalationHolds
  <2>4. \A e \in r.evidence : Supported(e.statement, ServicesOf(c, turn.heard), c)
    BY <1>6, <2>2, <2>3
  <2> QED
    BY <1>7, <2>2, <2>3, <2>4 DEF Sayable
<1>13. \A e \in r.evidence : e.statement \in Statements
  BY <1>6, ContextIs DEF Statements
<1>14. turn.answer # None =>
          /\ turn.answer.statement \in turn.answer.approved
          /\ \A s \in turn.answer.approved :
                Supported(s, ServicesOf(c, turn.heard), c)
  <2> SUFFICES ASSUME turn.answer # None
               PROVE  /\ turn.answer.statement \in turn.answer.approved
                      /\ \A s \in turn.answer.approved :
                            Supported(s, ServicesOf(c, turn.heard), c)
    OBVIOUS
  <2>1. PICK fit : fit = ServiceFit(c.problem, Shop(c))
    OBVIOUS
  <2>2. c.problem = call.problem
    BY <1>1, SeenIs
  <2>3. turn.answer = ServiceAnswer(fit, Shop(c))
    BY <1>1, <2>1, <2>2 DEF Advised, Unadvised
  <2>4. /\ turn.answer.statement \in turn.answer.approved
        /\ \A s \in turn.answer.approved : Supported(s, {fit.service}, c)
    BY <2>1, <2>3, AnswerHolds
  <2> QED
    BY <2>1, <2>4 DEF Supported, ServicesOf
<1>15. \A s, services : Supported(s, services, c) => s \in Statements
  BY ContextIs DEF Supported, Statements
<1>16. Lets(r, X)
  BY <1>3, <1>4, <1>6, <1>8, <1>9, <1>10, <1>11, <1>12, <1>13, <1>14, <1>15
     DEF Lets
<1>17. \A s \in ApprovedEvidence(r) : Supported(s, ServicesOf(c, turn.heard), c)
  BY <1>6, <1>12, <1>14 DEF ApprovedEvidence
<1> QED
  BY <1>3, <1>4, <1>5, <1>6, <1>7, <1>16, <1>17

\* The words of a turn.
Words(candidate) ==
    Framed(Realized(candidate,
                    RenderInput(call, turn, Plan(PlanInput(turn)))),
           turn.heard.strategy)

\* What the words of a turn come to, whoever worded them.
LEMMA WordsAre ==
    ASSUME Ready, NEW candidate \in Candidates, NEW words,
           words = Words(candidate),
           NEW plan, plan = Plan(PlanInput(turn)),
           NEW c, c = Seen(call, turn.view)
    PROVE  /\ Len(words) <= Policies.budget.sentences
           /\ \A i \in DOMAIN words :
                 /\ \A s \in words[i] \cap Statements :
                        IF Accepted(candidate, RenderInput(call, turn, plan))
                        THEN Counted(s, ServicesOf(c, turn.heard), c)
                        ELSE Supported(s, ServicesOf(c, turn.heard), c)
                 /\ "discovery_question" \in words[i] => plan.question # None
                 /\ ~Accepted(candidate, RenderInput(call, turn, plan)) =>
                        words[i] \subseteq Sayable(c, turn.heard, plan)
<1>1. PICK r : r = RenderInput(call, turn, plan)
  OBVIOUS
<1>2. PICK X : X = Sayable(c, turn.heard, plan)
  OBVIOUS
<1>3. /\ Lets(r, X) /\ plan.length \in Lengths /\ r.plan = plan
      /\ r.budget = Policies.budget.sentences /\ r.budget \in Nat \ {0}
      /\ \A s \in ApprovedEvidence(r) : Supported(s, ServicesOf(c, turn.heard), c)
  BY <1>1, <1>2, InputLets
<1>4. /\ \A s \in Statements \cap X : Supported(s, ServicesOf(c, turn.heard), c)
      /\ "discovery_question" \in X => plan.question # None
  BY <1>2, SayableIs
<1>5. /\ "framing" \in X /\ "framing" \notin Statements
      /\ "framing" # "discovery_question"
  BY <1>3, PlainWords, BusinessAssumption DEF Lets, BusinessAssumption, Plainly
<1>6. PICK text : text = Realized(candidate, r)
  OBVIOUS
<1>7. words = Framed(text, turn.heard.strategy)
  BY <1>1, <1>6 DEF Words
<1>8. CASE Accepted(candidate, r)
  <2>1. text = candidate.text
    BY <1>6, <1>8 DEF Realized
  <2>2. /\ text # <<>> /\ text \in Seq(Range(text)) /\ Len(text) <= r.budget
        /\ \A i \in DOMAIN text :
              /\ \A s \in text[i] \cap Statements :
                    Business.found[s] \subseteq AccountedFor(r)
              /\ AsksIn(text[i]) => plan.question # None
    BY <1>3, <1>8, <2>1, AcceptedIs
  <2>3. /\ Len(words) = Len(text) /\ DOMAIN words = DOMAIN text
        /\ \A i \in DOMAIN text : words[i] \subseteq text[i] \cup {"framing"}
    BY <1>7, <2>2, FramedIs
  <2>4. \A i \in DOMAIN text :
            "discovery_question" \in text[i] => plan.question # None
    BY <2>2 DEF AsksIn, Questions
  <2>5. r.covers = Business.covers
    BY <1>1 DEF RenderInput
  <2>6. ASSUME NEW s, Business.found[s] \subseteq AccountedFor(r)
        PROVE  Counted(s, ServicesOf(c, turn.heard), c)
    <3>1. \A term \in Business.found[s] :
              \E a \in ApprovedEvidence(r) : term \in Business.covers[a]
      BY <2>5, <2>6 DEF AccountedFor
    <3> QED
      BY <1>3, <3>1 DEF Counted, Supported
  <2>7. ASSUME NEW i \in DOMAIN words, NEW s \in words[i] \cap Statements
        PROVE  Counted(s, ServicesOf(c, turn.heard), c)
    BY <1>5, <2>2, <2>3, <2>6
  <2> QED
    BY <1>1, <1>3, <1>5, <1>8, <2>2, <2>3, <2>4, <2>7
<1>9. CASE ~Accepted(candidate, r)
  <2>1. text = Rendered(r)
    BY <1>6, <1>9 DEF Realized
  <2>2. Tells(text, X) /\ text # <<>> /\ Len(text) <= r.budget
    BY <1>3, <2>1, RenderedTells
  <2>3. PICK S : S = SUBSET X
    OBVIOUS
  <2>4. text \in Seq(S)
    BY <2>2, <2>3 DEF Tells
  <2>5. /\ Len(words) = Len(text) /\ DOMAIN words = DOMAIN text
        /\ \A i \in DOMAIN text : words[i] \subseteq text[i] \cup {"framing"}
    BY <1>7, <2>2, <2>4, FramedIs
  <2>6. \A i \in DOMAIN text : text[i] \subseteq X
    BY <2>3, <2>4
  <2>7. \A i \in DOMAIN words : words[i] \subseteq X
    BY <1>5, <2>5, <2>6
  <2> QED
    BY <1>1, <1>2, <1>3, <1>4, <1>9, <2>2, <2>5, <2>7
<1> QED
  BY <1>8, <1>9

-----------------------------------------------------------------------------
(* The steps of a turn.                                                      *)

\* The invariant holds of a new call.
LEMMA ReplyInitially == ReplyInit => ReplyIInv
<1> SUFFICES ASSUME ReplyInit
             PROVE  ReplyIInv
  OBVIOUS
<1>1. /\ phase = "hear" /\ turn = None /\ reply = None /\ asked = <<>>
      /\ Has(call, CallFields) /\ call.stage = "opening" /\ call.recent = <<>>
      /\ call.turns = 0 /\ call.calls = 0
  <2>1. /\ phase = "hear" /\ turn = None /\ reply = None /\ asked = <<>>
        /\ call \in {NewCall, [NewCall EXCEPT !.contact = "email",
                                             !.confirmed = TRUE]}
    BY DEF ReplyInit
  <2>2. /\ Has(NewCall, CallFields) /\ NewCall.stage = "opening"
        /\ NewCall.recent = <<>> /\ NewCall.turns = 0 /\ NewCall.calls = 0
    BY DEF NewCall, Has, CallFields
  <2>3. CASE call = NewCall
    BY <2>1, <2>2, <2>3
  <2>4. CASE call = [NewCall EXCEPT !.contact = "email", !.confirmed = TRUE]
    <3>1. call.stage = "opening" /\ call.recent = <<>>
          /\ call.turns = 0 /\ call.calls = 0
      BY <2>4 DEF NewCall
    <3>2. Has(call, CallFields)
      BY <2>2, <2>4 DEF Has
    <3> QED
      BY <2>1, <3>1, <3>2
  <2> QED
    BY <2>1, <2>3, <2>4
<1>2. Policies.budget.calls \in Nat
  BY PoliciesAssumption DEF PoliciesAssumption, LoadableBudget
<1>3. Shapes
  BY <1>1, <1>2 DEF Shapes, StageRank
<1>4. ClearContext /\ Onward /\ Approved /\ Advising
  BY <1>1 DEF ClearContext, Onward, Approved, Advising
<1>5. Remembered
  <2>1. call.recent \in Seq(Range(call.recent)) /\ Len(call.recent) = 0
        /\ None \notin Range(call.recent) /\ asked \in Seq(Range(asked))
    BY <1>1 DEF Range
  <2> QED
    BY <1>1, <2>1 DEF Remembered, MaxRecentConcepts
<1>6. EvidenceOnly /\ NothingBeyondAuthority /\ OfferIsBacked /\ NoQuestionTwice
  BY <1>1, <1>2 DEF EvidenceOnly, NothingBeyondAuthority, OfferIsBacked,
                    NoQuestionTwice
<1> QED
  BY <1>3, <1>4, <1>5, <1>6 DEF ReplyIInv

\* A record keeps its fields.
LEMMA FieldsKept ==
    /\ \A r, x : Has(r, CallFields) =>
          /\ Has([r EXCEPT !.about = x], CallFields)
          /\ Has([r EXCEPT !.problem = x], CallFields)
    /\ \A r, x : Has(r, ReplyFields) => Has([r EXCEPT !.text = x], ReplyFields)
  BY DEF Has, CallFields, ReplyFields

\* Learning touches what is known of the person and of the problem.
LEMMA LearnedIs ==
    ASSUME NEW c, Has(c, CallFields), NEW t
    PROVE  /\ Has(Briefed(c, t), CallFields) /\ Has(Learned(c, t), CallFields)
           /\ \A f \in CallFields \ {"about", "problem"} :
                 Briefed(c, t)[f] = c[f] /\ Learned(c, t)[f] = c[f]
<1>1. \A x : /\ Has([c EXCEPT !.about = x], CallFields)
             /\ \A f \in CallFields \ {"about", "problem"} :
                   [c EXCEPT !.about = x][f] = c[f]
  BY DEF Has, CallFields
<1>2. /\ Has(Briefed(c, t), CallFields)
      /\ \A f \in CallFields \ {"about", "problem"} : Briefed(c, t)[f] = c[f]
  BY <1>1 DEF Briefed
<1>3. /\ Has(Learned(c, t), CallFields)
      /\ \A f \in CallFields \ {"about", "problem"} : Learned(c, t)[f] = c[f]
  <2>1. PICK x : x = Merged(IF t.addressee = "agent"
                            THEN Merged(IF t.newPerson THEN Nobody
                                        ELSE Briefed(c, t).about, t.said)
                            ELSE IF t.newPerson THEN Nobody
                                 ELSE Briefed(c, t).about, t.noted)
    OBVIOUS
  <2>2. PICK y : y = IF t.problem = None THEN c.problem
                     ELSE UpdatedProblem(c.problem, t.problem)
    OBVIOUS
  <2>3. PICK d : d = [c EXCEPT !.about = x, !.problem = y]
    OBVIOUS
  <2>4. Learned(c, t) = IF t.priority # None THEN c ELSE d
    BY <2>1, <2>2, <2>3 DEF Learned
  <2>5. /\ Has(d, CallFields)
        /\ \A f \in CallFields \ {"about", "problem"} : d[f] = c[f]
    <3>1. DOMAIN d = CallFields
      BY <2>3 DEF Has
    <3>2. d = [f \in CallFields |-> d[f]]
      BY <2>3 DEF Has
    <3>3. \A f \in CallFields \ {"about", "problem"} : d[f] = c[f]
      BY <2>3 DEF Has, CallFields
    <3> QED
      BY <3>1, <3>2, <3>3 DEF Has
  <2>6. CASE t.priority # None
    BY <2>4, <2>6
  <2>7. CASE ~(t.priority # None)
    <3>1. Learned(c, t) = d
      BY <2>4, <2>7
    <3> QED
      BY <2>5, <3>1
  <2> QED
    BY <2>6, <2>7
<1> QED
  BY <1>2, <1>3

\* A turn that is refused says nothing.
LEMMA RefuseKeeps ==
    ASSUME ReplyIInv, NEW t \in Heard, Refuse(t)
    PROVE  ReplyIInv' /\ call'.stage = call.stage
<1>1. /\ phase = "hear" /\ phase' = phase /\ call' = Briefed(call, t)
      /\ turn' = turn /\ asked' = asked
      /\ reply' = IF reply = None THEN None ELSE [reply EXCEPT !.text = <<>>]
  BY DEF Refuse
<1>2. reply # None => Has(reply, ReplyFields)
  BY <1>1 DEF ReplyIInv, Shapes
<1>3. reply' # None =>
          /\ Has(reply', ReplyFields) /\ reply'.text = <<>>
          /\ reply # None
          /\ reply'.result = reply.result /\ reply'.proposal = reply.proposal
  BY <1>1, <1>2 DEF Has, ReplyFields
<1>4. Has(call, CallFields)
  BY DEF ReplyIInv, Shapes
<1>5. /\ Has(call', CallFields) /\ call'.stage = call.stage
      /\ call'.turns = call.turns /\ call'.calls = call.calls
      /\ call'.recent = call.recent
  BY <1>1, <1>4, LearnedIs DEF CallFields
<1>6. Shapes' /\ ClearContext' /\ Onward' /\ Approved' /\ Advising'
  BY <1>1, <1>3, <1>5 DEF ReplyIInv, Shapes, ClearContext, Onward, Approved,
                         Advising
<1>7. Remembered'
  <2>1. Done' = Done
    BY <1>1, <1>5 DEF Done
  <2> QED
    BY <1>1, <1>5, <2>1 DEF ReplyIInv, Remembered
<1>8. EvidenceOnly'
  BY <1>3 DEF EvidenceOnly
<1>9. NothingBeyondAuthority'
  <2>1. reply' # None => Len(reply'.text) <= Policies.budget.sentences
    BY <1>3, PoliciesAssumption DEF PoliciesAssumption, LoadableBudget
  <2> QED
    BY <1>3, <1>5, <2>1 DEF ReplyIInv, NothingBeyondAuthority
<1>10. OfferIsBacked' /\ NoQuestionTwice'
  BY <1>1, <1>3 DEF ReplyIInv, OfferIsBacked, NoQuestionTwice
<1> QED
  BY <1>5, <1>6, <1>7, <1>8, <1>9, <1>10 DEF ReplyIInv

\* Hearing a turn keeps the invariant and the stage.
LEMMA HearKeeps ==
    ASSUME ReplyIInv, NEW t \in Heard, Hear(t)
    PROVE  ReplyIInv' /\ call'.stage = call.stage
<1>1. PICK advice : /\ turn' = Begun(t, advice)
                    /\ advice = IF t.priority # None THEN None
                                ELSE Recommended(StrategyInput(call', t))
  BY DEF Hear
<1>2. /\ phase = "hear" /\ phase' = "decide" /\ call' = Learned(call, t)
      /\ Clear(call) /\ reply' = None /\ asked' = asked
  BY DEF Hear, Clear
<1>3. Has(call, CallFields)
  BY DEF ReplyIInv, Shapes
<1>4. /\ Has(call', CallFields) /\ call'.campaign = call.campaign
      /\ call'.eligible = call.eligible /\ call'.offered = call.offered
      /\ call'.stage = call.stage /\ call'.turns = call.turns
      /\ call'.calls = call.calls /\ call'.recent = call.recent
  BY <1>2, <1>3, LearnedIs DEF CallFields
<1>5. Clear(call')
  BY <1>2, <1>4, SameContext
<1>6. /\ Has(turn', TurnFields) /\ turn'.heard = t /\ turn'.advice = advice
      /\ Unadvised(turn')
  BY <1>1 DEF Begun, Has, TurnFields, Unadvised
<1>7. Shapes'
  BY <1>2, <1>4, <1>6 DEF ReplyIInv, Shapes
<1>8. ClearContext'
  BY <1>2, <1>5 DEF ClearContext, Clear
<1>9. Onward'
  <2>1. PICK in : in = StrategyInput(call', t)
    OBVIOUS
  <2>2. in.stage = call'.stage
    BY <2>1 DEF StrategyInput
  <2>3. call'.stage \in DOMAIN StageRank
    BY <1>4 DEF ReplyIInv, Shapes
  <2>4. advice # None =>
            /\ advice.stage \in DOMAIN StageRank
            /\ StageRank[advice.stage] >= StageRank[call'.stage]
    BY <1>1, <2>1, <2>2, <2>3, StageAdvised
  <2> QED
    BY <1>6, <2>4 DEF Onward, StageRank
<1>10. Approved' /\ Advising'
  BY <1>2, <1>6 DEF Approved, Advising, Unadvised
<1>11. Remembered'
  <2>1. Done' = Done
    BY <1>2, <1>4 DEF Done
  <2> QED
    BY <1>2, <1>4, <2>1 DEF ReplyIInv, Remembered
<1>12. EvidenceOnly' /\ NothingBeyondAuthority' /\ OfferIsBacked'
  BY <1>2, <1>4 DEF ReplyIInv, EvidenceOnly, NothingBeyondAuthority, OfferIsBacked
<1>13. NoQuestionTwice'
  BY <1>2 DEF ReplyIInv, NoQuestionTwice
<1> QED
  BY <1>4, <1>7, <1>8, <1>9, <1>10, <1>11, <1>12, <1>13 DEF ReplyIInv

\* An action touches the contact and the offers.
LEMMA AfterActionIs ==
    ASSUME NEW c, Has(c, CallFields), NEW p, NEW executes, NEW action, NEW keeps
    PROVE  /\ Has(AfterAction(c, p, executes, action, keeps), CallFields)
           /\ \A f \in CallFields \ {"contact", "confirmed", "offered"} :
                 AfterAction(c, p, executes, action, keeps)[f] = c[f]
<1>1. PICK confirms : confirms = (executes /\ action = "confirm_contact")
  OBVIOUS
<1>2. PICK offers : offers = (executes /\ action = "offer_service")
  OBVIOUS
<1>3. PICK x : x = IF keeps \/ confirms THEN "email" ELSE c.contact
  OBVIOUS
<1>4. PICK y : y = (c.confirmed \/ (confirms /\ c.over))
  OBVIOUS
<1>5. PICK z : z = IF offers
                   THEN c.offered \cup ({p.offers} \cap Business.authorized)
                   ELSE c.offered
  OBVIOUS
<1>6. PICK d : d = [c EXCEPT !.contact = x, !.confirmed = y, !.offered = z]
  OBVIOUS
<1>7. AfterAction(c, p, executes, action, keeps) = d
  BY <1>1, <1>2, <1>3, <1>4, <1>5, <1>6, Zenon DEF AfterAction
<1>8. DOMAIN d = CallFields /\ d = [f \in CallFields |-> d[f]]
  <2>1. DOMAIN d = CallFields
    BY <1>6 DEF Has
  <2>2. d = [f \in CallFields |-> d[f]]
    BY <1>6 DEF Has
  <2> QED
    BY <2>1, <2>2
<1>9. \A f \in CallFields \ {"contact", "confirmed", "offered"} : d[f] = c[f]
  BY <1>6 DEF Has, CallFields
<1> QED
  BY <1>7, <1>8, <1>9 DEF Has

\* Deciding keeps the invariant and never goes back a stage.
LEMMA DecideKeeps ==
    ASSUME ReplyIInv, NEW p \in Proposals, NEW executes \in BOOLEAN,
           NEW action, NEW keeps \in BOOLEAN, NEW ends \in BOOLEAN,
           Decide(p, executes, action, keeps, ends)
    PROVE  /\ ReplyIInv' /\ call'.stage \in DOMAIN StageRank
           /\ StageRank[call'.stage] >= StageRank[call.stage]
<1>1. PICK priority : priority = turn.heard.priority
  OBVIOUS
<1>2. PICK left : left = BudgetState(call)
  OBVIOUS
<1>3. PICK decision : decision = Decided(priority, left, p, Policies)
  OBVIOUS
<1>4. PICK result : result = ResultKind(decision, executes)
  OBVIOUS
<1>5. PICK c : c = [call EXCEPT
                !.stage = IF turn.advice = None THEN @ ELSE turn.advice.stage,
                !.turns = @ + 1,
                !.calls = @ + (IF decision.reasoned THEN 1 ELSE 0),
                !.greeting = @ /\ action \in {None, "greet"},
                !.over = ends]
  OBVIOUS
<1>6. /\ phase = "decide" /\ phase' = "consult" /\ reply' = reply
      /\ asked' = asked
      /\ call' = AfterAction(c, p, executes, action, keeps)
  BY <1>1, <1>2, <1>3, <1>4, <1>5, Zenon DEF Decide
<1>7. turn' = [turn EXCEPT
                !.result = result, !.scope = decision.scope,
                !.tier = decision.tier, !.view = View(call),
                !.proposal = IF priority # None THEN None ELSE p,
                !.action = action]
  BY <1>1, <1>2, <1>3, <1>4, Zenon DEF Decide
<1>8. /\ Has(call, CallFields) /\ Has(turn, TurnFields) /\ turn.heard \in Heard
      /\ call.stage \in DOMAIN StageRank /\ call.turns \in Nat
      /\ call.calls \in Nat /\ call.calls <= Policies.budget.calls
      /\ Clear(call) /\ Unadvised(turn)
  BY <1>6 DEF ReplyIInv, Shapes, ClearContext, Advising
<1>9. PICK stage : stage = IF turn.advice = None THEN call.stage
                           ELSE turn.advice.stage
  OBVIOUS
<1>10. /\ stage \in DOMAIN StageRank
       /\ StageRank[stage] >= StageRank[call.stage]
  BY <1>6, <1>8, <1>9 DEF ReplyIInv, Onward, StageRank
<1>11. PICK used : used = call.calls + (IF decision.reasoned THEN 1 ELSE 0)
  OBVIOUS
<1>12. /\ Has(c, CallFields) /\ c.stage = stage /\ c.turns = call.turns + 1
       /\ c.calls = used /\ c.campaign = call.campaign /\ c.recent = call.recent
  <2>1. PICK turns : turns = call.turns + 1
    OBVIOUS
  <2>2. PICK greeting :
            greeting = (call.greeting /\ action \in {None, "greet"})
    OBVIOUS
  <2>3. c = [call EXCEPT !.stage = stage, !.turns = turns, !.calls = used,
                         !.greeting = greeting, !.over = ends]
    BY <1>5, <1>9, <1>11, <2>1, <2>2, Zenon
  <2>4. DOMAIN c = CallFields
    BY <1>8, <2>3 DEF Has
  <2>5. c = [f \in CallFields |-> c[f]]
    BY <1>8, <2>3 DEF Has
  <2>6. /\ c.stage = stage /\ c.turns = turns /\ c.calls = used
        /\ c.campaign = call.campaign /\ c.recent = call.recent
    BY <1>8, <2>3 DEF Has, CallFields
  <2> QED
    BY <2>1, <2>4, <2>5, <2>6 DEF Has
<1>13. /\ Has(call', CallFields) /\ call'.stage = stage
       /\ call'.turns = call.turns + 1 /\ call'.calls = used
       /\ call'.campaign = call.campaign /\ call'.recent = call.recent
  BY <1>6, <1>12, AfterActionIs DEF CallFields
<1>14. used \in Nat /\ used <= Policies.budget.calls
  <2>1. Policies.budget.calls \in Nat
    BY PoliciesAssumption DEF PoliciesAssumption, LoadableBudget
  <2>2. decision.reasoned \in BOOLEAN
        /\ (decision.reasoned => ~(left.calls <= 0))
    BY <1>3, DecidedIs
  <2>3. left.calls = IF Policies.budget.calls > call.calls
                      THEN Policies.budget.calls - call.calls ELSE 0
    BY <1>2 DEF BudgetState
  <2>4. decision.reasoned => call.calls < Policies.budget.calls
    BY <1>8, <2>1, <2>2, <2>3
  <2> QED
    BY <1>8, <1>11, <2>1, <2>2, <2>4
<1>15. /\ Has(turn', TurnFields) /\ turn'.heard = turn.heard
       /\ turn'.result = result /\ turn'.view = View(call)
       /\ turn'.proposal = (IF priority # None THEN None ELSE p)
       /\ Unadvised(turn')
  BY <1>7, <1>8 DEF Has, TurnFields, Unadvised
<1>16. Clear(Seen(call', turn'.view))
  <2>1. PICK d : d = Seen(call', turn'.view)
    OBVIOUS
  <2>2. d.campaign = call.campaign /\ d.eligible = call.eligible
        /\ d.offered = call.offered
    BY <1>13, <1>15, <2>1, SeenIs DEF View
  <2> QED
    BY <1>8, <2>1, <2>2, SameContext
<1>17. reply = None
  BY <1>6 DEF ReplyIInv, Shapes
<1>18. Shapes'
  BY <1>6, <1>8, <1>10, <1>13, <1>14, <1>15, <1>17 DEF Shapes
<1>19. ClearContext' /\ Onward'
  BY <1>6, <1>16 DEF ClearContext, Clear, Onward
<1>20. Approved'
  <2>1. result = "executed" => priority = None /\ Permitted(p)
    BY <1>3, <1>4, DecidedIs
  <2>2. result = "executed" =>
            turn'.heard.priority = None /\ Permitted(turn'.proposal)
    BY <1>1, <1>15, <2>1
  <2> QED
    BY <1>15, <2>2 DEF Approved
<1>21. Advising'
  BY <1>6, <1>15 DEF Advising, Unadvised
<1>22. Remembered'
  <2>1. Done' = Done
    BY <1>6, <1>8, <1>13 DEF Done
  <2>2. call'.turns > 0
    BY <1>8, <1>13
  <2>3. Remembered
    BY DEF ReplyIInv
  <2> QED
    BY <1>6, <1>13, <2>1, <2>2, <2>3 DEF Remembered
<1>23. EvidenceOnly' /\ NothingBeyondAuthority' /\ OfferIsBacked'
  BY <1>6, <1>13, <1>14, <1>17 DEF EvidenceOnly, NothingBeyondAuthority,
                                   OfferIsBacked
<1>24. NoQuestionTwice'
  BY <1>6 DEF ReplyIInv, NoQuestionTwice
<1> QED
  BY <1>10, <1>13, <1>18, <1>19, <1>20, <1>21, <1>22, <1>23, <1>24 DEF ReplyIInv

\* Consulting the policies keeps the invariant and the call.
LEMMA ConsultKeeps ==
    ASSUME ReplyIInv, NEW signals, NEW mood, Consult(signals, mood)
    PROVE  ReplyIInv' /\ call' = call
<1>1. PICK c : c = Seen(call, turn.view)
  OBVIOUS
<1>2. PICK fit : fit = ServiceFit(c.problem, Shop(c))
  OBVIOUS
<1>3. PICK decision :
        decision = Consulted(ConsultInput(c, turn.heard, fit, signals))
  OBVIOUS
<1>4. PICK guidance : guidance = Guided(CognitionInput(c, turn.heard,
                                                       decision, mood))
  OBVIOUS
<1>5. /\ phase = "consult" /\ phase' = "speak" /\ call' = call
      /\ reply' = reply /\ asked' = asked
      /\ turn' = IF turn.heard.priority # None THEN turn
                   ELSE [turn EXCEPT
                    !.escalation = Escalated(EscalationFacts(c, turn.heard),
                                             EscalationRequest(turn.heard),
                                             turn.scope, turn.tier),
                    !.consultative = decision,
                    !.answer = ServiceAnswer(fit, Shop(c)),
                    !.guidance = guidance]
  BY <1>1, <1>2, <1>3, <1>4 DEF Consult
<1>6. /\ Has(call, CallFields) /\ Has(turn, TurnFields) /\ turn.heard \in Heard
      /\ reply = None /\ Clear(c) /\ Unadvised(turn)
      /\ None \notin Range(call.recent)
  BY <1>1, <1>5 DEF ReplyIInv, Shapes, ClearContext, Advising, Remembered
<1>7. c.recent = call.recent /\ c.problem = call.problem
  BY <1>1, <1>6, SeenIs
<1>8. decision.depth \in Lengths
  BY <1>3, ConsultedDepth
<1>9. /\ guidance.depth \in Lengths
      /\ ValidGuidance(guidance, [recent |-> call.recent,
                                  fit |-> FitOf(decision)])
  <2>1. PICK in : in = CognitionInput(c, turn.heard, decision, mood)
    OBVIOUS
  <2>2. /\ in.recent = call.recent /\ in.fit = FitOf(decision)
        /\ in.depth = decision.depth
    BY <1>7, <2>1 DEF CognitionInput
  <2>3. guidance.depth \in Lengths /\ ValidGuidance(guidance, in)
    BY <1>4, <1>6, <1>8, <2>1, <2>2, GuidedIs
  <2> QED
    BY <2>2, <2>3 DEF ValidGuidance
<1>10. /\ Has(turn', TurnFields) /\ turn'.heard = turn.heard
       /\ turn'.view = turn.view /\ turn'.result = turn.result
       /\ turn'.proposal = turn.proposal /\ turn'.scope = turn.scope
       /\ turn'.tier = turn.tier
  BY <1>5, <1>6 DEF Has, TurnFields
<1>11. Shapes' /\ ClearContext' /\ Onward'
  BY <1>1, <1>5, <1>6, <1>10 DEF ReplyIInv, Shapes, ClearContext, Clear, Onward
<1>12. Approved'
  BY <1>5, <1>10 DEF ReplyIInv, Approved
<1>13. ASSUME turn.heard.priority # None
       PROVE  Advising' /\ NoQuestionTwice'
  <2>1. turn' = turn
    BY <1>5, <1>13
  <2>2. Advising'
    BY <1>5, <1>6, <1>13, <2>1 DEF Advising, Unadvised
  <2>3. NoQuestionTwice'
    BY <1>5, <1>6, <2>1 DEF ReplyIInv, NoQuestionTwice, Unadvised
  <2> QED
    BY <2>2, <2>3
<1>14. ASSUME turn.heard.priority = None
       PROVE  Advising' /\ NoQuestionTwice'
  <2>1. /\ turn'.escalation = Escalated(EscalationFacts(c, turn.heard),
                                        EscalationRequest(turn.heard),
                                        turn.scope, turn.tier)
        /\ turn'.consultative = decision
        /\ turn'.answer = ServiceAnswer(fit, Shop(c))
        /\ turn'.guidance = guidance
    BY <1>5, <1>6, <1>14 DEF Has, TurnFields
  <2>2. Advised(turn)'
    BY <1>1, <1>2, <1>5, <1>7, <1>8, <1>9, <1>10, <2>1 DEF Advised
  <2>3. Advising'
    BY <1>5, <1>10, <1>14, <2>2 DEF Advising
  <2>4. NoQuestionTwice'
    BY <1>1, <1>2, <1>5, <1>7, <1>9, <1>10, <2>1 DEF ReplyIInv, NoQuestionTwice
  <2> QED
    BY <2>3, <2>4
<1>15. Remembered'
  <2>1. Done' = Done
    BY <1>5 DEF Done
  <2> QED
    BY <1>5, <2>1 DEF ReplyIInv, Remembered
<1>16. EvidenceOnly' /\ NothingBeyondAuthority' /\ OfferIsBacked'
  BY <1>5, <1>6 DEF ReplyIInv, EvidenceOnly, NothingBeyondAuthority, OfferIsBacked
<1> QED
  BY <1>5, <1>11, <1>12, <1>13, <1>14, <1>15, <1>16 DEF ReplyIInv

\* A concept asked takes its place behind the last few.
LEMMA ConceptsAre ==
    ASSUME NEW recent, recent \in Seq(Range(recent)), None \notin Range(recent),
           Len(recent) <= MaxRecentConcepts, NEW guidance, NEW plan,
           NEW longer, longer = Concepts(recent, guidance, plan)
    PROVE  /\ longer \in Seq(Range(longer)) /\ None \notin Range(longer)
           /\ Len(longer) <= MaxRecentConcepts
           /\ \A k \in DOMAIN recent :
                 Len(recent) - k < MaxRecentConcepts - 1 =>
                    \E l \in DOMAIN longer :
                        /\ longer[l] = recent[k]
                        /\ Len(longer) - l <= Len(recent) - k + 1
           /\ (guidance # None /\ guidance.focus # None /\ plan.question # None) =>
                 Len(longer) \in DOMAIN longer /\ longer[Len(longer)] = guidance.focus
<1>1. PICK n \in Nat : n = Len(recent) /\ DOMAIN recent = 1..n /\ n <= 4
  BY DEF MaxRecentConcepts
<1>2. CASE guidance = None \/ plan.question = None \/ guidance.focus = None
  <2>1. longer = recent
    BY <1>2 DEF Concepts
  <2>2. ASSUME NEW k \in DOMAIN recent
        PROVE  Len(longer) - k <= Len(recent) - k + 1
    BY <1>1, <2>1
  <2> QED
    BY <1>2, <2>1, <2>2
<1>3. CASE ~(guidance = None \/ plan.question = None \/ guidance.focus = None)
  <2>1. PICK focus : focus = guidance.focus
    OBVIOUS
  <2>2. PICK S : S = Range(recent) \cup {focus}
    OBVIOUS
  <2>3. recent \in Seq(S)
    BY <2>2
  <2>4. PICK all : all = Append(recent, focus)
    OBVIOUS
  <2>5. /\ all \in Seq(S) /\ Len(all) = n + 1 /\ all[n + 1] = focus
        /\ \A i \in 1..n : all[i] = recent[i]
    BY <1>1, <2>2, <2>3, <2>4
  <2>6. PICK start : start = IF n + 1 > 4 THEN 2 ELSE 1
    OBVIOUS
  <2>7. start \in 1..(n + 1) /\ start \in {1, 2}
        /\ n + 2 - start <= 4 /\ (start = 2 => n = 4)
    BY <1>1, <2>6
  <2>8. longer = SubSeq(all, start, n + 1)
    BY <1>1, <1>3, <2>1, <2>4, <2>5, <2>6 DEF Concepts, MaxRecentConcepts
  <2>9. /\ longer \in Seq(S) /\ Len(longer) = n + 2 - start
        /\ \A l \in 1..(n + 2 - start) : longer[l] = all[l + start - 1]
    BY <2>5, <2>7, <2>8
  <2>10. DOMAIN longer = 1..(n + 2 - start)
    BY <2>9
  <2>11. longer[Len(longer)] = focus /\ Len(longer) \in DOMAIN longer
    BY <2>5, <2>7, <2>9, <2>10
  <2>12. None \notin Range(longer) /\ longer \in Seq(Range(longer))
    <3>1. None \notin S
      BY <1>3, <2>1, <2>2
    <3>2. Range(longer) \subseteq S
      BY <2>9, <2>10 DEF Range
    <3>3. longer \in [1..(n + 2 - start) -> Range(longer)]
      BY <2>9, <2>10 DEF Range
    <3>4. n + 2 - start \in Nat
      BY <2>7
    <3> QED
      BY <3>1, <3>2, <3>3, <3>4
  <2>13. ASSUME NEW k \in DOMAIN recent,
                Len(recent) - k < MaxRecentConcepts - 1
         PROVE  \E l \in DOMAIN longer :
                    /\ longer[l] = recent[k]
                    /\ Len(longer) - l <= Len(recent) - k + 1
    <3>1. k \in 1..n /\ n - k < 3
      BY <1>1, <2>13 DEF MaxRecentConcepts
    <3>2. PICK l : l = k - start + 1
      OBVIOUS
    <3>3. l \in 1..(n + 2 - start) /\ l + start - 1 = k
          /\ (n + 2 - start) - l <= n - k + 1
      BY <2>7, <3>1, <3>2
    <3>4. longer[l] = recent[k]
      BY <2>5, <2>9, <3>1, <3>3
    <3> QED
      BY <1>1, <2>9, <2>10, <3>3, <3>4
  <2> QED
    BY <1>3, <2>1, <2>7, <2>9, <2>11, <2>12, <2>13 DEF MaxRecentConcepts
<1> QED
  BY <1>2, <1>3

\* What is asked is remembered, and what was is not forgotten too soon.
LEMMA AskedKept ==
    ASSUME ReplyIInv, phase = "speak", phase' = "hear",
           NEW plan, call'.turns = call.turns,
           call'.recent = Concepts(call.recent, turn.guidance, plan),
           \/ asked' = asked
           \/ /\ turn.guidance # None /\ turn.guidance.focus # None
              /\ plan.question # None
              /\ asked' = Append(asked, [concept |-> turn.guidance.focus,
                                         turn |-> call.turns])
    PROVE  Remembered' /\ NoQuestionTwice'
<1>1. PICK recent : recent = call.recent
  OBVIOUS
<1>2. PICK longer : longer = call'.recent
  OBVIOUS
<1>3. PICK past : past = call.turns - 1
  OBVIOUS
<1>4. /\ call.turns \in Nat /\ call.turns > 0 /\ past \in Nat
      /\ Done = past /\ Done' = past + 1
      /\ recent \in Seq(Range(recent)) /\ None \notin Range(recent)
      /\ Len(recent) <= MaxRecentConcepts /\ asked \in Seq(Range(asked))
      /\ \A i \in DOMAIN asked :
            /\ asked[i].turn \in Nat
            /\ past - asked[i].turn < MaxRecentConcepts =>
                \E k \in DOMAIN recent :
                    /\ recent[k] = asked[i].concept
                    /\ Len(recent) - k <= past - asked[i].turn
  <2>1. Shapes /\ Remembered
    BY DEF ReplyIInv
  <2>2. call.turns \in Nat /\ call.turns > 0
    BY <2>1 DEF Shapes, Remembered
  <2>3. past \in Nat /\ Done = past /\ Done' = past + 1
    BY <1>3, <2>2 DEF Done
  <2> QED
    BY <1>1, <2>1, <2>2, <2>3 DEF Remembered
<1>5. /\ longer \in Seq(Range(longer)) /\ None \notin Range(longer)
      /\ Len(longer) <= MaxRecentConcepts
      /\ \A k \in DOMAIN recent :
            Len(recent) - k < MaxRecentConcepts - 1 =>
                    \E l \in DOMAIN longer :
                        /\ longer[l] = recent[k]
                        /\ Len(longer) - l <= Len(recent) - k + 1
      /\ (turn.guidance # None /\ turn.guidance.focus # None
            /\ plan.question # None) =>
            /\ Len(longer) \in DOMAIN longer
            /\ longer[Len(longer)] = turn.guidance.focus
  <2>1. PICK guidance : guidance = turn.guidance
    OBVIOUS
  <2>2. longer = Concepts(recent, guidance, plan)
    BY <1>1, <1>2, <2>1
  <2>3. /\ recent \in Seq(Range(recent)) /\ None \notin Range(recent)
        /\ Len(recent) <= MaxRecentConcepts
    BY <1>4
  <2>4. /\ longer \in Seq(Range(longer)) /\ None \notin Range(longer)
        /\ Len(longer) <= MaxRecentConcepts
        /\ \A k \in DOMAIN recent :
              Len(recent) - k < MaxRecentConcepts - 1 =>
                    \E l \in DOMAIN longer :
                        /\ longer[l] = recent[k]
                        /\ Len(longer) - l <= Len(recent) - k + 1
        /\ (guidance # None /\ guidance.focus # None /\ plan.question # None)
              => /\ Len(longer) \in DOMAIN longer
                 /\ longer[Len(longer)] = guidance.focus
    BY <2>2, <2>3, ConceptsAre
  <2> QED
    BY <2>1, <2>4
<1>6. Len(recent) \in Nat /\ Len(longer) \in Nat
      /\ DOMAIN recent = 1..Len(recent) /\ DOMAIN longer = 1..Len(longer)
  BY <1>4, <1>5
<1>7. ASSUME NEW i \in DOMAIN asked,
             (past + 1) - asked[i].turn < MaxRecentConcepts
      PROVE  \E l \in DOMAIN longer :
                /\ longer[l] = asked[i].concept
                /\ Len(longer) - l <= (past + 1) - asked[i].turn
  <2>1. asked[i].turn \in Nat
    BY <1>4
  <2>2. past - asked[i].turn < MaxRecentConcepts - 1
    BY <1>4, <1>7, <2>1 DEF MaxRecentConcepts
  <2>3. PICK k \in DOMAIN recent : /\ recent[k] = asked[i].concept
                                   /\ Len(recent) - k <= past - asked[i].turn
    BY <1>4, <2>1, <2>2 DEF MaxRecentConcepts
  <2>4. k \in Nat /\ Len(recent) - k < MaxRecentConcepts - 1
    BY <1>4, <1>6, <2>1, <2>2, <2>3 DEF MaxRecentConcepts
  <2>5. PICK l \in DOMAIN longer : /\ longer[l] = recent[k]
                                   /\ Len(longer) - l <= Len(recent) - k + 1
    BY <1>5, <2>3, <2>4
  <2>6. Len(longer) - l <= (past + 1) - asked[i].turn
    BY <1>4, <1>6, <2>1, <2>3, <2>4, <2>5
  <2> QED
    BY <2>3, <2>5, <2>6
<1>8. \A i, j \in DOMAIN asked :
          i < j /\ asked[j].turn - asked[i].turn <= MaxRecentConcepts
              => asked[i].concept # asked[j].concept
  BY DEF ReplyIInv, NoQuestionTwice
<1>9. CASE asked' = asked
  <2>1. Remembered'
    BY <1>2, <1>4, <1>5, <1>7, <1>9 DEF Remembered
  <2>2. NoQuestionTwice'
    BY <1>8, <1>9 DEF NoQuestionTwice
  <2> QED
    BY <2>1, <2>2
<1>10. CASE /\ turn.guidance # None /\ turn.guidance.focus # None
            /\ plan.question # None
            /\ asked' = Append(asked, [concept |-> turn.guidance.focus,
                                       turn |-> call.turns])
  <2>1. PICK new : new = [concept |-> turn.guidance.focus, turn |-> call.turns]
    OBVIOUS
  <2>2. new.concept = turn.guidance.focus /\ new.turn = past + 1
    BY <1>3, <1>4, <2>1
  <2>3. PICK S : S = Range(asked) \cup {new}
    OBVIOUS
  <2>4. asked \in Seq(S) /\ new \in S
    BY <1>4, <2>3
  <2>5. PICK m \in Nat : m = Len(asked) /\ DOMAIN asked = 1..m
    BY <2>4
  <2>6. PICK q : q = asked'
    OBVIOUS
  <2>7. /\ q \in Seq(S) /\ Len(q) = m + 1 /\ DOMAIN q = 1..(m + 1)
        /\ q[m + 1] = new /\ \A i \in 1..m : q[i] = asked[i]
    BY <1>10, <2>1, <2>4, <2>5, <2>6
  <2>8. q \in Seq(Range(q))
    <3>1. q \in [1..(m + 1) -> Range(q)]
      BY <2>7 DEF Range
    <3> QED
      BY <2>5, <3>1
  <2>9. \A i \in 1..(m + 1) : i \in 1..m \/ i = m + 1
    BY <2>5
  <2>10. ASSUME NEW i \in 1..(m + 1)
         PROVE  /\ q[i].turn \in Nat
                /\ (past + 1) - q[i].turn < MaxRecentConcepts =>
                      \E l \in DOMAIN longer :
                        /\ longer[l] = q[i].concept
                        /\ Len(longer) - l <= (past + 1) - q[i].turn
    <3>1. CASE i \in 1..m
      BY <1>4, <1>7, <2>5, <2>7, <3>1
    <3>2. CASE i = m + 1
      <4>1. Len(longer) \in DOMAIN longer /\ longer[Len(longer)] = q[i].concept
        BY <1>5, <1>10, <2>2, <2>7, <3>2
      <4>2. q[i].turn = past + 1 /\ past + 1 \in Nat
        BY <1>4, <2>2, <2>7, <3>2
      <4>3. Len(longer) - Len(longer) <= (past + 1) - q[i].turn
        BY <1>4, <1>6, <4>2
      <4> QED
        BY <4>1, <4>2, <4>3
    <3> QED
      BY <2>9, <3>1, <3>2
  <2>11. Remembered'
    BY <1>2, <1>4, <1>5, <2>6, <2>7, <2>8, <2>10 DEF Remembered
  <2>12. turn.guidance.focus \notin Range(recent)
    BY <1>1, <1>10 DEF ReplyIInv, Advising, Advised, Unadvised, ValidGuidance
  <2>13. ASSUME NEW i \in 1..(m + 1), NEW j \in 1..(m + 1), i < j,
                q[j].turn - q[i].turn <= MaxRecentConcepts
         PROVE  q[i].concept # q[j].concept
    <3>1. i \in 1..m
      BY <2>5, <2>13
    <3>2. CASE j \in 1..m
      BY <1>8, <2>5, <2>7, <2>13, <3>1, <3>2
    <3>3. CASE j = m + 1
      <4>1. asked[i].turn \in Nat /\ (past + 1) - asked[i].turn <= MaxRecentConcepts
        BY <1>4, <2>2, <2>5, <2>7, <2>13, <3>1, <3>3
      <4>2. past - asked[i].turn < MaxRecentConcepts
        BY <1>4, <4>1 DEF MaxRecentConcepts
      <4>3. asked[i].concept \in Range(recent)
        BY <1>4, <2>5, <3>1, <4>2 DEF Range
      <4> QED
        BY <2>2, <2>7, <2>12, <3>1, <3>3, <4>3
    <3> QED
      BY <2>9, <3>2, <3>3
  <2>14. NoQuestionTwice'
    BY <2>6, <2>7, <2>13 DEF NoQuestionTwice
  <2> QED
    BY <2>11, <2>14
<1> QED
  BY <1>9, <1>10

\* Responding keeps the invariant and the stage.
LEMMA RespondKeeps ==
    ASSUME ReplyIInv, NEW candidate \in Candidates, Respond(candidate)
    PROVE  ReplyIInv' /\ call'.stage = call.stage
<1>1. PICK plan : plan = Plan(PlanInput(turn))
  OBVIOUS
<1>2. PICK input : input = RenderInput(call, turn, plan)
  OBVIOUS
<1>3. PICK words : words = Words(candidate)
  OBVIOUS
<1>4. PICK c : c = Seen(call, turn.view)
  OBVIOUS
<1>5. /\ phase = "speak" /\ phase' = "hear" /\ turn' = None
      /\ call' = [call EXCEPT
                    !.recent = Concepts(@, turn.guidance, plan),
                    !.prior = turn.guidance]
      /\ asked' = IF Asks(turn, words)
                  THEN Append(asked, [concept |-> turn.guidance.focus,
                                      turn |-> call.turns])
                  ELSE asked
      /\ reply' = [text |-> words, worded |-> Accepted(candidate, input),
                   goal |-> plan.goal,
                   question |-> IF call.over THEN None ELSE plan.question,
                   result |-> turn.result, proposal |-> turn.proposal,
                   addressee |-> turn.heard.addressee,
                   service |-> turn.heard.service, view |-> turn.view,
                   over |-> call.over]
  BY <1>1, <1>2, <1>3 DEF Respond, Words
<1>6. Ready /\ Has(call, CallFields)
  BY <1>5 DEF ReplyIInv, Ready, Shapes
<1>7. /\ Len(words) <= Policies.budget.sentences
      /\ \A i \in DOMAIN words :
            /\ \A s \in words[i] \cap Statements :
                  IF Accepted(candidate, input)
                  THEN Counted(s, ServicesOf(c, turn.heard), c)
                  ELSE Supported(s, ServicesOf(c, turn.heard), c)
            /\ "discovery_question" \in words[i] => plan.question # None
            /\ ~Accepted(candidate, input) =>
                  words[i] \subseteq Sayable(c, turn.heard, plan)
  BY <1>1, <1>2, <1>3, <1>4, <1>6, WordsAre
<1>8. /\ Has(call', CallFields) /\ call'.stage = call.stage
      /\ call'.turns = call.turns /\ call'.calls = call.calls
      /\ call'.campaign = call.campaign /\ call'.problem = call.problem
      /\ call'.recent = Concepts(call.recent, turn.guidance, plan)
  BY <1>5, <1>6 DEF Has, CallFields
<1>9. /\ Has(reply', ReplyFields) /\ reply'.text = words
      /\ reply'.result = turn.result /\ reply'.proposal = turn.proposal
      /\ reply'.service = turn.heard.service /\ reply'.view = turn.view
      /\ reply'.worded = Accepted(candidate, input)
  BY <1>5 DEF Has, ReplyFields
<1>10. Shapes' /\ ClearContext' /\ Onward' /\ Approved' /\ Advising'
  BY <1>5, <1>8, <1>9 DEF ReplyIInv, Shapes, ClearContext, Onward, Approved,
                          Advising
<1>11. Remembered' /\ NoQuestionTwice'
  <2>1. Asks(turn, words) =>
            /\ turn.guidance # None /\ turn.guidance.focus # None
            /\ plan.question # None
    BY <1>7 DEF Asks
  <2> QED
    BY <1>5, <1>8, <2>1, AskedKept
<1>12. PICK d : d = Seen(call', reply'.view)
  OBVIOUS
<1>13. /\ d.campaign = c.campaign /\ d.eligible = c.eligible
       /\ d.offered = c.offered /\ d.problem = c.problem
  BY <1>4, <1>6, <1>8, <1>9, <1>12, SeenIs
<1>14. EvidenceOnly'
  <2>1. Shop(d) = Shop(c)
    BY <1>13, SameContext
  <2>2. ServicesOf(d, turn.heard) = ServicesOf(c, turn.heard)
    BY <1>13, <2>1 DEF ServicesOf
  <2>3. /\ ContextEvidence(Business.evidence, d) =
                ContextEvidence(Business.evidence, c)
        /\ \A s, services : Supported(s, services, d) <=>
                                Supported(s, services, c)
        /\ \A s, services : Counted(s, services, d) <=> Counted(s, services, c)
    BY <1>13, SameContext DEF Counted, Holds
  <2>4. ASSUME NEW i \in DOMAIN words, NEW s \in words[i] \cap Statements
        PROVE  IF Accepted(candidate, input)
               THEN Counted(s, ServicesOf(d, turn.heard), d)
               ELSE Supported(s, ServicesOf(d, turn.heard), d)
    BY <1>7, <2>2, <2>3
  <2>5. PICK seen : seen = ContextEvidence(Business.evidence, d)
    OBVIOUS
  <2>6. PICK services :
            services = {reply'.service, ServiceFit(d.problem, Shop(d)).service}
    OBVIOUS
  <2>7. services = ServicesOf(d, turn.heard)
    BY <1>9, <2>6 DEF ServicesOf
  <2>8. ASSUME NEW i \in DOMAIN reply'.text,
               NEW s \in reply'.text[i] \cap Statements
        PROVE  IF reply'.worded
               THEN \A term \in Business.found[s] :
                        \E item \in seen :
                            /\ term \in Business.covers[item.statement]
                            /\ \E service \in services : Holds(item, service, d)
               ELSE \E item \in seen :
                        /\ item.statement = s
                        /\ \E service \in services : Holds(item, service, d)
    <3>1. IF Accepted(candidate, input) THEN Counted(s, services, d)
          ELSE Supported(s, services, d)
      BY <1>9, <2>4, <2>7, <2>8
    <3> QED
      BY <1>9, <2>5, <3>1 DEF Counted, Supported
  <2> QED
    BY <1>12, <2>5, <2>6, <2>8 DEF EvidenceOnly, Holds
<1>15. NothingBeyondAuthority'
  <2>1. call.calls <= Policies.budget.calls
    BY DEF ReplyIInv, NothingBeyondAuthority
  <2>2. turn.result = "executed" => Permitted(turn.proposal)
    BY <1>5 DEF ReplyIInv, Approved
  <2> QED
    BY <1>7, <1>8, <1>9, <2>1, <2>2 DEF NothingBeyondAuthority
<1>16. OfferIsBacked'
  <2> SUFFICES ASSUME ~Accepted(candidate, input), NEW i \in DOMAIN words
               PROVE  /\ "may_request_human" \in words[i] =>
                            "human_handoff" \in Business.capabilities
                      /\ "may_request_callback" \in words[i] =>
                            "callback" \in Business.capabilities
                      /\ "may_request_information" \in words[i] =>
                            \/ "technical_review" \in Business.capabilities
                            \/ /\ "email" \in Business.capabilities
                               /\ turn.view.confirmed
    BY <1>9 DEF OfferIsBacked
  <2>1. words[i] \subseteq Sayable(c, turn.heard, plan)
    BY <1>7
  <2>2. c.confirmed = turn.view.confirmed
    BY <1>4, <1>6, SeenIs
  <2> QED
    BY <2>1, <2>2, SayableIs
<1> QED
  BY <1>8, <1>10, <1>11, <1>14, <1>15, <1>16 DEF ReplyIInv

\* Every step keeps the invariant and never goes back a stage.
LEMMA ReplyStep ==
    ASSUME ReplyIInv, [ReplyNext]_replyVars
    PROVE  /\ ReplyIInv'
           /\ StageRank[call'.stage] >= StageRank[call.stage]
<1>1. StageRank[call.stage] >= StageRank[call.stage]
  BY DEF ReplyIInv, Shapes, StageRank
<1>2. CASE UNCHANGED replyVars
  <2>1. ReplyIInv'
    BY <1>2 DEF replyVars, ReplyIInv, Shapes, ClearContext, Onward, Approved,
            Advising, Advised, Unadvised, Remembered, Done, EvidenceOnly,
            NothingBeyondAuthority, OfferIsBacked, NoQuestionTwice
  <2> QED
    BY <1>1, <1>2, <2>1 DEF replyVars
<1>3. ASSUME NEW t \in Heard, Refuse(t)
      PROVE  ReplyIInv' /\ StageRank[call'.stage] >= StageRank[call.stage]
  BY <1>1, <1>3, RefuseKeeps
<1>4. ASSUME NEW t \in Heard, Hear(t)
      PROVE  ReplyIInv' /\ StageRank[call'.stage] >= StageRank[call.stage]
  BY <1>1, <1>4, HearKeeps
<1>5. ASSUME NEW p \in Proposals, NEW executes \in BOOLEAN, NEW action,
             NEW keeps \in BOOLEAN, NEW ends \in BOOLEAN,
             Decide(p, executes, action, keeps, ends)
      PROVE  ReplyIInv' /\ StageRank[call'.stage] >= StageRank[call.stage]
  BY <1>5, DecideKeeps
<1>6. ASSUME NEW s \in Signals, NEW m \in Moods, Consult(s, m)
      PROVE  ReplyIInv' /\ StageRank[call'.stage] >= StageRank[call.stage]
  BY <1>1, <1>6, ConsultKeeps
<1>7. ASSUME NEW candidate \in Candidates, Respond(candidate)
      PROVE  ReplyIInv' /\ StageRank[call'.stage] >= StageRank[call.stage]
  BY <1>1, <1>7, RespondKeeps
<1> QED
  BY <1>2, <1>3, <1>4, <1>5, <1>6, <1>7 DEF ReplyNext

-----------------------------------------------------------------------------
(* Theorems.                                                                 *)

\* The inductive invariant of the reply (process_turn, steps in their order).
THEOREM ReplyIInvCorrect == ReplySpec => []ReplyIInv
<1>1. ReplyInit => ReplyIInv
  BY ReplyInitially
<1>2. ReplyIInv /\ [ReplyNext]_replyVars => ReplyIInv'
  BY ReplyStep
<1> QED
  BY <1>1, <1>2, PTL DEF ReplySpec

\* The agent of itself states nothing without evidence that the turn saw, that
\* applies and that is not contradicted; a provider asserts and counts nothing
\* that is not in the text of such evidence (escalation/policy.py,
\* service_relevance.py, realizer.py, realization/validator.py).
THEOREM EvidenceOnlyCorrect == ReplySpec => []EvidenceOnly
<1>1. ReplyIInv => EvidenceOnly
  BY DEF ReplyIInv
<1> QED
  BY <1>1, ReplyIInvCorrect, PTL

\* Nothing is executed without permission, and no limit of the budget is passed
\* (orchestrator.py, renderer.py, realizer.py).
THEOREM NothingBeyondAuthorityCorrect == ReplySpec => []NothingBeyondAuthority
<1>1. ReplyIInv => NothingBeyondAuthority
  BY DEF ReplyIInv
<1> QED
  BY <1>1, ReplyIInvCorrect, PTL

\* The agent offers of itself only what the campaign can do
\* (escalation/policy.py).
THEOREM OfferIsBackedCorrect == ReplySpec => []OfferIsBacked
<1>1. ReplyIInv => OfferIsBacked
  BY DEF ReplyIInv
<1> QED
  BY <1>1, ReplyIInvCorrect, PTL

\* No question is put twice within a few turns, and no guidance fails its own
\* validator (sales_cognition/engine.py, sales_cognition/validator.py).
THEOREM NoQuestionTwiceCorrect == ReplySpec => []NoQuestionTwice
<1>1. ReplyIInv => NoQuestionTwice
  BY DEF ReplyIInv
<1> QED
  BY <1>1, ReplyIInvCorrect, PTL

\* No turn takes the conversation back to an earlier stage
\* (strategy/engine.py).
THEOREM StageNeverBackCorrect == ReplySpec => StageNeverBack
<1>1. ReplyIInv /\ [ReplyNext]_replyVars =>
        [StageRank[call'.stage] >= StageRank[call.stage]]_replyVars
  BY ReplyStep
<1> QED
  BY <1>1, ReplyIInvCorrect, PTL DEF ReplySpec, StageNeverBack
=============================================================================
