------------------------ MODULE LedgerServiceProofs -------------------------
(***************************************************************************)
(* Proofs about LedgerService, for any number of replicas, trades, tries,  *)
(* sends, panics, lost answers and crashes: the answers, the table and the *)
(* topic agree (IInv), no event is lost without a trace (Traced), and the  *)
(* memories are accounts of the trades they have taken (Ledgers).          *)
(***************************************************************************)
EXTENDS LedgerService, PositionsProofs, TLAPS

\* The parts of TypeOK that say what belongs to a process, and the others.
ProcessTypes ==
  /\ up \subseteq Replicas /\ trade_repo \subseteq up /\ event_producer \subseteq up
  /\ server  \in [Requests -> up \union {NoReplica}]
  /\ attempt \in [Requests -> 0 .. MAX_RETRIES]
  /\ outcome \in [Requests -> Outcomes]
  /\ \A id \in Requests :
       attempt[id] > 0 => server[id] \in event_producer /\ outcome[id] \in Answered
  /\ \A id \in Requests : outcome[id] = "saving" => server[id] \in trade_repo

\* The memories, and what is outside of the processes.
MemoryTypes ==
  /\ DOMAIN portfolio = Replicas /\ poisoned \subseteq up
  /\ \A r \in Replicas \ up : portfolio[r] = NewPortfolio

OutsideTypes ==
  /\ orphaned \subseteq Requests /\ trades \subseteq Requests
  /\ copies \in [Requests -> Nat] /\ given_up \subseteq Requests
  /\ disconnected \subseteq Requests
  /\ crashes \in 0 .. MaxCrashes

\* TypeOK in three parts, one for each kind of variable.
LEMMA TypeParts == TypeOK <=> ProcessTypes /\ MemoryTypes /\ OutsideTypes
BY DEF TypeOK, ProcessTypes, MemoryTypes, OutsideTypes

\* The inductive invariant of answers, table and topic.
IInv == TypeOK /\ TableAgreesWithAnswers /\ OnlyKeptTradesPublished /\ CopiesBounded

\* Nothing is sent, saved or published at first.
LEMMA InitIInv == Init => IInv
<1> SUFFICES ASSUME Init PROVE IInv
  OBVIOUS
<1>1. ProcessTypes
  BY BoundsAssumption DEF Init, ProcessTypes, Outcomes
<1>2. MemoryTypes /\ OutsideTypes
  BY BoundsAssumption DEF Init, MemoryTypes, OutsideTypes
<1>3. TableAgreesWithAnswers /\ OnlyKeptTradesPublished /\ CopiesBounded
  <2>1. \A id \in Requests : MaxPerSend * 0 <= MaxPerSend * MAX_RETRIES
    BY BoundsAssumption DEF MaxPerSend
  <2>2. \A id \in Requests : copies[id] = 0 /\ SendsLeft(id) = 0
    BY DEF Init, SendsLeft
  <2>3. 0 + MaxPerSend * 0 = MaxPerSend * 0
    BY BoundsAssumption DEF MaxPerSend
  <2>4. CopiesBounded
    BY <2>1, <2>2, <2>3 DEF CopiesBounded
  <2> QED
    BY <2>4 DEF Init, TableAgreesWithAnswers, OnlyKeptTradesPublished
<1> QED
  BY <1>1, <1>2, <1>3, TypeParts DEF IInv

\* What belongs to a process goes with it: Crash takes replica, requests and publish
\* tasks together.
LEMMA ProcessTypesStep == TypeOK /\ [Next]_vars => ProcessTypes'
<1> SUFFICES ASSUME TypeOK, [Next]_vars PROVE ProcessTypes'
  OBVIOUS
<1>t. ProcessTypes
  BY TypeParts
<1> USE BoundsAssumption, NoReplicaAssumption DEF ProcessTypes, Outcomes, Answered
<1>1. ASSUME NEW r \in Replicas, Start(r) PROVE ProcessTypes'
  BY <1>1, <1>t DEF Start, requestVars
<1>2. ASSUME NEW r \in Replicas, Crash(r) PROVE ProcessTypes'
  <2>1. server' \in [Requests -> up' \union {NoReplica}]
    BY <1>2, <1>t DEF Crash
  <2>2. attempt' \in [Requests -> 0 .. MAX_RETRIES] /\ outcome' \in [Requests -> Outcomes]
    BY <1>2, <1>t DEF Crash
  <2>3. \A id \in Requests :
          IF server[id] = r
          THEN attempt'[id] = 0 /\ outcome'[id] # "saving"
          ELSE attempt'[id] = attempt[id] /\ outcome'[id] = outcome[id] /\ server'[id] = server[id]
    BY <1>2, <1>t DEF Crash, Saving
  <2>4. up' = up \ {r} /\ trade_repo' = trade_repo \ {r} /\ event_producer' = event_producer \ {r}
    BY <1>2 DEF Crash
  <2>5. \A id \in Requests :
          attempt'[id] > 0 => server'[id] \in event_producer' /\ outcome'[id] \in Answered
    BY <1>t, <2>3, <2>4
  <2>6. \A id \in Requests : outcome'[id] = "saving" => server'[id] \in trade_repo'
    BY <1>t, <2>3, <2>4
  <2>7. up' \subseteq Replicas /\ trade_repo' \subseteq up' /\ event_producer' \subseteq up'
    BY <1>t, <2>4
  <2> QED
    BY <2>1, <2>2, <2>5, <2>6, <2>7
<1>3. ASSUME NEW r \in Replicas, NEW id \in Requests, Reject(r, id) PROVE ProcessTypes'
  BY <1>3, <1>t DEF Reject, Sends, replicaVars
<1>p. ASSUME NEW r \in Replicas, NEW id \in Requests, Panic(r, id) \/ Overflow(r, id)
      PROVE  ProcessTypes'
  BY <1>p, <1>t DEF Panic, Overflow, Sends, replicaVars
<1>4. ASSUME NEW r \in Replicas, NEW id \in Requests, Apply(r, id) PROVE ProcessTypes'
  <2>1. CASE r \in trade_repo
    <3>1. attempt[id] = 0
      BY <1>4, <1>t DEF Apply, Sends
    <3> QED
      BY <1>4, <1>t, <2>1, <3>1 DEF Apply
  <2>2. CASE r \notin trade_repo
    BY <1>4, <1>t, <2>2 DEF Apply, Respond
  <2> QED
    BY <2>1, <2>2
<1>5. ASSUME NEW id \in Requests, SaveTrade(id) PROVE ProcessTypes'
  BY <1>5, <1>t DEF SaveTrade, Respond, replicaVars
<1>6. ASSUME NEW id \in Requests, SaveFails(id) PROVE ProcessTypes'
  BY <1>6, <1>t DEF SaveFails, replicaVars
<1>7. ASSUME NEW id \in Requests, Abandon(id) PROVE ProcessTypes'
  BY <1>7, <1>t DEF Abandon, replicaVars
<1>8. ASSUME NEW id \in Requests, SendAcked(id) PROVE ProcessTypes'
  BY <1>8, <1>t DEF SendAcked, Send, replicaVars
<1>9. ASSUME NEW id \in Requests, SendFails(id) PROVE ProcessTypes'
  BY <1>9, <1>t DEF SendFails, Send, replicaVars
<1>10. CASE UNCHANGED <<replicaVars, requestVars>>
  BY <1>10, <1>t DEF replicaVars, requestVars
<1> QED
  BY <1>1, <1>2, <1>3, <1>p, <1>4, <1>5, <1>6, <1>7, <1>8, <1>9, <1>10
     DEF Next, vars, Save, Publish, LateInsert, Disconnect

\* The memory of a process that is down is empty, and the sets outside keep their types.
LEMMA OtherTypesStep == TypeOK /\ [Next]_vars => MemoryTypes' /\ OutsideTypes'
<1> SUFFICES ASSUME TypeOK, [Next]_vars PROVE MemoryTypes' /\ OutsideTypes'
  OBVIOUS
<1>t. MemoryTypes /\ OutsideTypes
  BY TypeParts
<1> USE DEF Next, vars, replicaVars, requestVars, tableVars, topicVars, Start, Crash, Reject,
            Panic, Overflow, Apply, Save, SaveTrade, SaveFails, Abandon, LateInsert, Disconnect,
            Publish, SendAcked, SendFails, Send
<1>1. MemoryTypes'
  BY <1>t DEF MemoryTypes
<1>2. orphaned' \subseteq Requests /\ trades' \subseteq Requests
  BY <1>t DEF OutsideTypes, Saving
<1>3. copies' \in [Requests -> Nat]
  BY <1>t DEF OutsideTypes
<1>4. crashes' \in 0 .. MaxCrashes
  BY <1>t, BoundsAssumption DEF OutsideTypes
<1>5. given_up' \subseteq Requests /\ disconnected' \subseteq Requests
  BY <1>t DEF OutsideTypes
<1> QED
  BY <1>1, <1>2, <1>3, <1>4, <1>5 DEF OutsideTypes

\* Every reachable state is well typed; in particular no handler and no publish
\* task outlives its process (main.rs, create_trade.rs execute).
THEOREM TypeCorrect == Spec => []TypeOK
<1>1. Init => TypeOK
  BY InitIInv DEF IInv
<1>2. TypeOK /\ [Next]_vars => TypeOK'
  <2> SUFFICES ASSUME TypeOK, [Next]_vars PROVE TypeOK'
    OBVIOUS
  <2>1. (ProcessTypes /\ MemoryTypes /\ OutsideTypes)'
    BY ProcessTypesStep, OtherTypesStep
  <2> QED
    BY <2>1 DEF TypeOK, ProcessTypes, MemoryTypes, OutsideTypes
<1> QED
  BY <1>1, <1>2, PTL DEF Spec

-----------------------------------------------------------------------------
(* One request across a step. *)

\* What the first two of the invariants say of one request, and what the third does.
Consistent(id) ==
  /\ outcome[id] = "stored" => id \in trades
  /\ id \in trades \union orphaned => outcome[id] \in {"stored", "failed"}
  /\ copies[id] > 0 \/ attempt[id] > 0 =>
       \/ outcome[id] = "stored" /\ id \in trades
       \/ outcome[id] = "accepted" /\ id \notin trades

\* The records of one event, those still to come included.
Bounded(id) == copies[id] + MaxPerSend * SendsLeft(id) <= MaxPerSend * MAX_RETRIES

\* A step leaves a request alone, or is one of its own.
Same(id) == /\ outcome'[id] = outcome[id] /\ attempt'[id] = attempt[id]
            /\ copies'[id] = copies[id]
            /\ (id \in trades' <=> id \in trades) /\ (id \in orphaned' <=> id \in orphaned)

\* A step keeps the answer, the row and the event of each request in agreement.
LEMMA ConsistentStep ==
  ASSUME TypeOK, [Next]_vars, \A id \in Requests : Consistent(id)
  PROVE  \A id \in Requests : Consistent(id)'
<1> SUFFICES ASSUME NEW id \in Requests PROVE Consistent(id)'
  OBVIOUS
<1>t. /\ outcome \in [Requests -> Outcomes] /\ attempt \in [Requests -> 0 .. MAX_RETRIES]
      /\ copies \in [Requests -> Nat]
      /\ attempt[id] \in 0 .. MAX_RETRIES /\ copies[id] \in Nat
  BY DEF TypeOK
<1>c. Consistent(id)
  OBVIOUS
<1>s. ASSUME Same(id) PROVE Consistent(id)'
  BY <1>c, <1>s DEF Same, Consistent
<1> USE BoundsAssumption
<1>1. ASSUME NEW r \in Replicas, Crash(r) PROVE Consistent(id)'
  <2>1. CASE id \in Saving(r)
    BY <1>1, <1>c, <1>t, <2>1 DEF Crash, Saving, Consistent, topicVars
  <2>2. CASE id \notin Saving(r) /\ server[id] = r
    BY <1>1, <1>c, <1>t, <2>2 DEF Crash, Consistent, topicVars
  <2>3. CASE id \notin Saving(r) /\ server[id] # r
    BY <1>1, <1>s, <1>t, <2>3 DEF Crash, Same, topicVars
  <2> QED
    BY <2>1, <2>2, <2>3
<1>2. ASSUME NEW i \in Requests, i # id,
             \/ \E r \in Replicas : Reject(r, i) \/ Panic(r, i) \/ Overflow(r, i) \/ Apply(r, i)
             \/ Save(i) \/ LateInsert(i) \/ Publish(i)
      PROVE  Consistent(id)'
  <2>1. Same(id)
    BY <1>2, <1>t DEF Same, Reject, Panic, Overflow, Apply, Respond, Save, SaveTrade, SaveFails,
                      Abandon, LateInsert, Publish, SendAcked, SendFails, Send, requestVars,
                      tableVars, topicVars
  <2> QED
    BY <1>s, <2>1
<1>3. ASSUME NEW r \in Replicas, Reject(r, id) PROVE Consistent(id)'
  BY <1>3, <1>c, <1>t DEF Reject, Sends, Consistent, tableVars, topicVars
<1>p. ASSUME NEW r \in Replicas, Panic(r, id) \/ Overflow(r, id) PROVE Consistent(id)'
  BY <1>p, <1>c, <1>t DEF Panic, Overflow, Sends, Consistent, tableVars, topicVars
<1>4. ASSUME NEW r \in Replicas, Apply(r, id) PROVE Consistent(id)'
  <2>1. outcome[id] = "unsent" /\ copies[id] = 0 /\ attempt[id] = 0
        /\ id \notin trades \union orphaned
    BY <1>4, <1>c, <1>t DEF Apply, Sends, Consistent
  <2>2. UNCHANGED <<orphaned, trades, copies>>
    BY <1>4 DEF Apply, tableVars, topicVars
  <2>3. CASE r \in trade_repo
    BY <1>4, <1>t, <2>1, <2>2, <2>3 DEF Apply, Consistent
  <2>4. CASE r \notin trade_repo
    <3>1. outcome'[id] = "accepted" /\ attempt'[id] \in 0 .. 1
      BY <1>4, <1>t, <2>4 DEF Apply, Respond
    <3> QED
      BY <2>1, <2>2, <3>1 DEF Consistent
  <2> QED
    BY <2>3, <2>4
<1>5. CASE SaveTrade(id)
  <2>1. copies[id] = 0 /\ attempt[id] = 0 /\ id \notin orphaned
    BY <1>5, <1>c, <1>t DEF SaveTrade, Consistent
  <2>2. outcome'[id] = "stored" /\ attempt'[id] \in 0 .. 1 /\ id \in trades'
        /\ UNCHANGED <<orphaned, copies>>
    BY <1>5, <1>t DEF SaveTrade, Respond, topicVars
  <2> QED
    BY <2>1, <2>2 DEF Consistent
<1>6. CASE SaveFails(id)
  BY <1>6, <1>c, <1>t DEF SaveFails, Consistent, tableVars, topicVars
<1>7. CASE Abandon(id)
  BY <1>7, <1>c, <1>t DEF Abandon, Consistent, topicVars
<1>8. CASE LateInsert(id)
  BY <1>8, <1>c, <1>t DEF LateInsert, requestVars, topicVars, Consistent
<1>9. CASE SendAcked(id)
  BY <1>9, <1>c, <1>t DEF SendAcked, Send, tableVars, Consistent
<1>10. CASE SendFails(id)
  <2>1. PICK delivered \in 0 .. MaxPerSend : copies' = [copies EXCEPT ![id] = @ + delivered]
    BY <1>10 DEF SendFails, Send
  <2> QED
    BY <1>10, <1>c, <1>t, <2>1 DEF SendFails, Send, tableVars, Consistent
<1>11. CASE \/ \E r \in Replicas : Start(r)
            \/ \E i \in Requests : Disconnect(i)
            \/ UNCHANGED vars
  BY <1>11, <1>s DEF Start, Disconnect, Same, vars, requestVars, tableVars, topicVars
<1> QED
  BY <1>1, <1>2, <1>3, <1>p, <1>4, <1>5, <1>6, <1>7, <1>8, <1>9, <1>10, <1>11
     DEF Next, Save, Publish

\* A send that is made uses up its share of the bound.
LEMMA Share ==
  ASSUME NEW left \in Nat
  PROVE  /\ MaxPerSend \in Nat /\ MaxPerSend * left \in Nat /\ MaxPerSend * 0 = 0
         /\ MaxPerSend * (left - 1) = MaxPerSend * left - MaxPerSend
BY BoundsAssumption DEF MaxPerSend

\* A send uses up its share of the records that are left to the event.
LEMMA BoundedStep ==
  ASSUME TypeOK, [Next]_vars, NEW id \in Requests, Consistent(id), Bounded(id)
  PROVE  Bounded(id)'
<1>t. /\ attempt \in [Requests -> 0 .. MAX_RETRIES] /\ copies \in [Requests -> Nat]
      /\ outcome \in [Requests -> Outcomes]
      /\ attempt[id] \in 0 .. MAX_RETRIES /\ copies[id] \in Nat /\ MAX_RETRIES \in Nat \ {0}
      /\ SendsLeft(id) \in 0 .. MAX_RETRIES
  BY BoundsAssumption DEF TypeOK, SendsLeft
<1>k. /\ MaxPerSend \in Nat /\ MaxPerSend * SendsLeft(id) \in Nat /\ MaxPerSend * 0 = 0
      /\ MaxPerSend * (SendsLeft(id) - 1) = MaxPerSend * SendsLeft(id) - MaxPerSend
      /\ MaxPerSend * MAX_RETRIES \in Nat
  BY <1>t, Share
\* Nothing is sent: the task goes on, is gone, or is new and the event unpublished.
<1>1. ASSUME copies'[id] = copies[id],
             \/ SendsLeft(id)' = SendsLeft(id) \/ SendsLeft(id)' = 0
             \/ copies[id] = 0 /\ SendsLeft(id)' = MAX_RETRIES
      PROVE  Bounded(id)'
  <2>1. MaxPerSend' = MaxPerSend /\ Bounded(id)
    BY DEF MaxPerSend
  <2>2. CASE SendsLeft(id)' = SendsLeft(id)
    BY <1>1, <2>1, <2>2 DEF Bounded
  <2>3. CASE SendsLeft(id)' = 0
    BY <1>1, <1>t, <1>k, <2>1, <2>3 DEF Bounded
  <2>4. CASE copies[id] = 0 /\ SendsLeft(id)' = MAX_RETRIES
    BY <1>1, <1>t, <1>k, <2>1, <2>4 DEF Bounded
  <2> QED
    BY <1>1, <2>2, <2>3, <2>4
\* One send fewer is left, and it has delivered no more than its share.
<1>2. ASSUME NEW delivered \in 0 .. MaxPerSend, copies'[id] = copies[id] + delivered,
             SendsLeft(id) > 0, SendsLeft(id)' \in {SendsLeft(id) - 1, 0}
      PROVE  Bounded(id)'
  <2>1. MaxPerSend * (SendsLeft(id) - 1) \in Nat
    BY <1>2, <1>t, Share
  <2>2. CASE SendsLeft(id)' = SendsLeft(id) - 1
    BY <1>2, <1>t, <1>k, <2>1, <2>2 DEF Bounded
  <2>3. CASE SendsLeft(id)' = 0
    BY <1>2, <1>t, <1>k, <2>1, <2>3 DEF Bounded
  <2> QED
    BY <1>2, <2>2, <2>3
<1>3. ASSUME NEW r \in Replicas, Crash(r) PROVE Bounded(id)'
  <2>1. copies'[id] = copies[id] /\ attempt'[id] \in {attempt[id], 0}
    BY <1>3, <1>t DEF Crash, topicVars
  <2>2. SendsLeft(id)' = SendsLeft(id) \/ SendsLeft(id)' = 0
    BY <2>1 DEF SendsLeft
  <2> QED
    BY <1>1, <2>1, <2>2
<1>4. ASSUME copies'[id] = copies[id], attempt'[id] = attempt[id] PROVE Bounded(id)'
  <2>1. SendsLeft(id)' = SendsLeft(id)
    BY <1>4 DEF SendsLeft
  <2> QED
    BY <1>1, <1>4, <2>1
<1>5. ASSUME outcome[id] \in {"unsent", "saving"}, copies'[id] = copies[id],
             attempt'[id] \in 0 .. 1
      PROVE  Bounded(id)'
  <2>1. copies[id] = 0
    BY <1>5, <1>t DEF Consistent
  <2>2. SendsLeft(id)' = 0 \/ SendsLeft(id)' = MAX_RETRIES
    BY <1>5, <1>t DEF SendsLeft
  <2> QED
    BY <1>1, <1>5, <2>1, <2>2
<1>6. ASSUME NEW r \in Replicas, NEW i \in Requests, Apply(r, i) PROVE Bounded(id)'
  <2>1. copies'[id] = copies[id]
    BY <1>6 DEF Apply, topicVars
  <2>2. CASE attempt'[id] = attempt[id]
    BY <1>4, <2>1, <2>2
  <2>3. CASE attempt'[id] # attempt[id]
    <3>1. i = id /\ attempt'[id] \in 0 .. 1
      BY <1>6, <1>t, <2>3 DEF Apply, Respond
    <3>2. outcome[id] = "unsent"
      BY <1>6, <3>1 DEF Apply, Sends
    <3> QED
      BY <1>5, <2>1, <3>1, <3>2
  <2> QED
    BY <2>2, <2>3
<1>7. ASSUME NEW i \in Requests, SaveTrade(i) PROVE Bounded(id)'
  <2>1. copies'[id] = copies[id]
    BY <1>7 DEF SaveTrade, topicVars
  <2>2. CASE attempt'[id] = attempt[id]
    BY <1>4, <2>1, <2>2
  <2>3. CASE attempt'[id] # attempt[id]
    <3>1. i = id /\ attempt'[id] \in 0 .. 1
      BY <1>7, <1>t, <2>3 DEF SaveTrade, Respond
    <3>2. outcome[id] = "saving"
      BY <1>7, <3>1 DEF SaveTrade
    <3> QED
      BY <1>5, <2>1, <3>1, <3>2
  <2> QED
    BY <2>2, <2>3
<1>8. ASSUME NEW i \in Requests, SendAcked(i) \/ SendFails(i) PROVE Bounded(id)'
  <2>1. CASE i = id
    <3>1. PICK delivered \in 0 .. MaxPerSend : copies' = [copies EXCEPT ![i] = @ + delivered]
      BY <1>8, <1>k DEF SendAcked, SendFails, Send
    <3>2. copies'[id] = copies[id] + delivered
      BY <1>t, <2>1, <3>1
    <3>3. /\ attempt[id] > 0
          /\ attempt'[id] \in {attempt[id] + 1, 0}
          /\ attempt'[id] = attempt[id] + 1 => attempt[id] # MAX_RETRIES
      BY <1>8, <1>t, <2>1 DEF SendAcked, SendFails, Send
    <3>4. SendsLeft(id) > 0 /\ SendsLeft(id)' \in {SendsLeft(id) - 1, 0}
      BY <1>t, <3>3 DEF SendsLeft
    <3> QED
      BY <1>2, <3>2, <3>4
  <2>2. CASE i # id
    BY <1>4, <1>8, <1>t, <2>2 DEF SendAcked, SendFails, Send
  <2> QED
    BY <2>1, <2>2
<1>9. CASE UNCHANGED <<attempt, copies>>
  BY <1>4, <1>9
<1> QED
  BY <1>3, <1>6, <1>7, <1>8, <1>9
     DEF Next, Save, Publish, Start, Reject, Panic, Overflow, SaveFails, Abandon, LateInsert,
         Disconnect, requestVars, topicVars, vars

\* The three invariants are what Consistent and Bounded say of every request.
LEMMA ConsistentParts ==
  (\A id \in Requests : Consistent(id) /\ Bounded(id))
    <=> TableAgreesWithAnswers /\ OnlyKeptTradesPublished /\ CopiesBounded
BY DEF Consistent, Bounded, TableAgreesWithAnswers, OnlyKeptTradesPublished, CopiesBounded

\* The answers, the table, the topic and the publish tasks agree, whatever is lost,
\* dropped or crashes (create_trade.rs execute, repository.rs save_trade,
\* producer.rs publish_trade_created).
THEOREM AnswersAgree ==
  Spec => [](TableAgreesWithAnswers /\ OnlyKeptTradesPublished /\ CopiesBounded)
<1> DEFINE Inv == \A id \in Requests : Consistent(id) /\ Bounded(id)
<1>1. Init => Inv
  BY InitIInv, ConsistentParts DEF IInv
<1>2. TypeOK /\ Inv /\ [Next]_vars => Inv'
  <2> SUFFICES ASSUME TypeOK, Inv, [Next]_vars PROVE Inv'
    OBVIOUS
  <2>1. \A id \in Requests : Consistent(id)'
    BY ConsistentStep
  <2>2. \A id \in Requests : Bounded(id)'
    BY BoundedStep
  <2> QED
    BY <2>1, <2>2
<1> HIDE DEF Inv
<1>3. Spec => []Inv
  BY <1>1, <1>2, TypeCorrect, PTL DEF Spec
<1>4. Inv => TableAgreesWithAnswers /\ OnlyKeptTradesPublished /\ CopiesBounded
  BY ConsistentParts DEF Inv
<1> QED
  BY <1>3, <1>4, PTL

\* The table agrees with the answers (save_trade, GET /trades).
THEOREM TableAgrees == Spec => []TableAgreesWithAnswers
BY AnswersAgree, PTL

\* Only trades that the server answers with 201 are published, whether or not the
\* client learns of it (create_trade.rs execute, publish_trade_created).
THEOREM OnlyKept == Spec => []OnlyKeptTradesPublished
BY AnswersAgree, PTL

-----------------------------------------------------------------------------
(* What becomes of an event. *)

\* The event of a request that a running replica with a producer has answered.
Traced(id) ==
  outcome[id] \in Answered /\ server[id] \in event_producer =>
    copies[id] > 0 \/ attempt[id] > 0 \/ id \in given_up

\* A request that a step does not touch keeps its trace.
TraceKept(id) ==
  /\ outcome'[id] = outcome[id] /\ attempt'[id] = attempt[id] /\ copies'[id] = copies[id]
  /\ id \in given_up => id \in given_up'
  /\ server'[id] \in event_producer' => server'[id] = server[id] /\ server[id] \in event_producer

\* A step that answers a request starts its publish task, and the task leaves a
\* record or a log entry behind.
LEMMA TracedStep ==
  ASSUME TypeOK, [Next]_vars, NEW id \in Requests, Traced(id)
  PROVE  Traced(id)'
<1>t. /\ outcome \in [Requests -> Outcomes] /\ attempt \in [Requests -> 0 .. MAX_RETRIES]
      /\ copies \in [Requests -> Nat] /\ server \in [Requests -> up \union {NoReplica}]
      /\ attempt[id] \in 0 .. MAX_RETRIES /\ copies[id] \in Nat
      /\ MAX_RETRIES \in Nat \ {0} /\ SEND_RETRIES \in Nat
      /\ event_producer \subseteq up /\ up \subseteq Replicas
  BY BoundsAssumption DEF TypeOK
<1>k. ASSUME TraceKept(id) PROVE Traced(id)'
  BY <1>k DEF TraceKept, Traced
\* The replicas do not change, nor does the server of any request that has one.
<1>u. ASSUME UNCHANGED <<event_producer, server, copies, given_up>>,
             outcome'[id] = outcome[id], attempt'[id] = attempt[id]
      PROVE  Traced(id)'
  BY <1>k, <1>u DEF TraceKept
<1>n. ASSUME outcome'[id] \notin Answered PROVE Traced(id)'
  BY <1>n DEF Traced
<1>1. ASSUME NEW r \in Replicas, Start(r) PROVE Traced(id)'
  BY <1>k, <1>1, <1>t, NoReplicaAssumption DEF Start, TraceKept, requestVars, topicVars
<1>2. ASSUME NEW r \in Replicas, Crash(r) PROVE Traced(id)'
  <2>1. CASE server[id] = r
    <3>1. server'[id] = NoReplica /\ event_producer' \subseteq Replicas
      BY <1>2, <1>t, <2>1 DEF Crash
    <3> QED
      BY <3>1, NoReplicaAssumption DEF Traced
  <2>2. CASE server[id] # r
    BY <1>k, <1>2, <1>t, <2>2 DEF Crash, Saving, TraceKept, topicVars
  <2> QED
    BY <2>1, <2>2
<1>3. ASSUME NEW r \in Replicas, NEW i \in Requests,
             Reject(r, i) \/ Panic(r, i) \/ Overflow(r, i)
      PROVE  Traced(id)'
  <2>1. CASE i = id
    BY <1>n, <1>3, <1>t, <2>1 DEF Reject, Panic, Overflow, Answered
  <2>2. CASE i # id
    BY <1>u, <1>3, <1>t, <2>2 DEF Reject, Panic, Overflow, replicaVars, topicVars
  <2> QED
    BY <2>1, <2>2
<1>4. ASSUME NEW r \in Replicas, NEW i \in Requests, Apply(r, i) PROVE Traced(id)'
  <2>1. UNCHANGED <<event_producer, topicVars>>
    BY <1>4 DEF Apply
  <2>2. CASE i # id
    BY <1>k, <1>4, <1>t, <2>1, <2>2 DEF Apply, Respond, TraceKept, topicVars
  <2>3. CASE i = id /\ r \in trade_repo
    BY <1>n, <1>4, <1>t, <2>3 DEF Apply, Answered
  <2>4. CASE i = id /\ r \notin trade_repo
    <3>1. server'[id] = r /\ (r \in event_producer => attempt'[id] = 1)
      BY <1>4, <1>t, <2>4 DEF Apply, Respond
    <3> QED
      BY <2>1, <3>1 DEF Traced
  <2> QED
    BY <2>2, <2>3, <2>4
<1>5. ASSUME NEW i \in Requests, SaveTrade(i) PROVE Traced(id)'
  <2>1. UNCHANGED <<event_producer, server, topicVars>>
    BY <1>5 DEF SaveTrade, replicaVars
  <2>2. CASE i # id
    BY <1>u, <1>5, <1>t, <2>1, <2>2 DEF SaveTrade, Respond, topicVars
  <2>3. CASE i = id
    <3>1. server[id] \in event_producer => attempt'[id] = 1
      BY <1>5, <1>t, <2>3 DEF SaveTrade, Respond
    <3> QED
      BY <2>1, <3>1 DEF Traced
  <2> QED
    BY <2>2, <2>3
<1>6. ASSUME NEW i \in Requests, SaveFails(i) \/ Abandon(i) PROVE Traced(id)'
  <2>1. CASE i = id
    BY <1>n, <1>6, <1>t, <2>1 DEF SaveFails, Abandon, Answered
  <2>2. CASE i # id
    BY <1>u, <1>6, <1>t, <2>2 DEF SaveFails, Abandon, replicaVars, topicVars
  <2> QED
    BY <2>1, <2>2
<1>7. ASSUME NEW i \in Requests, SendAcked(i) PROVE Traced(id)'
  <2>1. PICK delivered \in 1 .. MaxPerSend : copies' = [copies EXCEPT ![i] = @ + delivered]
    BY <1>7 DEF SendAcked, Send
  <2>2. CASE i = id
    <3>1. copies'[id] > 0
      BY <1>t, <2>1, <2>2 DEF MaxPerSend
    <3> QED
      BY <3>1 DEF Traced
  <2>3. CASE i # id
    BY <1>k, <1>7, <1>t, <2>1, <2>3 DEF SendAcked, Send, TraceKept, replicaVars
  <2> QED
    BY <2>2, <2>3
<1>8. ASSUME NEW i \in Requests, SendFails(i) PROVE Traced(id)'
  <2>1. PICK delivered \in 0 .. MaxPerSend : copies' = [copies EXCEPT ![i] = @ + delivered]
    BY <1>8 DEF SendFails, Send
  <2>2. CASE i = id /\ attempt[id] = MAX_RETRIES
    BY <1>8, <2>2 DEF SendFails, Traced
  <2>3. CASE i = id /\ attempt[id] # MAX_RETRIES
    BY <1>8, <1>t, <2>3 DEF SendFails, Traced
  <2>4. CASE i # id
    BY <1>k, <1>8, <1>t, <2>1, <2>4 DEF SendFails, Send, TraceKept, replicaVars
  <2> QED
    BY <2>2, <2>3, <2>4
<1>9. CASE (\E i \in Requests : LateInsert(i) \/ Disconnect(i)) \/ UNCHANGED vars
  BY <1>u, <1>9 DEF LateInsert, Disconnect, vars, replicaVars, requestVars, topicVars
<1> QED
  BY <1>1, <1>2, <1>3, <1>4, <1>5, <1>6, <1>7, <1>8, <1>9 DEF Next, Save, Publish

\* An event is in the topic, on its way, or logged and counted as lost, as long as the
\* replica that answered runs (publish_trade_created).
THEOREM NoSilentLoss == Spec => []NoEventLostSilently
<1> DEFINE Inv == \A id \in Requests : Traced(id)
<1>1. Init => Inv
  BY DEF Init, Traced, Answered
<1>2. TypeOK /\ Inv /\ [Next]_vars => Inv'
  <2> SUFFICES ASSUME TypeOK, Inv, [Next]_vars PROVE \A id \in Requests : Traced(id)'
    OBVIOUS
  <2> QED
    BY TracedStep
<1> HIDE DEF Inv
<1>3. Spec => []Inv
  BY <1>1, <1>2, TypeCorrect, PTL DEF Spec
<1>4. Inv => NoEventLostSilently
  BY DEF Inv, Traced, NoEventLostSilently
<1> QED
  BY <1>3, <1>4, PTL

-----------------------------------------------------------------------------
(* Units and value of a set of requests. *)

\* What each request is about.
UnitsOf == [id \in Requests |-> BodyOf(id).quantity]
ValueOf == [id \in Requests |-> BodyOf(id).quantity * BodyOf(id).price]

\* The trades that clients want are finitely many, and so are their requests.
LEMMA FiniteRequests == IsFiniteSet(Requests) /\ IsFiniteSet(Symbols)
<1> DEFINE Of1(w) == {w} \X (1 .. MaxTries[w])
           Parts  == {Of1(w) : w \in Wishes}
<1>1. \A w \in Wishes : IsFiniteSet(Of1(w))
  <2> SUFFICES ASSUME NEW w \in Wishes PROVE IsFiniteSet(Of1(w))
    OBVIOUS
  <2>1. MaxTries[w] \in Int /\ 1 \in Int
    BY BoundsAssumption
  <2>2. IsFiniteSet(1 .. MaxTries[w])
    BY <2>1, FS_Interval
  <2>3. IsFiniteSet({w})
    BY FS_Singleton
  <2> QED
    BY <2>2, <2>3, FS_Product
<1>2. IsFiniteSet(Requests)
  <2> DEFINE g == [w \in Wishes |-> Of1(w)]
  <2>1. g \in Surjection(Wishes, Parts)
    BY DEF Surjection
  <2>2. IsFiniteSet(Parts)
    BY <2>1, FS_Surjection, WantedAssumption
  <2>3. \A S \in Parts : IsFiniteSet(S)
    BY <1>1
  <2>4. IsFiniteSet(UNION Parts)
    BY <2>2, <2>3, FS_UNION
  <2> QED
    BY <2>4 DEF Requests
<1> DEFINE f == [w \in Wishes |-> Wanted[w].asset]
<1>3. f \in Surjection(Wishes, Symbols)
  BY DEF Surjection, Symbols
<1>4. IsFiniteSet(Symbols)
  BY <1>3, FS_Surjection, WantedAssumption
<1> QED
  BY <1>2, <1>4

\* What the body of a request can hold.
LEMMA BodyTypes ==
  ASSUME NEW id \in Requests
  PROVE  /\ BodyOf(id).side \in {"buy", "sell"} /\ BodyOf(id).asset \in Symbols
         /\ BodyOf(id).quantity \in Int /\ BodyOf(id).price \in Int
         /\ UnitsOf[id] = BodyOf(id).quantity /\ UnitsOf[id] \in Int
         /\ ValueOf[id] = BodyOf(id).quantity * BodyOf(id).price /\ ValueOf[id] \in Int
         /\ ValidTrade(BodyOf(id)) => IsTrade(BodyOf(id))
<1>1. id[1] \in Wishes
  BY DEF Requests
<1>2. PICK q \in Int, price \in Int : q = BodyOf(id).quantity /\ price = BodyOf(id).price
  BY <1>1, WantedAssumption DEF BodyOf
<1>3. BodyOf(id).side \in {"buy", "sell"} /\ BodyOf(id).asset \in Symbols
  BY <1>1, WantedAssumption DEF BodyOf, Symbols
<1>4. q * price \in Int
  OBVIOUS
<1>5. ValidTrade(BodyOf(id)) => IsTrade(BodyOf(id))
  BY <1>2, <1>3 DEF ValidTrade, IsTrade
<1> QED
  BY <1>2, <1>3, <1>4, <1>5 DEF UnitsOf, ValueOf

\* The units of a set of requests, as a sum of weights.
LEMMA UnitsIsSum ==
  ASSUME NEW S \in SUBSET Requests
  PROVE  Units(S) = SumOver(UnitsOf, S)
<1> DEFINE w == UnitsOf
           TurnA(g) == [s \in SUBSET S |->
                          IF s = {} THEN 0
                          ELSE BodyOf(CHOOSE x \in s : TRUE).quantity
                                 + g[s \ {CHOOSE x \in s : TRUE}]]
           TurnB(g) == [s \in SUBSET S |->
                          IF s = {} THEN 0
                          ELSE w[CHOOSE x \in s : TRUE] + g[s \ {CHOOSE x \in s : TRUE}]]
<1>1. \A s \in SUBSET S : s # {} => (CHOOSE x \in s : TRUE) \in Requests
  OBVIOUS
<1>2. \A g : TurnA(g) = TurnB(g)
  BY <1>1 DEF UnitsOf
<1>3. Units(S) = (CHOOSE g : g = TurnA(g))[S]
  BY DEF Units, MapThenSumSet, MapThenFoldSet
<1>4. SumOver(w, S) = (CHOOSE g : g = TurnB(g))[S]
  BY DEF SumOver, MapThenSumSet, MapThenFoldSet
<1> HIDE DEF TurnA, TurnB
<1>5. (CHOOSE g : g = TurnA(g)) = (CHOOSE g : g = TurnB(g))
  BY <1>2
<1> QED
  BY <1>3, <1>4, <1>5

\* And their value.
LEMMA ValueIsSum ==
  ASSUME NEW S \in SUBSET Requests
  PROVE  Value(S) = SumOver(ValueOf, S)
<1> DEFINE w == ValueOf
           TurnA(g) == [s \in SUBSET S |->
                          IF s = {} THEN 0
                          ELSE BodyOf(CHOOSE x \in s : TRUE).quantity
                                 * BodyOf(CHOOSE x \in s : TRUE).price
                                 + g[s \ {CHOOSE x \in s : TRUE}]]
           TurnB(g) == [s \in SUBSET S |->
                          IF s = {} THEN 0
                          ELSE w[CHOOSE x \in s : TRUE] + g[s \ {CHOOSE x \in s : TRUE}]]
<1>1. \A s \in SUBSET S : s # {} => (CHOOSE x \in s : TRUE) \in Requests
  OBVIOUS
<1>2. \A g : TurnA(g) = TurnB(g)
  BY <1>1 DEF ValueOf
<1>3. Value(S) = (CHOOSE g : g = TurnA(g))[S]
  BY DEF Value, MapThenSumSet, MapThenFoldSet
<1>4. SumOver(w, S) = (CHOOSE g : g = TurnB(g))[S]
  BY DEF SumOver, MapThenSumSet, MapThenFoldSet
<1> HIDE DEF TurnA, TurnB
<1>5. (CHOOSE g : g = TurnA(g)) = (CHOOSE g : g = TurnB(g))
  BY <1>2
<1> QED
  BY <1>3, <1>4, <1>5

\* What a set of requests leaves of an asset, and of the money.
NetOf(a) == [id \in Requests |-> IF BodyOf(id).asset = a THEN Delta(BodyOf(id)) ELSE 0]
CashOf   == [id \in Requests |-> Cash(BodyOf(id))]
Net(ids, a) == SumOver(NetOf(a), ids)
Earned(ids) == SumOver(CashOf, ids)

\* The requests of a set that sell, and those that buy.
SellsOf(ids) == {id \in ids : BodyOf(id).side = "sell"}
BuysOf(ids)  == {id \in ids : BodyOf(id).side = "buy"}

\* The units that a set of requests leaves are what it buys less what it sells.
LEMMA NetIsDifference ==
  ASSUME NEW S \in SUBSET Requests, NEW a
  PROVE  /\ Net(S, a) = Units(Of(S, a, "buy")) - Units(Of(S, a, "sell"))
         /\ Units(Of(S, a, "buy")) \in Int /\ Units(Of(S, a, "sell")) \in Int
<1>1. IsFiniteSet(S)
  BY FiniteRequests, FS_Subset
<1>2. PICK bought \in SUBSET S, sold \in SUBSET S :
        bought = Of(S, a, "buy") /\ sold = Of(S, a, "sell")
  BY DEF Of
<1>3. \A id \in S : UnitsOf[id] \in Int
  BY BodyTypes
<1>4. \A id \in bought : NetOf(a)[id] = UnitsOf[id]
  BY <1>2, BodyTypes DEF Of, NetOf, Delta
<1>5. \A id \in sold : NetOf(a)[id] = -UnitsOf[id]
  BY <1>2, BodyTypes DEF Of, NetOf, Delta
<1>6. \A id \in S \ (bought \union sold) : NetOf(a)[id] = 0
  BY <1>2, BodyTypes DEF Of, NetOf
<1>7. bought \intersect sold = {}
  BY <1>2 DEF Of
<1>8. Signed(NetOf(a), UnitsOf, bought, sold, S)
  BY <1>3, <1>4, <1>5, <1>6, <1>7 DEF Signed
<1>9. /\ SumOver(NetOf(a), S) = SumOver(UnitsOf, bought) - SumOver(UnitsOf, sold)
      /\ SumOver(UnitsOf, bought) \in Int /\ SumOver(UnitsOf, sold) \in Int
  BY <1>1, <1>8, SumSigned
<1>10. bought \in SUBSET Requests /\ sold \in SUBSET Requests
  OBVIOUS
<1> QED
  BY <1>2, <1>9, <1>10, UnitsIsSum DEF Net

\* The money that it leaves is what it sells for less what it pays.
LEMMA EarnedIsDifference ==
  ASSUME NEW S \in SUBSET Requests
  PROVE  /\ Earned(S) = Value(SellsOf(S)) - Value(BuysOf(S))
         /\ Value(SellsOf(S)) \in Int /\ Value(BuysOf(S)) \in Int
<1>1. IsFiniteSet(S)
  BY FiniteRequests, FS_Subset
<1>2. PICK bought \in SUBSET S, sold \in SUBSET S : bought = BuysOf(S) /\ sold = SellsOf(S)
  BY DEF BuysOf, SellsOf
<1>3. \A id \in S : ValueOf[id] \in Int
  BY BodyTypes
<1>4. \A id \in bought : CashOf[id] = -ValueOf[id]
  BY <1>2, BodyTypes DEF BuysOf, CashOf, Cash
<1>5. \A id \in sold : CashOf[id] = ValueOf[id]
  BY <1>2, BodyTypes DEF SellsOf, CashOf, Cash
<1>6. S \ (sold \union bought) = {} /\ sold \intersect bought = {}
  BY <1>2, BodyTypes DEF BuysOf, SellsOf
<1>7. Signed(CashOf, ValueOf, sold, bought, S)
  BY <1>3, <1>4, <1>5, <1>6 DEF Signed
<1>8. /\ SumOver(CashOf, S) = SumOver(ValueOf, sold) - SumOver(ValueOf, bought)
      /\ SumOver(ValueOf, bought) \in Int /\ SumOver(ValueOf, sold) \in Int
  BY <1>1, <1>7, SumSigned
<1>9. bought \in SUBSET Requests /\ sold \in SUBSET Requests
  OBVIOUS
<1> QED
  BY <1>2, <1>8, <1>9, ValueIsSum DEF Earned

-----------------------------------------------------------------------------
(* What the replicas have applied: the trades that are now in a memory, and those *)
(* that were until a crash.                                                       *)

\* The trades that a memory has taken at some time, and those that are in one now.
Admitted        == {id \in Requests : outcome[id] \in Answered \union {"saving", "failed"}}
AppliedBy(r) == {id \in Requests : server[id] = r}

\* The trades that were taken, less those that are in the memory of some replicas.
AdmittedOutside(R) == {id \in Admitted : server[id] \notin R}

\* What is in a memory was taken, and what was taken is a valid trade.
ServedAreAdmitted ==
  \A id \in Requests : /\ server[id] # NoReplica => id \in Admitted
                       /\ id \in Admitted => ValidTrade(BodyOf(id))

\* The memory of a replica is the account of what it has applied.
Accounted(r) ==
  /\ SoundPortfolio(portfolio[r])
  /\ \A a \in Symbols : PositionOf(portfolio[r], a).total_quantity = Net(AppliedBy(r), a)
  /\ portfolio[r].total_realized_pnl - TotalCost(portfolio[r], Symbols) = Earned(AppliedBy(r))

\* No asset is short, whichever memories are lost.
NoShort == \A R \in SUBSET Replicas, a \in Symbols : Net(AdmittedOutside(R), a) >= 0

\* The inductive invariant of the memories.
Ledgers == ServedAreAdmitted /\ (\A r \in Replicas \ poisoned : Accounted(r)) /\ NoShort

\* Of what no trade has touched, nothing is held and nothing was earned.
LEMMA NothingApplied ==
  /\ \A a : Net({}, a) = 0
  /\ Earned({}) = 0
  /\ SoundPortfolio(NewPortfolio)
  /\ \A a : PositionOf(NewPortfolio, a).total_quantity = 0
  /\ NewPortfolio.total_realized_pnl - TotalCost(NewPortfolio, Symbols) = 0
<1>1. (\A a : Net({}, a) = 0) /\ Earned({}) = 0
  BY SumZero, FS_EmptySet DEF Net, Earned
<1>2. /\ DOMAIN NewPortfolio = {"positions", "total_realized_pnl"}
      /\ NewPortfolio.positions = << >> /\ NewPortfolio.total_realized_pnl = 0
      /\ DOMAIN NewPortfolio.positions = {}
  BY DEF NewPortfolio
<1>3. SoundPortfolio(NewPortfolio)
  BY <1>2, FS_EmptySet DEF SoundPortfolio
<1>4. \A a : PositionOf(NewPortfolio, a).total_quantity = 0
  BY <1>2 DEF PositionOf, NewPosition
<1>5. TotalCost(NewPortfolio, Symbols) = 0
  <2>1. \A a \in Symbols : CostWeights(NewPortfolio, Symbols)[a] = 0
    BY <1>2, Empty DEF CostWeights, PositionCost, PositionOf, NewPosition
  <2> QED
    BY <2>1, SumZero, FiniteRequests DEF TotalCost
<1> QED
  BY <1>1, <1>2, <1>3, <1>4, <1>5

\* No replica has taken anything.
LEMMA InitLedgers == Init => Ledgers
<1> SUFFICES ASSUME Init PROVE Ledgers
  OBVIOUS
<1>1. Admitted = {} /\ \A id \in Requests : server[id] = NoReplica
  BY DEF Init, Admitted, Answered
<1>2. \A R \in SUBSET Replicas : AdmittedOutside(R) = {}
  BY <1>1 DEF AdmittedOutside
<1>3. \A r \in Replicas : AppliedBy(r) = {} /\ portfolio[r] = NewPortfolio
  BY <1>1, NoReplicaAssumption DEF AppliedBy, Init
<1>4. \A r \in Replicas \ poisoned : Accounted(r)
  BY <1>3, NothingApplied DEF Accounted
<1>5. NoShort
  BY <1>2, NothingApplied DEF NoShort
<1> QED
  BY <1>1, <1>4, <1>5 DEF Ledgers, ServedAreAdmitted

\* What a step does to the memories: a replica takes a trade, or forgets all of
\* them, or panics and leaves a memory that nobody reads, or nothing.
Takes(r, id) ==
  /\ r \notin poisoned /\ poisoned' = poisoned
  /\ id \notin Admitted /\ Admitted' = Admitted \union {id}
  /\ ValidTrade(BodyOf(id)) /\ ~Refuses(portfolio[r], BodyOf(id))
  /\ portfolio' = [portfolio EXCEPT ![r] = ApplyTrade(portfolio[r], BodyOf(id))]
  /\ server' = [server EXCEPT ![id] = r]

Forgets(r) ==
  /\ r \notin up' /\ poisoned' = poisoned \ {r} /\ Admitted' = Admitted
  /\ portfolio' = [portfolio EXCEPT ![r] = NewPortfolio]
  /\ server' = [id \in Requests |-> IF server[id] = r THEN NoReplica ELSE server[id]]

Poisons(r) ==
  /\ poisoned' = poisoned \union {r} /\ Admitted' = Admitted /\ server' = server
  /\ \A s \in Replicas \ {r} : portfolio'[s] = portfolio[s]

Rests == UNCHANGED <<poisoned, Admitted, portfolio, server>>

\* Every action of LedgerService is one of these for the memories.
LEMMA MemorySteps ==
  ASSUME TypeOK, [Next]_vars
  PROVE  \/ \E r \in Replicas, id \in Requests : Takes(r, id)
         \/ \E r \in Replicas : Forgets(r) \/ Poisons(r)
         \/ Rests
<1>t. outcome \in [Requests -> Outcomes]
  BY DEF TypeOK
<1>1. ASSUME NEW r \in Replicas, Start(r) PROVE Rests
  BY <1>1 DEF Start, requestVars, Admitted, Rests
<1>2. ASSUME NEW r \in Replicas, Crash(r) PROVE Forgets(r)
  <2>1. \A id \in Requests :
          outcome'[id] = IF id \in Saving(r) THEN "failed" ELSE outcome[id]
    BY <1>2 DEF Crash
  <2>2. Admitted' = Admitted
    BY <2>1 DEF Admitted, Saving
  <2> QED
    BY <1>2, <2>2 DEF Crash, Forgets
<1>3. ASSUME NEW r \in Replicas, NEW id \in Requests,
             Reject(r, id) \/ Panic(r, id)
      PROVE  Rests
  BY <1>3, <1>t DEF Reject, Panic, Sends, replicaVars, Admitted, Answered, Rests
<1>p. ASSUME NEW r \in Replicas, NEW id \in Requests, Overflow(r, id) PROVE Poisons(r)
  <2>1. Admitted' = Admitted
    BY <1>p, <1>t DEF Overflow, Sends, Admitted, Answered
  <2>2. DOMAIN portfolio = Replicas
    BY DEF TypeOK
  <2> QED
    BY <1>p, <2>1, <2>2 DEF Overflow, Poisons
<1>4. ASSUME NEW r \in Replicas, NEW id \in Requests, Apply(r, id) PROVE Takes(r, id)
  <2>1. outcome[id] = "unsent"
        /\ \E answer \in {"saving", "accepted"} : outcome' = [outcome EXCEPT ![id] = answer]
    BY <1>4 DEF Apply, Sends, Respond
  <2>2. id \notin Admitted /\ Admitted' = Admitted \union {id}
    BY <1>t, <2>1 DEF Admitted, Answered
  <2> QED
    BY <1>4, <2>2 DEF Apply, Locks, Takes
<1>5. ASSUME NEW id \in Requests, Save(id) PROVE Rests
  <2>1. /\ outcome[id] = "saving" /\ UNCHANGED <<poisoned, portfolio, server>>
        /\ \E answer \in {"stored", "failed"} : outcome' = [outcome EXCEPT ![id] = answer]
    BY <1>5 DEF Save, SaveTrade, SaveFails, Abandon, Respond, replicaVars
  <2> QED
    BY <1>t, <2>1 DEF Admitted, Answered, Rests
<1>6. ASSUME NEW id \in Requests, LateInsert(id) \/ Disconnect(id) \/ Publish(id)
      PROVE  Rests
  BY <1>6 DEF LateInsert, Disconnect, Publish, SendAcked, SendFails, Send, replicaVars,
              requestVars, Admitted, Rests
<1>7. CASE UNCHANGED vars
  BY <1>7 DEF vars, replicaVars, requestVars, Admitted, Rests
<1> QED
  BY <1>1, <1>2, <1>3, <1>p, <1>4, <1>5, <1>6, <1>7 DEF Next

\* One more request in a sum.
LEMMA OneMoreRequest ==
  ASSUME NEW S \in SUBSET Requests, NEW id \in Requests, id \notin S
  PROVE  /\ \A a : /\ Net(S \union {id}, a) = Net(S, a) + NetOf(a)[id]
                   /\ Net(S, a) \in Int /\ NetOf(a)[id] \in Int
         /\ Earned(S \union {id}) = Earned(S) + CashOf[id]
         /\ Earned(S) \in Int
<1>1. IsFiniteSet(S)
  BY FiniteRequests, FS_Subset
<1>2. ASSUME NEW i \in Requests
      PROVE  CashOf[i] \in Int /\ \A a : NetOf(a)[i] \in Int
  <2>1. PICK t : t = BodyOf(i)
    OBVIOUS
  <2>2. PICK q \in Int, value \in Int : q = t.quantity /\ value = t.quantity * t.price
    BY <2>1, BodyTypes
  <2>3. Delta(t) \in Int /\ Cash(t) \in Int
    BY <2>2 DEF Delta, Cash
  <2> QED
    BY <2>1, <2>3 DEF CashOf, NetOf
<1>3. ASSUME NEW a
      PROVE  Net(S \union {id}, a) = Net(S, a) + NetOf(a)[id] /\ Net(S, a) \in Int
  BY <1>1, <1>2, SumAddOne DEF Net
<1>4. Earned(S \union {id}) = Earned(S) + CashOf[id] /\ Earned(S) \in Int
  BY <1>1, <1>2, SumAddOne DEF Earned
<1> QED
  BY <1>2, <1>3, <1>4

\* What two sets of requests with none in common leave of an asset.
LEMMA NetOfParts ==
  ASSUME NEW S \in SUBSET Requests, NEW a
  PROVE  /\ Net(S, a) \in Int
         /\ \A T \in SUBSET Requests :
              S \intersect T = {} => Net(S \union T, a) = Net(S, a) + Net(T, a)
<1>1. \A id \in Requests : NetOf(a)[id] \in Int
  <2> SUFFICES ASSUME NEW id \in Requests PROVE NetOf(a)[id] \in Int
    OBVIOUS
  <2>1. PICK q \in Int : q = BodyOf(id).quantity
    BY BodyTypes
  <2> QED
    BY <2>1 DEF NetOf, Delta
<1>2. \A T \in SUBSET Requests : IsFiniteSet(T)
  BY FiniteRequests, FS_Subset
<1>3. Net(S, a) \in Int
  BY <1>1, <1>2, SetSum DEF SumsFrom, Net
<1>4. ASSUME NEW T \in SUBSET Requests, S \intersect T = {}
      PROVE  Net(S \union T, a) = Net(S, a) + Net(T, a)
  <2>1. \A id \in S \union T : NetOf(a)[id] \in Int
    BY <1>1
  <2> QED
    BY <1>2, <1>4, <2>1, SumUnion DEF Net
<1> QED
  BY <1>3, <1>4

\* A trade that is taken moves the account of its replica by its units and its money.
LEMMA AccountedAfterTrade ==
  ASSUME TypeOK, Ledgers, NEW r \in Replicas, NEW id \in Requests, Takes(r, id),
         NEW s \in Replicas \ poisoned
  PROVE  Accounted(s)'
<1>1. Accounted(s) /\ Accounted(r)
  BY DEF Ledgers, Takes
<1>2. server \in [Requests -> up \union {NoReplica}] /\ DOMAIN portfolio = Replicas
  BY DEF TypeOK
<1>3. CASE s # r
  <2>1. portfolio'[s] = portfolio[s]
    BY <1>2, <1>3 DEF Takes
  <2>2. AppliedBy(s)' = AppliedBy(s)
    <3>1. server[id] # s
      BY NoReplicaAssumption DEF Takes, Ledgers, ServedAreAdmitted
    <3> QED
      BY <1>2, <1>3, <3>1 DEF Takes, AppliedBy
  <2> QED
    BY <1>1, <2>1, <2>2 DEF Accounted
<1>4. CASE s = r
  <2>1. PICK t : t = BodyOf(id) /\ IsTrade(t) /\ t.asset \in Symbols
    BY BodyTypes DEF Takes
  <2>2. PICK p : p = portfolio[r]
    OBVIOUS
  <2>3. PICK after : after = ApplyTrade(p, t) /\ portfolio'[r] = after
    BY <1>2, <2>1, <2>2 DEF Takes
  <2>4. SoundPortfolio(p) /\ ~Refuses(p, t)
    BY <1>1, <2>1, <2>2 DEF Accounted, Takes
  <2>5. /\ SoundPortfolio(after) /\ Moves(p, t, after)
        /\ \A b : b # t.asset => PositionOf(after, b) = PositionOf(p, b)
    BY <2>1, <2>3, <2>4, ApplyMoves
  <2>6. PICK ids \in SUBSET Requests : ids = AppliedBy(r) /\ id \notin ids
    <3>1. server[id] = NoReplica
      BY DEF Takes, Ledgers, ServedAreAdmitted
    <3>2. AppliedBy(r) \in SUBSET Requests /\ id \notin AppliedBy(r)
      BY <3>1, NoReplicaAssumption DEF AppliedBy
    <3> QED
      BY <3>2
  <2>7. AppliedBy(r)' = ids \union {id}
    BY <1>2, <2>6 DEF AppliedBy, Takes
  <2>8. ASSUME NEW a \in Symbols
        PROVE  PositionOf(after, a).total_quantity = Net(ids \union {id}, a)
    <3>1. PositionOf(p, a).total_quantity = Net(ids, a)
      BY <1>1, <2>2, <2>6 DEF Accounted
    <3>2. Net(ids \union {id}, a) = Net(ids, a) + NetOf(a)[id] /\ Net(ids, a) \in Int
      BY <2>6, OneMoreRequest
    <3>3. CASE a = t.asset
      <4>1. NetOf(a)[id] = Delta(t)
        BY <2>1, <3>3 DEF NetOf
      <4> QED
        BY <2>5, <3>1, <3>2, <3>3, <4>1 DEF Moves
    <3>4. CASE a # t.asset
      <4>1. NetOf(a)[id] = 0
        BY <2>1, <3>4 DEF NetOf
      <4>2. Net(ids \union {id}, a) = Net(ids, a)
        BY <3>2, <4>1
      <4> QED
        BY <2>5, <3>1, <3>4, <4>2
    <3> QED
      BY <3>3, <3>4
  <2>9. after.total_realized_pnl - TotalCost(after, Symbols) = Earned(ids \union {id})
    <3>1. after.total_realized_pnl - TotalCost(after, Symbols)
            = (p.total_realized_pnl - TotalCost(p, Symbols)) + Cash(t)
      BY <2>1, <2>3, <2>4, ApplyMoney, FiniteRequests
    <3>2. p.total_realized_pnl - TotalCost(p, Symbols) = Earned(ids)
      BY <1>1, <2>2, <2>6 DEF Accounted
    <3>3. Earned(ids \union {id}) = Earned(ids) + Cash(t)
      BY <2>1, <2>6, OneMoreRequest DEF CashOf
    <3> QED
      BY <3>1, <3>2, <3>3
  <2> QED
    BY <1>4, <2>3, <2>5, <2>7, <2>8, <2>9 DEF Accounted
<1> QED
  BY <1>3, <1>4

\* What a replica takes leaves nothing short: a sell is covered by the memory it is
\* taken into.
LEMMA NoShortAfterTrade ==
  ASSUME TypeOK, Ledgers, NEW r \in Replicas, NEW id \in Requests, Takes(r, id)
  PROVE  NoShort'
<1> SUFFICES ASSUME NEW R \in SUBSET Replicas, NEW a \in Symbols
             PROVE  Net(AdmittedOutside(R)', a) >= 0
  BY DEF NoShort, Net, NetOf
<1>1. server \in [Requests -> up \union {NoReplica}] /\ server[id] = NoReplica
  BY DEF TypeOK, Takes, Ledgers, ServedAreAdmitted
<1>2. Net(AdmittedOutside(R), a) >= 0
  BY DEF Ledgers, NoShort
<1>3. AdmittedOutside(R) \in SUBSET Requests /\ id \notin AdmittedOutside(R)
  BY DEF AdmittedOutside, Admitted, Takes
<1>4. CASE r \in R
  <2>1. AdmittedOutside(R)' = AdmittedOutside(R)
    BY <1>1, <1>4 DEF AdmittedOutside, Takes, Admitted
  <2> QED
    BY <1>2, <2>1
<1>5. CASE r \notin R
  <2>1. PICK Others \in SUBSET Requests : Others = AdmittedOutside(R \union {r})
    BY DEF AdmittedOutside, Admitted
  <2>2. PICK mine \in SUBSET Requests : mine = AppliedBy(r)'
    BY DEF AppliedBy
  <2>3. AdmittedOutside(R)' = Others \union mine /\ Others \intersect mine = {}
    BY <1>1, <1>5, <2>1, <2>2, NoReplicaAssumption
       DEF AdmittedOutside, AppliedBy, Takes, Admitted, Ledgers, ServedAreAdmitted
  <2>4. Net(Others, a) >= 0 /\ Net(Others, a) \in Int
    <3>1. R \union {r} \in SUBSET Replicas
      OBVIOUS
    <3>2. Net(Others, a) >= 0
      BY <2>1, <3>1 DEF Ledgers, NoShort
    <3> QED
      BY <3>2, NetOfParts
  <2>5. Net(mine, a) \in Nat
    <3>1. Accounted(r)'
      BY AccountedAfterTrade DEF Takes
    <3>2. SoundPortfolio(portfolio'[r])
          /\ PositionOf(portfolio'[r], a).total_quantity = Net(mine, a)
      BY <2>2, <3>1 DEF Accounted, Net, NetOf
    <3> QED
      BY <3>2, PositionIsSound
  <2>6. Net(Others \union mine, a) = Net(Others, a) + Net(mine, a)
    BY <2>3, NetOfParts
  <2> QED
    BY <2>3, <2>4, <2>5, <2>6
<1> QED
  BY <1>4, <1>5

\* The trade that is taken is one that was admitted.
LEMMA ServedAfterTrade ==
  ASSUME TypeOK, Ledgers, NEW r \in Replicas, NEW id \in Requests, Takes(r, id)
  PROVE  ServedAreAdmitted'
<1>1. server \in [Requests -> up \union {NoReplica}]
  BY DEF TypeOK
<1>2. ServedAreAdmitted /\ Admitted' = Admitted \union {id} /\ ValidTrade(BodyOf(id))
  BY DEF Ledgers, Takes
<1>3. \A i \in Requests : i # id => server'[i] = server[i]
  BY <1>1 DEF Takes
<1> QED
  BY <1>2, <1>3 DEF ServedAreAdmitted

\* A replica that crashes takes its whole account out of the world.
LEMMA LedgersAfterCrash ==
  ASSUME TypeOK, Ledgers, NEW r \in Replicas, Forgets(r)
  PROVE  Ledgers'
<1>1. /\ server \in [Requests -> up \union {NoReplica}] /\ DOMAIN portfolio = Replicas
      /\ Admitted' = Admitted
      /\ \A id \in Requests : server'[id] = IF server[id] = r THEN NoReplica ELSE server[id]
      /\ portfolio'[r] = NewPortfolio /\ \A s \in Replicas \ {r} : portfolio'[s] = portfolio[s]
  BY DEF TypeOK, Forgets
<1>2. ServedAreAdmitted'
  <2>1. ServedAreAdmitted
    BY DEF Ledgers
  <2> QED
    BY <1>1, <2>1 DEF ServedAreAdmitted
<1>3. ASSUME NEW s \in Replicas \ poisoned' PROVE Accounted(s)'
  <2>1. CASE s = r
    <3>1. AppliedBy(s)' = {}
      BY <1>1, <2>1, NoReplicaAssumption DEF AppliedBy
    <3> QED
      BY <1>1, <2>1, <3>1, NothingApplied DEF Accounted, Net, NetOf, Earned, CashOf
  <2>2. CASE s # r
    <3>1. AppliedBy(s)' = AppliedBy(s)
      BY <1>1, <2>2, NoReplicaAssumption DEF AppliedBy
    <3>2. Accounted(s)
      BY <2>2 DEF Ledgers, Forgets
    <3> QED
      BY <1>1, <2>2, <3>1, <3>2 DEF Accounted
  <2> QED
    BY <2>1, <2>2
<1>4. NoShort'
  <2> SUFFICES ASSUME NEW R \in SUBSET Replicas, NEW a \in Symbols
               PROVE  Net(AdmittedOutside(R)', a) >= 0
    BY DEF NoShort, Net, NetOf
  <2>1. R \ {r} \in SUBSET Replicas
    OBVIOUS
  <2>2. AdmittedOutside(R)' = AdmittedOutside(R \ {r})
    <3>1. \A id \in Admitted : server'[id] \notin R <=> server[id] \notin R \ {r}
      BY <1>1, NoReplicaAssumption DEF Admitted
    <3> QED
      BY <1>1, <3>1 DEF AdmittedOutside
  <2> QED
    BY <2>1, <2>2 DEF Ledgers, NoShort
<1> QED
  BY <1>2, <1>3, <1>4 DEF Ledgers

\* The memories are accounts and nothing is short, in every state.
THEOREM LedgersHold == Spec => []Ledgers
<1>1. TypeOK /\ Ledgers /\ [Next]_vars => Ledgers'
  <2> SUFFICES ASSUME TypeOK, Ledgers, [Next]_vars PROVE Ledgers'
    OBVIOUS
  <2>1. ASSUME NEW r \in Replicas, NEW id \in Requests, Takes(r, id) PROVE Ledgers'
    BY <2>1, ServedAfterTrade, AccountedAfterTrade, NoShortAfterTrade DEF Ledgers, Takes
  <2>2. ASSUME NEW r \in Replicas, Forgets(r) PROVE Ledgers'
    BY <2>2, LedgersAfterCrash
  <2>3. ASSUME NEW gone \in SUBSET Replicas, Admitted' = Admitted, server' = server,
               poisoned' = poisoned \union gone,
               \A r \in Replicas \ gone : portfolio'[r] = portfolio[r]
        PROVE  Ledgers'
    <3>1. ServedAreAdmitted'
      BY <2>3 DEF Ledgers, ServedAreAdmitted
    <3>2. \A r \in Replicas \ poisoned' : Accounted(r)'
      BY <2>3 DEF Ledgers, Accounted, AppliedBy
    <3>3. NoShort'
      BY <2>3 DEF Ledgers, NoShort, AdmittedOutside
    <3> QED
      BY <3>1, <3>2, <3>3 DEF Ledgers
  <2>4. ASSUME NEW r \in Replicas, Poisons(r) PROVE Ledgers'
    BY <2>3, <2>4 DEF Poisons
  <2>5. CASE Rests
    <3>1. /\ poisoned' = poisoned \union {} /\ {} \in SUBSET Replicas
          /\ Admitted' = Admitted /\ server' = server
          /\ \A r \in Replicas \ {} : portfolio'[r] = portfolio[r]
      BY <2>5 DEF Rests
    <3> QED
      BY <2>3, <3>1
  <2> QED
    BY <2>1, <2>2, <2>4, <2>5, MemorySteps
<1> QED
  BY <1>1, InitLedgers, TypeCorrect, PTL DEF Spec

-----------------------------------------------------------------------------
(* What follows from them. *)

\* The memory of a replica is the account of the trades it has applied since it
\* started, for any number of replicas, crashes and tries (create_trade.rs execute,
\* portfolio.rs apply_trade).
THEOREM MemoryIsRight == Spec => []MemoryIsAccount
<1>1. Ledgers => MemoryIsAccount
  <2> SUFFICES ASSUME Ledgers, NEW r \in Replicas \ poisoned
               PROVE  LET applied == {id \in Requests : server[id] = r}
                          all(side) == UNION {Of(applied, a, side) : a \in Symbols}
                      IN  /\ \A a \in Symbols :
                               LET position == PositionOf(portfolio[r], a)
                               IN  /\ position.total_quantity
                                        = Units(Of(applied, a, "buy"))
                                            - Units(Of(applied, a, "sell"))
                                   /\ position.total_quantity = TotalOf(position.lots)
                          /\ portfolio[r].total_realized_pnl
                               = Value(all("sell")) - Value(all("buy"))
                                 + MapThenSumSet(
                                     LAMBDA a : CostOf(PositionOf(portfolio[r], a).lots), Symbols)
    BY DEF MemoryIsAccount
  <2> DEFINE applied   == {id \in Requests : server[id] = r}
             all(side) == UNION {Of(applied, a, side) : a \in Symbols}
  <2>1. Accounted(r) /\ applied = AppliedBy(r) /\ applied \in SUBSET Requests
    BY DEF Ledgers, AppliedBy
  <2>2. SoundPortfolio(portfolio[r])
    BY <2>1 DEF Accounted
  <2>3. ASSUME NEW a \in Symbols
        PROVE  /\ PositionOf(portfolio[r], a).total_quantity
                    = Units(Of(applied, a, "buy")) - Units(Of(applied, a, "sell"))
               /\ PositionOf(portfolio[r], a).total_quantity
                    = TotalOf(PositionOf(portfolio[r], a).lots)
    <3>1. PositionOf(portfolio[r], a).total_quantity = Net(applied, a)
      BY <2>1 DEF Accounted
    <3> QED
      BY <2>1, <2>2, <3>1, NetIsDifference, PositionIsSound
  <2>4. all("sell") = SellsOf(applied) /\ all("buy") = BuysOf(applied)
    BY <2>1, BodyTypes DEF Of, SellsOf, BuysOf
  <2>5. MapThenSumSet(LAMBDA a : CostOf(PositionOf(portfolio[r], a).lots), Symbols)
          = TotalCost(portfolio[r], Symbols)
    <3> DEFINE p == portfolio[r]
    <3>1. MapThenSumSet(LAMBDA a : CostOf(PositionOf(p, a).lots), Symbols)
            = TotalCost(p, Symbols)
      BY CostIsSum
    <3> QED
      BY <3>1
  <2>6. PICK was \in Int, cost \in Int, sold \in Int, bought \in Int :
          /\ was = portfolio[r].total_realized_pnl /\ cost = TotalCost(portfolio[r], Symbols)
          /\ sold = Value(SellsOf(applied)) /\ bought = Value(BuysOf(applied))
    <3>1. portfolio[r].total_realized_pnl \in Int
      BY <2>2 DEF SoundPortfolio
    <3>2. TotalCost(portfolio[r], Symbols) \in Int
      BY <2>2, CostType, FiniteRequests
    <3>3. Value(SellsOf(applied)) \in Int /\ Value(BuysOf(applied)) \in Int
      BY <2>1, EarnedIsDifference
    <3> QED
      BY <3>1, <3>2, <3>3
  <2>7. was = sold - bought + cost
    <3>1. was - cost = sold - bought
      BY <2>1, <2>6, EarnedIsDifference DEF Accounted
    <3> QED
      BY <3>1
  <2> QED
    BY <2>3, <2>4, <2>5, <2>6, <2>7
<1> QED
  BY <1>1, LedgersHold, PTL

\* Over all replicas and crashes no more is sold than was bought: each sell is
\* covered by the memory it meets, and a memory never holds what another one has
\* sold (portfolio.rs apply_trade, create_trade.rs execute).
THEOREM NeverSoldShort == Spec => []NeverOversold
<1>1. Ledgers => NeverOversold
  <2> SUFFICES ASSUME Ledgers, NEW a \in Symbols
               PROVE  Units({id \in Of(Requests, a, "sell") : outcome[id] \in Answered})
                        <= Units({id \in Of(Requests, a, "buy") :
                                    outcome[id] \in Answered \union {"saving", "failed"}})
    BY DEF NeverOversold
  <2>1. Admitted \in SUBSET Requests /\ AdmittedOutside({}) = Admitted
    BY DEF Admitted, AdmittedOutside
  <2>2. Net(Admitted, a) >= 0
    <3>1. {} \in SUBSET Replicas
      OBVIOUS
    <3> QED
      BY <2>1, <3>1 DEF Ledgers, NoShort
  <2>3. PICK sold \in SUBSET Requests, bought \in SUBSET Requests, kept \in SUBSET Requests :
          /\ sold = Of(Admitted, a, "sell") /\ bought = Of(Admitted, a, "buy")
          /\ kept = {id \in Of(Requests, a, "sell") : outcome[id] \in Answered}
    BY DEF Of, Admitted
  <2>4. bought = {id \in Of(Requests, a, "buy") :
                    outcome[id] \in Answered \union {"saving", "failed"}}
    BY <2>3 DEF Of, Admitted
  <2>5. kept \in SUBSET sold
    BY <2>3 DEF Of, Admitted
  <2>6. /\ Units(bought) - Units(sold) >= 0
        /\ Units(bought) \in Int /\ Units(sold) \in Int
    BY <2>1, <2>2, <2>3, NetIsDifference
  <2>7. \A id \in sold : UnitsOf[id] \in Nat
    BY <2>3, BodyTypes DEF Of, Ledgers, ServedAreAdmitted, IsTrade
  <2>8. IsFiniteSet(sold)
    BY FiniteRequests, FS_Subset
  <2>9. Units(kept) <= Units(sold) /\ Units(kept) \in Nat
    BY <2>5, <2>7, <2>8, SumMonotone, UnitsIsSum
  <2>10. Units(kept) <= Units(bought)
    BY <2>6, <2>9
  <2> QED
    BY <2>3, <2>4, <2>10
<1> QED
  BY <1>1, LedgersHold, PTL
=============================================================================
