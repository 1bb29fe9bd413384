------------------------- MODULE PnlConsumerProofs --------------------------
(***************************************************************************)
(* Proofs about PnlConsumer: for every group of instances, every topic and *)
(* every number of faults, not only for the instances that TLC explores.   *)
(***************************************************************************)
EXTENDS PnlConsumer, AssetPortfolioProofs, TLAPS

-----------------------------------------------------------------------------
(* Portfolios keep their shape. *)

\* AssetPortfolio::new, apply and the idle transaction have the fields of a portfolio.
LEMMA EmptyShape == IsPortfolio(EmptyPortfolio)
BY DEF IsPortfolio, EmptyPortfolio

\* apply keeps the fields.
LEMMA AppliedShape ==
  ASSUME NEW r, IsPortfolio(r), NEW e
  PROVE  IsPortfolio(Applied(r, e))
BY DEF IsPortfolio, Applied

\* An instance that is idle holds an empty transaction.
LEMMA NoTxShape ==
  /\ NoTx = [portfolio    |-> NoTx.portfolio,
             realized_pnl |-> NoTx.realized_pnl]
  /\ IsPortfolio(NoTx.portfolio)
BY EmptyShape DEF NoTx

\* The row that a transaction loads, and what it makes of it, are portfolios.
LEMMA LoadedShape ==
  ASSUME TypeOK, NEW a \in Assets
  PROVE  IsPortfolio(PortfolioOf(a))
BY EmptyShape DEF TypeOK, PortfolioOf, HasRow

\* Setting the row of one asset changes what a reader gets for that asset only.
LEMMA SetRow ==
  ASSUME NEW CONSTANT a, NEW row, portfolio_state' = WithRow(a, row)
  PROVE  /\ PortfolioOf(a)' = row
         /\ \A b : b # a => PortfolioOf(b)' = PortfolioOf(b)
         /\ DOMAIN portfolio_state' = DOMAIN portfolio_state \union {a}
         /\ \A b \in DOMAIN portfolio_state' :
              portfolio_state'[b] = IF b = a THEN row ELSE portfolio_state[b]
BY DEF WithRow, PortfolioOf, HasRow

-----------------------------------------------------------------------------
(* The topic only grows, and a record in hand stays what it is. *)

\* No record leaves the topic or changes its place.
LEMMA LogGrows ==
  ASSUME TypeOK, [Next]_vars, NEW p \in Partitions
  PROVE  /\ log'[p] \in Seq(Messages)
         /\ Len(log[p]) <= Len(log'[p])
         /\ \A o \in DOMAIN log[p] : o \in DOMAIN log'[p] /\ log'[p][o] = log[p][o]
<1> log \in [Partitions -> Seq(Messages)]
  BY DEF TypeOK
<1>1. CASE log' = log
  BY <1>1
<1>2. CASE \E m \in Messages : Publish(m)
  <2>1. PICK m \in Messages : Publish(m)
    BY <1>2
  <2>2. PartitionOf[m] \in Partitions
    BY PartitionOfAssumption
  <2> QED
    BY <2>1, <2>2 DEF Publish
<1> QED
  BY <1>1, <1>2 DEF Next, vars, kafkaVars, instanceVars, Revoke, StoreOffset, LoseOffset,
     Assign, Poll, SkipPoison, Receive, Process, ClaimNew, ClaimDuplicate, Rollback,
     InsertRow, RowExists, LoadAndApply, LoadAndReject, SavePortfolio, SavePnlSnapshot, Commit,
     StatementFails, CommitUnacknowledged, Crash, CrashInCommit, Dies, Restart

\* EventOf(c) across a step that leaves the record in hand alone.
LEMMA EventStable ==
  ASSUME TypeOK, [Next]_vars, NEW c \in Consumers,
         pc[c] \in Processing, current'[c] = current[c]
  PROVE  /\ EventOf(c)' = EventOf(c)
         /\ EventOf(c) \in Events
         /\ current[c].partition \in Partitions
         /\ current[c].offset \in DOMAIN log'[current[c].partition]
<1>1. /\ current[c].partition \in Partitions
      /\ current[c].offset \in DOMAIN log[current[c].partition]
      /\ EventOf(c) \in Events
  BY DEF TypeOK
<1> QED
  BY <1>1, LogGrows DEF EventOf

-----------------------------------------------------------------------------
(* Type correctness. *)

\* The parts of TypeOK, one per variable or two that go together.
KafkaTypes ==
  /\ log       \in [Partitions -> Seq(Messages)]
  /\ owner     \in [Partitions -> Consumers \union {NoConsumer}]
  /\ position  \in [Partitions -> Nat]
  /\ pending   \in [Partitions -> Nat]
  /\ committed \in [Partitions -> Nat]

\* An instance in process has a trade event in hand, any other one nothing.
RecordTypes ==
  /\ pc \in [Consumers -> Processing \union {"recv", "down"}]
  /\ DOMAIN current = Consumers
  /\ \A c \in Consumers :
       IF pc[c] \in Processing
       THEN /\ current[c] \in [partition : Partitions, offset : Nat \ {0}]
            /\ current[c].offset \in DOMAIN log[current[c].partition]
            /\ EventOf(c) \in Events
       ELSE current[c] = NoRecord

\* What the transactions have computed.
TxTypes ==
  /\ DOMAIN tx = Consumers
  /\ \A c \in Consumers :
       /\ tx[c] = [portfolio    |-> tx[c].portfolio,
                   realized_pnl |-> tx[c].realized_pnl]
       /\ IsPortfolio(tx[c].portfolio)
  /\ inserted \subseteq Consumers

\* The tables.
TableTypes ==
  /\ failed \subseteq Events
  /\ processed_events \subseteq Events
  /\ DOMAIN portfolio_state \subseteq Assets
  /\ \A a \in DOMAIN portfolio_state : IsPortfolio(portfolio_state[a])
  /\ DOMAIN pnl_snapshots = Assets
  /\ faults \in 0 .. MaxFaults

\* TypeOK in four parts.
LEMMA TypeParts == TypeOK <=> KafkaTypes /\ RecordTypes /\ TxTypes /\ TableTypes
BY DEF TypeOK, KafkaTypes, RecordTypes, TxTypes, TableTypes

\* The instances start idle, with empty tables.
LEMMA TypeInit == Init => TypeOK
<1> SUFFICES ASSUME Init PROVE TypeOK
  OBVIOUS
<1>1. KafkaTypes
  BY DEF Init, KafkaTypes
<1>2. RecordTypes
  BY DEF Init, RecordTypes, Processing, Claiming
<1>3. TxTypes
  BY NoTxShape DEF Init, TxTypes
<1>4. TableTypes
  BY MaxFaultsAssumption DEF Init, TableTypes
<1> QED
  BY <1>1, <1>2, <1>3, <1>4, TypeParts

\* Every action keeps the offsets natural numbers, and owners members of the group.
LEMMA KafkaTypesStep == TypeOK /\ [Next]_vars => KafkaTypes'
<1> SUFFICES ASSUME TypeOK, [Next]_vars PROVE KafkaTypes'
  OBVIOUS
<1> USE TypeParts DEF KafkaTypes
<1>1. ASSUME NEW m \in Messages, Publish(m) PROVE KafkaTypes'
  BY <1>1, PartitionOfAssumption DEF Publish
<1>2. ASSUME NEW p \in Partitions, NEW c \in Consumers, Assign(p, c) PROVE KafkaTypes'
  BY <1>2 DEF Assign
<1>3. ASSUME NEW p \in Partitions, Revoke(p) PROVE KafkaTypes'
  BY <1>3 DEF Revoke
<1>4. ASSUME NEW p \in Partitions, StoreOffset(p) PROVE KafkaTypes'
  BY <1>4 DEF StoreOffset
<1>5. ASSUME NEW p \in Partitions, LoseOffset(p) PROVE KafkaTypes'
  BY <1>5 DEF LoseOffset
<1>6. ASSUME NEW p \in Partitions, NEW c \in Consumers, SkipPoison(c, p) PROVE KafkaTypes'
  BY <1>6 DEF SkipPoison
<1>7. ASSUME NEW p \in Partitions, NEW c \in Consumers, Receive(c, p) PROVE KafkaTypes'
  BY <1>7 DEF Receive
<1>8. ASSUME NEW c \in Consumers, pc[c] \in Processing, CommitMessage(c)
      PROVE  pending' \in [Partitions -> Nat]
  <2>1. current[c].partition \in Partitions /\ current[c].offset \in Nat
    BY <1>8 DEF RecordTypes
  <2> QED
    BY <1>8, <2>1 DEF CommitMessage
<1>9. ASSUME NEW c \in Consumers, Rollback(c) PROVE KafkaTypes'
  BY <1>8, <1>9 DEF Rollback, Processing
<1>10. ASSUME NEW c \in Consumers, Commit(c) PROVE KafkaTypes'
  BY <1>8, <1>10 DEF Commit, CommitTx, Processing, Claiming
<1>11. ASSUME NEW c \in Consumers, Dies(c) PROVE KafkaTypes'
  BY <1>11 DEF Dies
<1>12. CASE UNCHANGED kafkaVars
  BY <1>12 DEF kafkaVars
<1> QED
  BY <1>1, <1>2, <1>3, <1>4, <1>5, <1>6, <1>7, <1>9, <1>10, <1>11, <1>12
     DEF Next, vars, Process, Poll, Crash, CrashInCommit, ClaimNew, ClaimDuplicate,
         InsertRow, RowExists, LoadAndApply, LoadAndReject, SavePortfolio, SavePnlSnapshot,
         StatementFails, CommitUnacknowledged, Restart

\* An instance that keeps its record, or lets go of it, keeps RecordTypes.
LEMMA RecordKept ==
  ASSUME TypeOK, [Next]_vars, NEW c \in Consumers,
         DOMAIN current' = Consumers,
         pc' \in [Consumers -> Processing \union {"recv", "down"}],
         \/ current'[c] = current[c] /\ (pc'[c] \in Processing <=> pc[c] \in Processing)
         \/ current'[c] = NoRecord /\ pc'[c] \notin Processing
  PROVE  (IF pc[c] \in Processing
          THEN /\ current[c] \in [partition : Partitions, offset : Nat \ {0}]
               /\ current[c].offset \in DOMAIN log[current[c].partition]
               /\ EventOf(c) \in Events
          ELSE current[c] = NoRecord)'
<1>1. CASE pc'[c] \notin Processing
  BY <1>1 DEF TypeOK
<1>2. CASE pc'[c] \in Processing
  <2>1. current'[c] = current[c] /\ pc[c] \in Processing
    BY <1>2
  <2>2. current[c] \in [partition : Partitions, offset : Nat \ {0}]
    BY <2>1 DEF TypeOK
  <2> QED
    BY <1>2, <2>1, <2>2, EventStable
<1> QED
  BY <1>1, <1>2

\* A step that gives nobody a record.
Keeps == /\ DOMAIN current' = Consumers
         /\ pc' \in [Consumers -> Processing \union {"recv", "down"}]
         /\ \A c \in Consumers :
              \/ current'[c] = current[c] /\ (pc'[c] \in Processing <=> pc[c] \in Processing)
              \/ current'[c] = NoRecord /\ pc'[c] \notin Processing

\* Receive takes only trade events in hand, and NextTurn and the crashes let them go.
LEMMA RecordTypesStep == TypeOK /\ [Next]_vars => RecordTypes'
<1> SUFFICES ASSUME TypeOK, [Next]_vars PROVE RecordTypes'
  OBVIOUS
<1>t. /\ pc \in [Consumers -> Processing \union {"recv", "down"}]
      /\ DOMAIN current = Consumers
  BY DEF TypeOK
<1>n. \A c \in Consumers : pc[c] \notin Processing => current[c] = NoRecord
  BY DEF TypeOK
<1>k. Keeps => RecordTypes'
  BY RecordKept DEF Keeps, RecordTypes
<1>q. ASSUME NEW c \in Consumers, NextTurn(c) PROVE Keeps
  BY <1>q, <1>t DEF NextTurn, Keeps, Processing, Claiming
<1>1. ASSUME NEW c \in Consumers, ClaimNew(c) PROVE Keeps
  BY <1>1, <1>t DEF ClaimNew, CanClaim, Keeps, Processing, Claiming
<1>2. ASSUME NEW c \in Consumers, ClaimDuplicate(c) PROVE Keeps
  BY <1>2, <1>t DEF ClaimDuplicate, CanClaim, Keeps, Processing, Claiming
<1>3. ASSUME NEW c \in Consumers, InsertRow(c) PROVE Keeps
  BY <1>3, <1>t DEF InsertRow, Keeps, Processing, Claiming
<1>11. ASSUME NEW c \in Consumers, RowExists(c) PROVE Keeps
  BY <1>11, <1>t DEF RowExists, Keeps, Processing, Claiming
<1>4. ASSUME NEW c \in Consumers, LoadAndApply(c) PROVE Keeps
  BY <1>4, <1>t DEF LoadAndApply, CanLoad, Keeps, Processing, Claiming
<1>5. ASSUME NEW c \in Consumers, SavePortfolio(c) PROVE Keeps
  BY <1>5, <1>t DEF SavePortfolio, Keeps, Processing, Claiming
<1>6. ASSUME NEW c \in Consumers, SavePnlSnapshot(c) PROVE Keeps
  BY <1>6, <1>t DEF SavePnlSnapshot, Keeps, Processing, Claiming
<1>7. ASSUME NEW c \in Consumers, Dies(c) PROVE Keeps
  BY <1>7, <1>t DEF Dies, Keeps, Processing, Claiming
<1>8. ASSUME NEW c \in Consumers, Restart(c) PROVE Keeps
  BY <1>8, <1>t, <1>n DEF Restart, Keeps, Processing, Claiming
<1>9. ASSUME UNCHANGED <<pc, current>> PROVE Keeps
  BY <1>9, <1>t DEF Keeps
<1>10. ASSUME NEW c \in Consumers, NEW p \in Partitions, Receive(c, p) PROVE RecordTypes'
  <2>1. /\ pc' = [pc EXCEPT ![c] = "claim_event"]
        /\ current' = [current EXCEPT ![c] = [partition |-> p, offset |-> position[p] + 1]]
        /\ log' = log
    BY <1>10 DEF Receive
  <2>2. /\ pc' \in [Consumers -> Processing \union {"recv", "down"}]
        /\ DOMAIN current' = Consumers
    BY <2>1, <1>t DEF Processing
  <2>3. ASSUME NEW d \in Consumers \ {c}
        PROVE  current'[d] = current[d] /\ pc'[d] = pc[d]
    BY <2>1, <1>t
  <2>4. position[p] + 1 \in DOMAIN log[p] /\ log[p] \in Seq(Messages) /\ position[p] \in Nat
    BY <1>10 DEF Receive, CanReceive, TypeOK
  <2>5. log[p][position[p] + 1] \in Events
    BY <1>10, <2>4 DEF Receive, Upcoming, Messages
  <2>6. /\ current'[c] = [partition |-> p, offset |-> position[p] + 1]
        /\ EventOf(c)' = log[p][position[p] + 1]
    BY <2>1, <1>t DEF EventOf
  <2>7. \A d \in Consumers \ {c} :
          (IF pc[d] \in Processing
           THEN /\ current[d] \in [partition : Partitions, offset : Nat \ {0}]
                /\ current[d].offset \in DOMAIN log[current[d].partition]
                /\ EventOf(d) \in Events
           ELSE current[d] = NoRecord)'
    BY <2>2, <2>3, RecordKept
  <2>8. pc'[c] \in Processing
    BY <2>1, <1>t DEF Processing
  <2>9. /\ current'[c] \in [partition : Partitions, offset : Nat \ {0}]
        /\ current'[c].offset \in DOMAIN log'[current'[c].partition]
        /\ EventOf(c)' \in Events
    BY <2>1, <2>4, <2>5, <2>6
  <2> QED
    BY <2>2, <2>7, <2>8, <2>9 DEF RecordTypes
<1> QED
  BY <1>k, <1>q, <1>1, <1>2, <1>3, <1>4, <1>5, <1>6, <1>7, <1>8, <1>9, <1>10, <1>11
     DEF Next, vars, instanceVars, Process, Poll, Publish, Assign, Revoke, StoreOffset,
         LoseOffset, SkipPoison, Rollback, LoadAndReject, ReturnErr, Commit, StatementFails,
         CommitUnacknowledged, Crash, CrashInCommit

\* A transaction writes portfolios only.
LEMMA TxTypesStep == TypeOK /\ [Next]_vars => TxTypes'
<1> SUFFICES ASSUME TypeOK, [Next]_vars PROVE TxTypes'
  OBVIOUS
<1>t. TxTypes /\ RecordTypes
  BY TypeParts
<1>1. ASSUME NEW c \in Consumers, tx' = [tx EXCEPT ![c] = NoTx], inserted' = inserted \ {c}
      PROVE  TxTypes'
  BY <1>1, <1>t, NoTxShape DEF TxTypes
<1>2. ASSUME NEW c \in Consumers, InsertRow(c) PROVE TxTypes'
  BY <1>2, <1>t DEF InsertRow, TxTypes
<1>3. ASSUME NEW c \in Consumers, LoadAndApply(c) PROVE TxTypes'
  <2> DEFINE after    == Applied(Loaded(c), EventOf(c))
             realized == RealizedOf(Loaded(c), EventOf(c))
  <2>1. tx' = [tx EXCEPT ![c] = [portfolio |-> after, realized_pnl |-> realized]]
    BY <1>3 DEF LoadAndApply
  <2>2. EventOf(c) \in Events
    BY <1>3, <1>t DEF LoadAndApply, CanLoad, RecordTypes, Processing, Claiming
  <2>3. AssetOf(EventOf(c)) \in Assets
    BY <2>2, TradeOfAssumption DEF AssetOf, TradeEvent
  <2>4. IsPortfolio(after)
    BY <2>3, LoadedShape, AppliedShape DEF Loaded
  <2> HIDE DEF after, realized
  <2>5. inserted' = inserted
    BY <1>3 DEF LoadAndApply
  <2> QED
    BY <2>1, <2>4, <2>5, <1>t DEF TxTypes
<1>4. CASE UNCHANGED <<tx, inserted>>
  BY <1>4, <1>t DEF TxTypes
<1> QED
  BY <1>1, <1>2, <1>3, <1>4
     DEF Next, vars, instanceVars, Process, Poll, Publish, Assign, Revoke, StoreOffset,
         LoseOffset, SkipPoison, Receive, ClaimNew, ClaimDuplicate, RowExists, SavePortfolio,
         SavePnlSnapshot, Rollback, LoadAndReject, NextTurn, ReturnErr, Commit,
         StatementFails, CommitUnacknowledged, Crash, CrashInCommit, Dies, Restart

\* The asset of a record in hand.
LEMMA EventTypes ==
  ASSUME TypeOK, NEW c \in Consumers, pc[c] \in Processing
  PROVE  EventOf(c) \in Events /\ AssetOf(EventOf(c)) \in Assets
<1>1. EventOf(c) \in Events
  BY DEF TypeOK
<1> QED
  BY <1>1, TradeOfAssumption DEF AssetOf, TradeEvent

\* The tables hold portfolios of assets and ids of events only.
LEMMA TableTypesStep == TypeOK /\ [Next]_vars => TableTypes'
<1> SUFFICES ASSUME TypeOK, [Next]_vars PROVE TableTypes'
  OBVIOUS
<1>t. TableTypes /\ TxTypes
  BY TypeParts
<1> DEFINE Tables == /\ processed_events \subseteq Events
                     /\ DOMAIN portfolio_state \subseteq Assets
                     /\ \A a \in DOMAIN portfolio_state : IsPortfolio(portfolio_state[a])
                     /\ DOMAIN pnl_snapshots = Assets
<1>1. ASSUME NEW c \in Consumers, CommitTx(c) PROVE Tables'
  <2>1. EventOf(c) \in Events /\ AssetOf(EventOf(c)) \in Assets
    BY <1>1, EventTypes DEF CommitTx, Processing, Claiming
  <2>2. IsPortfolio(tx[c].portfolio)
    BY <1>t DEF TxTypes
  <2>3. PICK a \in Assets : portfolio_state' = WithRow(a, tx[c].portfolio)
    BY <1>1, <2>1 DEF CommitTx
  <2>4. /\ DOMAIN portfolio_state' \subseteq Assets
        /\ \A b \in DOMAIN portfolio_state' : IsPortfolio(portfolio_state'[b])
    BY <1>t, <2>2, <2>3 DEF TableTypes, WithRow
  <2>5. /\ processed_events' \subseteq Events
        /\ DOMAIN pnl_snapshots' = Assets
    BY <1>1, <1>t, <2>1 DEF CommitTx, TableTypes
  <2> QED
    BY <2>4, <2>5
<1>2. ASSUME UNCHANGED dbVars PROVE Tables'
  BY <1>2, <1>t DEF dbVars, TableTypes
<1>3. Tables'
  BY <1>1, <1>2
     DEF Next, vars, Process, Poll, Publish, Assign, Revoke, StoreOffset, LoseOffset,
         SkipPoison, Receive, ClaimNew, ClaimDuplicate, InsertRow, RowExists, LoadAndApply,
         LoadAndReject, SavePortfolio, SavePnlSnapshot, Rollback, Commit, StatementFails,
         CommitUnacknowledged, Crash, CrashInCommit, Restart
<1>4. ASSUME NEW c \in Consumers, pc[c] \in Processing, ReturnErr(c)
      PROVE  failed' \subseteq Events
  BY <1>4, <1>t, EventTypes DEF ReturnErr, TableTypes
<1>5. failed' \subseteq Events
  BY <1>4, <1>t
     DEF TableTypes, Next, vars, instanceVars, Process, Poll, Publish, Assign, Revoke,
         StoreOffset, LoseOffset, SkipPoison, Receive, ClaimNew, ClaimDuplicate, InsertRow,
         RowExists, LoadAndApply, LoadAndReject, CanLoad, SavePortfolio, SavePnlSnapshot,
         Rollback, Commit, CommitTx, StatementFails, CommitUnacknowledged, Crash,
         CrashInCommit, Dies, Restart, Processing, Claiming
<1>6. faults' \in 0 .. MaxFaults
  BY <1>t, MaxFaultsAssumption
     DEF TableTypes, Next, vars, Process, Poll, Publish, Assign, Revoke,
         StoreOffset, LoseOffset, SkipPoison, Receive, ClaimNew, ClaimDuplicate, InsertRow,
         RowExists, LoadAndApply, LoadAndReject, SavePortfolio, SavePnlSnapshot, Rollback,
         Commit, StatementFails, CommitUnacknowledged, Crash, CrashInCommit, Dies, Fault,
         Restart
<1> QED
  BY <1>3, <1>5, <1>6 DEF TableTypes

\* The four parts together.
LEMMA TypeStep == TypeOK /\ [Next]_vars => TypeOK'
<1> SUFFICES ASSUME TypeOK, [Next]_vars PROVE TypeOK'
  OBVIOUS
<1>1. (KafkaTypes /\ RecordTypes /\ TxTypes /\ TableTypes)'
  BY KafkaTypesStep, RecordTypesStep, TxTypesStep, TableTypesStep
<1> QED
  BY <1>1 DEF TypeOK, KafkaTypes, RecordTypes, TxTypes, TableTypes

\* Every reachable state is well typed, and a record is in hand exactly while
\* process runs (consumer.rs run, processor.rs process).
THEOREM TypeCorrect == Spec => []TypeOK
<1>1. Init => TypeOK
  BY TypeInit
<1>2. TypeOK /\ [Next]_vars => TypeOK'
  BY TypeStep
<1> QED
  BY <1>1, <1>2, PTL DEF Spec

-----------------------------------------------------------------------------
(* What a step can do to an instance, and to the tables. *)

\* How an instance comes to where it is after a step.
Moves(c) ==
  /\ pc'[c] \in Processing =>
       \/ pc[c] \in Processing /\ current'[c] = current[c]
       \/ pc'[c] = "claim_event" /\ \E p \in Partitions : Receive(c, p)
  /\ pc'[c] \in Claiming => pc[c] \in Claiming \/ ClaimNew(c)
  /\ pc'[c] \in Holding  => (pc[c] \in Holding /\ tx'[c] = tx[c]) \/ LoadAndApply(c)
  /\ pc'[c] = "rollback" => pc[c] = "rollback" \/ ClaimDuplicate(c)

\* Every action is one of these moves for each instance.
LEMMA StepMoves ==
  ASSUME TypeOK, [Next]_vars, NEW c \in Consumers
  PROVE  Moves(c)
<1>t. /\ pc \in [Consumers -> Processing \union {"recv", "down"}]
      /\ DOMAIN current = Consumers /\ DOMAIN tx = Consumers
  BY DEF TypeOK
<1> USE DEF Processing, Claiming, Holding
<1>q. ASSUME NEW d \in Consumers, NextTurn(d) PROVE Moves(c)
  BY <1>q, <1>t DEF NextTurn, Moves
<1>1. ASSUME NEW d \in Consumers, ClaimNew(d) PROVE Moves(c)
  <2>1. CASE d = c
    BY <1>1, <1>t, <2>1 DEF ClaimNew, CanClaim, Moves
  <2>2. CASE d # c
    BY <1>1, <1>t, <2>2 DEF ClaimNew, Moves
  <2> QED
    BY <2>1, <2>2
<1>2. ASSUME NEW d \in Consumers, ClaimDuplicate(d) PROVE Moves(c)
  <2>1. CASE d = c
    BY <1>2, <1>t, <2>1 DEF ClaimDuplicate, CanClaim, Moves
  <2>2. CASE d # c
    BY <1>2, <1>t, <2>2 DEF ClaimDuplicate, Moves
  <2> QED
    BY <2>1, <2>2
<1>3. ASSUME NEW d \in Consumers, InsertRow(d) PROVE Moves(c)
  BY <1>3, <1>t DEF InsertRow, Moves
<1>4. ASSUME NEW d \in Consumers, RowExists(d) PROVE Moves(c)
  BY <1>4, <1>t DEF RowExists, Moves
<1>5. ASSUME NEW d \in Consumers, LoadAndApply(d) PROVE Moves(c)
  <2>1. CASE d = c
    <3>1. pc[c] = "select_for_update" /\ pc' = [pc EXCEPT ![c] = "save_portfolio"]
          /\ current' = current
      BY <1>5, <2>1 DEF LoadAndApply, CanLoad
    <3> QED
      BY <1>5, <1>t, <2>1, <3>1 DEF Moves
  <2>2. CASE d # c
    <3>1. pc'[c] = pc[c] /\ current' = current
      BY <1>5, <1>t, <2>2 DEF LoadAndApply
    <3>2. tx'[c] = tx[c]
      BY <1>5, <1>t, <2>2 DEF LoadAndApply
    <3> QED
      BY <3>1, <3>2 DEF Moves
  <2> QED
    BY <2>1, <2>2
<1>6. ASSUME NEW d \in Consumers, SavePortfolio(d) PROVE Moves(c)
  BY <1>6, <1>t DEF SavePortfolio, Moves
<1>7. ASSUME NEW d \in Consumers, SavePnlSnapshot(d) PROVE Moves(c)
  BY <1>7, <1>t DEF SavePnlSnapshot, Moves
<1>8. ASSUME NEW d \in Consumers, Dies(d) PROVE Moves(c)
  BY <1>8, <1>t DEF Dies, Moves
<1>9. ASSUME NEW d \in Consumers, Restart(d) PROVE Moves(c)
  BY <1>9, <1>t DEF Restart, Moves
<1>10. ASSUME NEW d \in Consumers, NEW p \in Partitions, Receive(d, p) PROVE Moves(c)
  <2>1. CASE d = c
    <3>1. pc' = [pc EXCEPT ![c] = "claim_event"]
      BY <1>10, <2>1 DEF Receive
    <3> QED
      BY <1>10, <1>t, <2>1, <3>1 DEF Moves
  <2>2. CASE d # c
    BY <1>10, <1>t, <2>2 DEF Receive, Moves
  <2> QED
    BY <2>1, <2>2
<1>11. ASSUME UNCHANGED <<pc, current, tx>> PROVE Moves(c)
  BY <1>11 DEF Moves
<1> HIDE DEF Processing, Claiming, Holding
<1> QED
  BY <1>q, <1>1, <1>2, <1>3, <1>4, <1>5, <1>6, <1>7, <1>8, <1>9, <1>10, <1>11
     DEF Next, vars, instanceVars, Process, Poll, Publish, Assign, Revoke, StoreOffset,
         LoseOffset, SkipPoison, Rollback, LoadAndReject, ReturnErr, Commit, StatementFails,
         CommitUnacknowledged, Crash, CrashInCommit

\* The tables change by a COMMIT only, and it ends the transaction.
LEMMA StepTables ==
  ASSUME TypeOK, [Next]_vars
  PROVE  \/ UNCHANGED dbVars
         \/ \E c \in Consumers : CommitTx(c) /\ pc'[c] \notin Processing
<1>t. pc \in [Consumers -> Processing \union {"recv", "down"}]
  BY DEF TypeOK
<1>1. ASSUME NEW c \in Consumers, NextTurn(c) PROVE pc'[c] \notin Processing
  BY <1>1, <1>t DEF NextTurn, Processing, Claiming
<1>2. ASSUME NEW c \in Consumers, Dies(c) PROVE pc'[c] \notin Processing
  BY <1>2, <1>t DEF Dies, Processing, Claiming
<1> QED
  BY <1>1, <1>2
     DEF Next, vars, Process, Poll, Publish, Assign, Revoke, StoreOffset, LoseOffset,
         SkipPoison, Receive, ClaimNew, ClaimDuplicate, InsertRow, RowExists, LoadAndApply,
         LoadAndReject, SavePortfolio, SavePnlSnapshot, Rollback, Commit, StatementFails,
         CommitUnacknowledged, ReturnErr, Crash, CrashInCommit, Restart

-----------------------------------------------------------------------------
(* Locks. *)

\* claim_event waits for whoever holds the key, so none comes to hold it twice.
LEMMA ClaimsStep ==
  ASSUME TypeOK, ClaimsExclusive, [Next]_vars
  PROVE  ClaimsExclusive'
<1>1. ASSUME NEW c \in Consumers, pc'[c] \in Claiming
      PROVE  /\ current'[c] = current[c] /\ pc[c] \in Processing
             /\ EventOf(c)' = EventOf(c)
             /\ pc[c] \in Claiming \/ ClaimNew(c)
  <2>1. Moves(c)
    BY StepMoves
  <2>2. pc'[c] \in Processing /\ pc'[c] # "claim_event"
    BY <1>1 DEF Processing, Claiming
  <2>3. current'[c] = current[c] /\ pc[c] \in Processing
    BY <2>1, <2>2 DEF Moves
  <2> QED
    BY <1>1, <2>1, <2>3, EventStable DEF Moves
<1>2. ASSUME NEW c \in Consumers, pc'[c] \in Claiming
      PROVE  EventOf(c) \notin processed_events'
  <2>1. EventOf(c) \notin processed_events
    BY <1>1, <1>2 DEF ClaimsExclusive, ClaimNew
  <2>2. ASSUME NEW d \in Consumers, CommitTx(d), pc'[d] \notin Processing
        PROVE  EventOf(c) \notin processed_events'
    <3>1. d # c /\ pc[d] \in Claiming
      BY <1>2, <2>2 DEF Processing, CommitTx, Claiming
    <3>2. EventOf(d) # EventOf(c)
      BY <1>1, <1>2, <3>1 DEF ClaimsExclusive, HoldsClaim, ClaimNew, CanClaim
    <3> QED
      BY <2>1, <2>2, <3>2 DEF CommitTx
  <2> QED
    BY <2>1, <2>2, StepTables DEF dbVars
<1>3. ASSUME NEW c \in Consumers, NEW d \in Consumers \ {c},
             pc'[c] \in Claiming, pc'[d] \in Claiming
      PROVE  EventOf(d) # EventOf(c)
  <2>1. CASE pc[c] \in Claiming /\ pc[d] \in Claiming
    BY <2>1 DEF ClaimsExclusive, HoldsClaim
  <2>2. CASE ClaimNew(c) /\ pc[d] \in Claiming
    BY <2>2 DEF ClaimNew, CanClaim, HoldsClaim
  <2>3. CASE ClaimNew(d) /\ pc[c] \in Claiming
    BY <2>3 DEF ClaimNew, CanClaim, HoldsClaim
  <2>4. CASE ClaimNew(c) /\ ClaimNew(d)
    <3>1. pc[d] = "claim_event" /\ pc' = [pc EXCEPT ![c] = "ensure_row"]
      BY <2>4 DEF ClaimNew, CanClaim
    <3>2. pc'[d] = "claim_event"
      BY <3>1 DEF TypeOK
    <3> QED
      BY <1>3, <3>2 DEF Claiming
  <2> QED
    BY <1>1, <1>3, <2>1, <2>2, <2>3, <2>4
<1> QED
  BY <1>1, <1>2, <1>3 DEF ClaimsExclusive, HoldsClaim

\* load_portfolio waits for whoever holds the row.
LEMMA RowsStep ==
  ASSUME TypeOK, RowsExclusive, [Next]_vars
  PROVE  RowsExclusive'
<1>1. ASSUME NEW c \in Consumers, pc'[c] \in Holding
      PROVE  /\ EventOf(c)' = EventOf(c)
             /\ pc[c] \in Holding \/ LoadAndApply(c)
  <2>1. Moves(c)
    BY StepMoves
  <2>2. pc'[c] \in Processing /\ pc'[c] # "claim_event"
    BY <1>1 DEF Processing, Claiming, Holding
  <2>3. current'[c] = current[c] /\ pc[c] \in Processing
    BY <2>1, <2>2 DEF Moves
  <2> QED
    BY <1>1, <2>1, <2>3, EventStable DEF Moves
<1>2. ASSUME NEW c \in Consumers, NEW d \in Consumers \ {c},
             pc'[c] \in Holding, pc'[d] \in Holding
      PROVE  AssetOf(EventOf(d)) # AssetOf(EventOf(c))
  <2>1. CASE pc[c] \in Holding /\ pc[d] \in Holding
    BY <2>1 DEF RowsExclusive
  <2>2. CASE LoadAndApply(c) /\ pc[d] \in Holding
    BY <2>2 DEF LoadAndApply, CanLoad, HoldsRow
  <2>3. CASE LoadAndApply(d) /\ pc[c] \in Holding
    BY <2>3 DEF LoadAndApply, CanLoad, HoldsRow
  <2>4. CASE LoadAndApply(c) /\ LoadAndApply(d)
    <3>1. pc[d] = "select_for_update" /\ pc' = [pc EXCEPT ![c] = "save_portfolio"]
      BY <2>4 DEF LoadAndApply, CanLoad
    <3>2. pc'[d] = "select_for_update"
      BY <3>1 DEF TypeOK
    <3> QED
      BY <1>2, <3>2 DEF Holding
  <2> QED
    BY <1>1, <1>2, <2>1, <2>2, <2>3, <2>4
<1>3. \A c \in Consumers : pc'[c] \in Holding => AssetOf(EventOf(c))' = AssetOf(EventOf(c))
  BY <1>1 DEF AssetOf
<1> QED
  BY <1>2, <1>3 DEF RowsExclusive

\* How an instance gets past the first statement of load_portfolio.
KeyMoves(c) ==
  /\ pc'[c] \in RowEnsured =>
       \/ pc[c] \in RowEnsured /\ (c \in inserted' <=> c \in inserted)
       \/ InsertRow(c)
       \/ RowExists(c)
  /\ c \in inserted' => pc'[c] \in RowEnsured

\* Every action is one of these moves for each instance.
LEMMA StepKeys ==
  ASSUME TypeOK, InsertedGoOn, [Next]_vars, NEW c \in Consumers
  PROVE  KeyMoves(c)
<1>t. pc \in [Consumers -> Processing \union {"recv", "down"}]
  BY DEF TypeOK
<1>i. c \in inserted => pc[c] \in RowEnsured
  BY DEF InsertedGoOn
<1> USE DEF RowEnsured, Holding, KeyMoves
<1>q. ASSUME NEW d \in Consumers, NextTurn(d) PROVE KeyMoves(c)
  BY <1>q, <1>t, <1>i DEF NextTurn
<1>1. ASSUME NEW d \in Consumers, ClaimNew(d) PROVE KeyMoves(c)
  BY <1>1, <1>t, <1>i DEF ClaimNew, CanClaim
<1>2. ASSUME NEW d \in Consumers, ClaimDuplicate(d) PROVE KeyMoves(c)
  BY <1>2, <1>t, <1>i DEF ClaimDuplicate, CanClaim
<1>3. ASSUME NEW d \in Consumers, InsertRow(d) PROVE KeyMoves(c)
  <2>1. pc' = [pc EXCEPT ![d] = "select_for_update"] /\ inserted' = inserted \union {d}
    BY <1>3 DEF InsertRow
  <2>2. CASE d = c
    BY <1>3, <1>t, <2>1, <2>2
  <2>3. CASE d # c
    BY <1>t, <1>i, <2>1, <2>3
  <2> QED
    BY <2>2, <2>3
<1>4. ASSUME NEW d \in Consumers, RowExists(d) PROVE KeyMoves(c)
  <2>1. pc' = [pc EXCEPT ![d] = "select_for_update"] /\ inserted' = inserted
    BY <1>4 DEF RowExists
  <2>2. CASE d = c
    BY <1>4, <1>t, <2>1, <2>2
  <2>3. CASE d # c
    BY <1>t, <1>i, <2>1, <2>3
  <2> QED
    BY <2>2, <2>3
<1>5. ASSUME NEW d \in Consumers, LoadAndApply(d) PROVE KeyMoves(c)
  <2>1. /\ pc[d] = "select_for_update" /\ pc' = [pc EXCEPT ![d] = "save_portfolio"]
        /\ inserted' = inserted
    BY <1>5 DEF LoadAndApply, CanLoad
  <2> QED
    BY <1>t, <1>i, <2>1
<1>6. ASSUME NEW d \in Consumers, SavePortfolio(d) PROVE KeyMoves(c)
  BY <1>6, <1>t, <1>i DEF SavePortfolio
<1>7. ASSUME NEW d \in Consumers, SavePnlSnapshot(d) PROVE KeyMoves(c)
  BY <1>7, <1>t, <1>i DEF SavePnlSnapshot
<1>8. ASSUME NEW d \in Consumers, Dies(d) PROVE KeyMoves(c)
  BY <1>8, <1>t, <1>i DEF Dies
<1>9. ASSUME NEW d \in Consumers, Restart(d) PROVE KeyMoves(c)
  BY <1>9, <1>t, <1>i DEF Restart
<1>10. ASSUME NEW d \in Consumers, NEW p \in Partitions, Receive(d, p) PROVE KeyMoves(c)
  BY <1>10, <1>t, <1>i DEF Receive, CanReceive
<1>11. ASSUME UNCHANGED <<pc, inserted>> PROVE KeyMoves(c)
  BY <1>11, <1>i
<1> HIDE DEF RowEnsured, Holding, KeyMoves
<1> QED
  BY <1>q, <1>1, <1>2, <1>3, <1>4, <1>5, <1>6, <1>7, <1>8, <1>9, <1>10, <1>11
     DEF Next, vars, instanceVars, Process, Poll, Publish, Assign, Revoke, StoreOffset,
         LoseOffset, SkipPoison, Rollback, LoadAndReject, ReturnErr, Commit, StatementFails,
         CommitUnacknowledged, Crash, CrashInCommit

\* The INSERT of an asset's first row waits for one that is not committed, and the
\* row that it finds stays: nobody inserts it twice.
LEMMA KeysStep ==
  ASSUME TypeOK, KeysExclusive, InsertedGoOn, [Next]_vars
  PROVE  KeysExclusive' /\ InsertedGoOn'
<1> USE DEF RowEnsured, Holding
<1>g. InsertedGoOn'
  <2>1. \A c \in Consumers : c \in inserted' => pc'[c] \in RowEnsured
    BY StepKeys DEF KeyMoves
  <2>2. inserted' \subseteq Consumers
    BY TypeStep DEF TypeOK
  <2> QED
    BY <2>1, <2>2 DEF InsertedGoOn
<1>1. ASSUME NEW c \in Consumers, pc'[c] \in RowEnsured
      PROVE  /\ EventOf(c)' = EventOf(c)
             /\ \/ pc[c] \in RowEnsured /\ (c \in inserted' <=> c \in inserted)
                \/ InsertRow(c)
                \/ RowExists(c)
  <2>1. Moves(c) /\ KeyMoves(c)
    BY StepMoves, StepKeys
  <2>2. pc'[c] \in Processing /\ pc'[c] # "claim_event"
    BY <1>1 DEF Processing, Claiming
  <2>3. current'[c] = current[c] /\ pc[c] \in Processing
    BY <2>1, <2>2 DEF Moves
  <2> QED
    BY <1>1, <2>1, <2>3, EventStable DEF KeyMoves
<1>e. \A c \in Consumers : pc'[c] \in RowEnsured => AssetOf(EventOf(c))' = AssetOf(EventOf(c))
  BY <1>1 DEF AssetOf
<1>r. \A a : HasRow(a) => HasRow(a)'
  BY StepTables DEF dbVars, CommitTx, WithRow, HasRow
<1>2. ASSUME NEW c \in Consumers, pc'[c] \in RowEnsured, c \in inserted'
      PROVE  \/ /\ pc[c] \in RowEnsured /\ c \in inserted
                /\ ~HasRow(AssetOf(EventOf(c)))
                /\ \A d \in Consumers \ {c} : ~HoldsKey(d, AssetOf(EventOf(c)))
             \/ InsertRow(c)
  <2>1. ~RowExists(c)
    BY <1>2 DEF RowExists, InsertedGoOn
  <2> QED
    BY <1>1, <1>2, <2>1 DEF KeysExclusive
<1>3. ASSUME NEW c \in Consumers, pc'[c] \in RowEnsured, c \in inserted'
      PROVE  ~HasRow(AssetOf(EventOf(c)))'
  <2>1. CASE InsertRow(c)
    BY <1>1, <1>3, <1>e, <2>1 DEF InsertRow, HasRow, dbVars
  <2>2. CASE /\ pc[c] \in RowEnsured /\ c \in inserted
             /\ ~HasRow(AssetOf(EventOf(c)))
             /\ \A d \in Consumers \ {c} : ~HoldsKey(d, AssetOf(EventOf(c)))
    <3>1. ASSUME NEW d \in Consumers, CommitTx(d), pc'[d] \notin Processing
          PROVE  AssetOf(EventOf(d)) # AssetOf(EventOf(c))
      <4>1. d # c /\ pc[d] = "commit"
        BY <1>3, <3>1 DEF Processing, CommitTx, Claiming
      <4>2. IF d \in inserted THEN HoldsKey(d, AssetOf(EventOf(d)))
                              ELSE HasRow(AssetOf(EventOf(d)))
        BY <4>1 DEF KeysExclusive, HoldsKey, Claiming
      <4> QED
        BY <2>2, <4>1, <4>2
    <3>2. ~(AssetOf(EventOf(c)) \in DOMAIN portfolio_state')
      BY <2>2, <3>1, StepTables DEF HasRow, CommitTx, WithRow, dbVars
    <3> QED
      BY <1>3, <1>e, <3>2 DEF HasRow
  <2> QED
    BY <1>2, <1>3, <2>1, <2>2
<1>4. ASSUME NEW c \in Consumers, NEW d \in Consumers \ {c},
             pc'[c] \in RowEnsured, c \in inserted', pc'[d] \in RowEnsured, d \in inserted'
      PROVE  AssetOf(EventOf(d)) # AssetOf(EventOf(c))
  <2>1. CASE InsertRow(c) /\ InsertRow(d)
    <3>1. /\ pc[c] = "ensure_row" /\ pc[d] = "ensure_row"
          /\ pc' = [pc EXCEPT ![c] = "select_for_update"]
      BY <2>1 DEF InsertRow
    <3>2. pc'[d] = "ensure_row"
      BY <3>1 DEF TypeOK
    <3> QED
      BY <1>4, <3>2
  <2>2. CASE InsertRow(c) /\ ~InsertRow(d)
    <3>1. pc[d] \in RowEnsured /\ d \in inserted
      BY <1>2, <1>4, <2>2
    <3> QED
      BY <2>2, <3>1 DEF InsertRow, HoldsKey, Claiming
  <2>3. CASE InsertRow(d) /\ ~InsertRow(c)
    <3>1. pc[c] \in RowEnsured /\ c \in inserted
      BY <1>2, <1>4, <2>3
    <3> QED
      BY <2>3, <3>1 DEF InsertRow, HoldsKey, Claiming
  <2>4. CASE ~InsertRow(d) /\ ~InsertRow(c)
    <3>1. pc[d] \in RowEnsured /\ d \in inserted
      BY <1>2, <1>4, <2>4
    <3>2. \A b \in Consumers \ {c} : ~HoldsKey(b, AssetOf(EventOf(c)))
      BY <1>2, <1>4, <2>4
    <3> QED
      BY <3>1, <3>2 DEF HoldsKey, Claiming
  <2> QED
    BY <2>1, <2>2, <2>3, <2>4
<1>5. ASSUME NEW c \in Consumers, pc'[c] \in RowEnsured, c \notin inserted'
      PROVE  HasRow(AssetOf(EventOf(c)))'
  <2>1. HasRow(AssetOf(EventOf(c)))
    BY <1>1, <1>5 DEF KeysExclusive, InsertRow, RowExists
  <2>2. AssetOf(EventOf(c)) \in DOMAIN portfolio_state'
    BY <1>r, <2>1 DEF HasRow
  <2> QED
    BY <1>5, <1>e, <2>2 DEF HasRow
<1>6. ASSUME NEW c \in Consumers, NEW d \in Consumers \ {c},
             pc'[c] \in RowEnsured, c \in inserted'
      PROVE  ~HoldsKey(d, AssetOf(EventOf(c)))'
  BY <1>4, <1>6, <1>e, <1>g DEF HoldsKey, InsertedGoOn
<1> QED
  BY <1>3, <1>5, <1>6, <1>g DEF KeysExclusive

\* rollback is where only a duplicate leads to, and a processed event stays processed.
LEMMA RollbacksStep ==
  ASSUME TypeOK, RollbacksAreDuplicates, [Next]_vars
  PROVE  RollbacksAreDuplicates'
<1> SUFFICES ASSUME NEW c \in Consumers, pc'[c] = "rollback"
             PROVE  EventOf(c)' \in processed_events'
  BY DEF RollbacksAreDuplicates
<1>1. Moves(c)
  BY StepMoves
<1>2. pc[c] \in Processing /\ current'[c] = current[c]
  BY <1>1 DEF Moves, Processing
<1>3. EventOf(c)' = EventOf(c)
  BY <1>2, EventStable
<1>4. EventOf(c) \in processed_events
  BY <1>1 DEF Moves, RollbacksAreDuplicates, ClaimDuplicate
<1>5. processed_events \subseteq processed_events'
  BY StepTables DEF dbVars, CommitTx
<1> QED
  BY <1>3, <1>4, <1>5

-----------------------------------------------------------------------------
(* No lost update. *)

\* A row that a transaction has loaded is changed by no other before its end.
LEMMA NoStaleWriteStep ==
  ASSUME TypeOK, TypeOK', ClaimsExclusive', RowsExclusive, NoStaleWrite, [Next]_vars
  PROVE  NoStaleWrite'
<1> DEFINE Fresh(c, e) == LET before == PortfolioOf(AssetOf(e))
                          IN  /\ e \notin processed_events
                              /\ ~Rejects(before, e)
                              /\ tx[c].portfolio    = Applied(before, e)
                              /\ tx[c].realized_pnl = RealizedOf(before, e)
<1>1. NoStaleWrite <=> \A c \in Consumers : pc[c] \in Holding => Fresh(c, EventOf(c))
  BY DEF NoStaleWrite
<1>2. ASSUME NEW c \in Consumers, pc'[c] \in Holding
      PROVE  \E e : e = EventOf(c)' /\ Fresh(c, e)'
  <2>1. Moves(c)
    BY StepMoves
  <2>2. pc'[c] \in Claiming /\ pc'[c] \in Processing /\ pc'[c] # "claim_event"
    BY <1>2 DEF Processing, Claiming, Holding
  <2>3. pc[c] \in Processing /\ current'[c] = current[c]
    BY <2>1, <2>2 DEF Moves
  <2>4. PICK e \in Events : e = EventOf(c)
    BY <2>3, EventTypes
  <2>5. EventOf(c)' = e
    BY <2>3, <2>4, EventStable
  <2>6. e \notin processed_events'
    BY <2>2, <2>5 DEF ClaimsExclusive
  <2>7. CASE pc[c] \in Holding /\ tx'[c] = tx[c]
    <3>1. ASSUME NEW d \in Consumers, CommitTx(d), pc'[d] \notin Processing
          PROVE  PortfolioOf(AssetOf(e))' = PortfolioOf(AssetOf(e))
      <4>1. d # c /\ pc[d] \in Holding
        BY <2>2, <3>1 DEF CommitTx, Holding
      <4>2. PICK a : a = AssetOf(EventOf(d))
        OBVIOUS
      <4>3. a # AssetOf(e)
        BY <2>4, <2>7, <4>1, <4>2 DEF RowsExclusive
      <4>4. portfolio_state' = WithRow(a, tx[d].portfolio)
        BY <3>1, <4>2 DEF CommitTx
      <4> QED
        BY <4>3, <4>4 DEF WithRow, PortfolioOf, HasRow
    <3>2. PortfolioOf(AssetOf(e))' = PortfolioOf(AssetOf(e))
      BY <3>1, StepTables DEF dbVars, PortfolioOf, HasRow
    <3>3. Fresh(c, e)
      BY <1>1, <2>4, <2>7
    <3> QED
      BY <2>5, <2>6, <2>7, <3>2, <3>3
  <2>8. CASE LoadAndApply(c)
    <3>1. /\ Loaded(c) = PortfolioOf(AssetOf(e))
          /\ PortfolioOf(AssetOf(e))' = PortfolioOf(AssetOf(e))
          /\ ~Rejects(Loaded(c), e)
      BY <2>4, <2>8 DEF LoadAndApply, dbVars, Loaded, PortfolioOf, HasRow
    <3>2. tx'[c] = [portfolio |-> Applied(Loaded(c), e), realized_pnl |-> RealizedOf(Loaded(c), e)]
      BY <2>4, <2>8 DEF LoadAndApply, TypeOK
    <3> QED
      BY <2>5, <2>6, <3>1, <3>2
  <2> QED
    BY <1>2, <2>1, <2>7, <2>8 DEF Moves
<1> QED
  BY <1>2 DEF NoStaleWrite

-----------------------------------------------------------------------------
(* The snapshots. *)

\* What a COMMIT writes, under the locks that its transaction holds.
LEMMA CommitWrites ==
  ASSUME TypeOK, NoStaleWrite, NEW c \in Consumers, CommitTx(c)
  PROVE  \E e \in Events :
           LET a      == AssetOf(e)
               before == PortfolioOf(a)
           IN  /\ e = EventOf(c) /\ a \in Assets
               /\ e \notin processed_events
               /\ ~Rejects(before, e)
               /\ processed_events' = processed_events \union {e}
               /\ portfolio_state'  = WithRow(a, Applied(before, e))
               /\ pnl_snapshots'    =
                    [pnl_snapshots EXCEPT ![a] =
                       Append(@, [event_id           |-> e,
                                  realized_pnl       |-> RealizedOf(before, e),
                                  total_realized_pnl |-> Applied(before, e).total_realized_pnl])]
<1>1. pc[c] \in Holding /\ pc[c] \in Processing
  BY DEF CommitTx, Holding, Processing, Claiming
<1>2. EventOf(c) \in Events /\ AssetOf(EventOf(c)) \in Assets
  BY <1>1, EventTypes
<1>3. PICK e \in Events : e = EventOf(c) /\ AssetOf(e) \in Assets
  BY <1>2
<1>4. /\ e \notin processed_events
      /\ ~Rejects(PortfolioOf(AssetOf(e)), e)
      /\ tx[c].portfolio    = Applied(PortfolioOf(AssetOf(e)), e)
      /\ tx[c].realized_pnl = RealizedOf(PortfolioOf(AssetOf(e)), e)
  BY <1>1, <1>3 DEF NoStaleWrite
<1>5. /\ processed_events' = processed_events \union {e}
      /\ portfolio_state'  = WithRow(AssetOf(e), tx[c].portfolio)
      /\ pnl_snapshots'    =
           [pnl_snapshots EXCEPT ![AssetOf(e)] =
              Append(@, [event_id           |-> e,
                         realized_pnl       |-> tx[c].realized_pnl,
                         total_realized_pnl |-> tx[c].portfolio.total_realized_pnl])]
  BY <1>3 DEF CommitTx
<1> QED
  BY <1>3, <1>4, <1>5

\* The snapshots of an asset form a sequence; TLC has no use for saying so.
SnapshotSeqs == \A a \in Assets : \E S : pnl_snapshots[a] \in Seq(S)

\* Appending a snapshot adds one at the end and moves nothing.
LEMMA AppendFacts ==
  ASSUME NEW S, NEW s \in Seq(S), NEW x
  PROVE  /\ Append(s, x) \in Seq(S \union {x})
         /\ Len(s) \in Nat /\ DOMAIN s = 1 .. Len(s)
         /\ Len(Append(s, x)) = Len(s) + 1
         /\ DOMAIN Append(s, x) = 1 .. Len(s) + 1
         /\ Append(s, x)[Len(s) + 1] = x
         /\ \A i \in 1 .. Len(s) : Append(s, x)[i] = s[i]
<1> s \in Seq(S \union {x})
  OBVIOUS
<1> QED
  OBVIOUS

\* A commit appends to the snapshots of one asset.
LEMMA SnapshotSeqsStep ==
  ASSUME TypeOK, NoStaleWrite, SnapshotSeqs, [Next]_vars
  PROVE  SnapshotSeqs'
<1> SUFFICES ASSUME NEW a \in Assets PROVE \E S : pnl_snapshots'[a] \in Seq(S)
  BY DEF SnapshotSeqs
<1>1. PICK S : pnl_snapshots[a] \in Seq(S)
  BY DEF SnapshotSeqs
<1>2. ASSUME NEW c \in Consumers, CommitTx(c)
      PROVE  \E T : pnl_snapshots'[a] \in Seq(T)
  <2>1. PICK e \in Events : e = EventOf(c) /\ AssetOf(e) \in Assets
    BY <1>2, CommitWrites
  <2> DEFINE x == [event_id           |-> e,
                   realized_pnl       |-> tx[c].realized_pnl,
                   total_realized_pnl |-> tx[c].portfolio.total_realized_pnl]
  <2>2. pnl_snapshots' = [pnl_snapshots EXCEPT ![AssetOf(e)] = Append(@, x)]
    BY <1>2, <2>1 DEF CommitTx
  <2> HIDE DEF x
  <2>3. CASE AssetOf(e) = a
    <3>1. pnl_snapshots'[a] = Append(pnl_snapshots[a], x)
      BY <2>2, <2>3 DEF TypeOK
    <3>2. pnl_snapshots'[a] \in Seq(S \union {x})
      BY <1>1, <3>1, AppendFacts
    <3> QED
      BY <3>2
  <2>4. CASE AssetOf(e) # a
    <3>1. pnl_snapshots'[a] = pnl_snapshots[a]
      BY <2>2, <2>4 DEF TypeOK
    <3> QED
      BY <1>1, <3>1
  <2> QED
    BY <2>3, <2>4
<1> QED
  BY <1>1, <1>2, StepTables DEF dbVars

\* The two parts of OneSnapshotPerEvent, and the account of one asset.
TrailOfClaims(a) ==
  \A i \in DOMAIN pnl_snapshots[a] :
    /\ pnl_snapshots[a][i].event_id \in processed_events
    /\ AssetOf(pnl_snapshots[a][i].event_id) = a
    /\ \A j \in DOMAIN pnl_snapshots[a] :
         pnl_snapshots[a][i].event_id = pnl_snapshots[a][j].event_id => i = j

\* Every processed event has its snapshot.
ClaimsInTrail ==
  \A e \in processed_events : \E i \in DOMAIN pnl_snapshots[AssetOf(e)] :
    pnl_snapshots[AssetOf(e)][i].event_id = e

\* A commit writes the claim and the snapshot together.
LEMMA OneSnapshotStep ==
  ASSUME TypeOK, NoStaleWrite, SnapshotSeqs, OneSnapshotPerEvent, [Next]_vars
  PROVE  OneSnapshotPerEvent'
<1>1. ASSUME NEW c \in Consumers, CommitTx(c)
      PROVE  OneSnapshotPerEvent'
  <2> DEFINE Written(e) ==
               [event_id           |-> e,
                realized_pnl       |-> RealizedOf(PortfolioOf(AssetOf(e)), e),
                total_realized_pnl |-> Applied(PortfolioOf(AssetOf(e)), e).total_realized_pnl]
  <2>1. PICK e \in Events :
          /\ AssetOf(e) \in Assets /\ e \notin processed_events
          /\ processed_events' = processed_events \union {e}
          /\ pnl_snapshots' = [pnl_snapshots EXCEPT ![AssetOf(e)] = Append(@, Written(e))]
    BY <1>1, CommitWrites
  <2> DEFINE a == AssetOf(e)
             x == Written(e)
  <2>2. x.event_id = e
    OBVIOUS
  <2>3. PICK S : pnl_snapshots[a] \in Seq(S)
    BY <2>1 DEF SnapshotSeqs
  <2> DEFINE n == Len(pnl_snapshots[a])
  <2>4. \A b \in Assets : b # a => pnl_snapshots'[b] = pnl_snapshots[b]
    BY <2>1 DEF TypeOK
  <2>5. pnl_snapshots'[a] = Append(pnl_snapshots[a], x)
    BY <2>1 DEF TypeOK
  <2> HIDE DEF x
  <2>6. /\ n \in Nat /\ DOMAIN pnl_snapshots[a] = 1 .. n
        /\ DOMAIN pnl_snapshots'[a] = 1 .. n + 1
        /\ pnl_snapshots'[a][n + 1] = x
        /\ \A i \in 1 .. n : pnl_snapshots'[a][i] = pnl_snapshots[a][i]
    BY <2>3, <2>5, AppendFacts
  <2> HIDE DEF n
  <2>7. \A b \in Assets : TrailOfClaims(b)
    BY DEF OneSnapshotPerEvent, TrailOfClaims
  <2>8. ASSUME NEW b \in Assets PROVE TrailOfClaims(b)'
    <3>1. CASE b # a
      BY <2>1, <2>4, <2>7, <3>1 DEF TrailOfClaims
    <3>2. CASE b = a
      <4>1. \A i \in 1 .. n : /\ pnl_snapshots'[a][i].event_id \in processed_events
                              /\ AssetOf(pnl_snapshots'[a][i].event_id) = a
        BY <2>1, <2>6, <2>7 DEF TrailOfClaims
      <4>2. \A i, j \in 1 .. n :
              pnl_snapshots'[a][i].event_id = pnl_snapshots'[a][j].event_id => i = j
        BY <2>1, <2>6, <2>7 DEF TrailOfClaims
      <4>3. pnl_snapshots'[a][n + 1].event_id = e
        BY <2>2, <2>6
      <4>4. \A i \in 1 .. n + 1 : i \in 1 .. n \/ i = n + 1
        BY <2>6
      <4> QED
        BY <2>1, <2>6, <3>2, <4>1, <4>2, <4>3, <4>4 DEF TrailOfClaims
    <3> QED
      BY <3>1, <3>2
  <2>9. ClaimsInTrail'
    <3> SUFFICES ASSUME NEW f \in processed_events'
                 PROVE  \E i \in DOMAIN pnl_snapshots'[AssetOf(f)] :
                          pnl_snapshots'[AssetOf(f)][i].event_id = f
      BY DEF ClaimsInTrail, AssetOf
    <3>1. CASE f = e
      BY <2>2, <2>6, <3>1
    <3>2. CASE f \in processed_events
      <4>1. PICK i \in DOMAIN pnl_snapshots[AssetOf(f)] :
              pnl_snapshots[AssetOf(f)][i].event_id = f
        BY <3>2 DEF OneSnapshotPerEvent
      <4>2. AssetOf(f) \in Assets
        BY <3>2, TradeOfAssumption DEF TypeOK, AssetOf, TradeEvent
      <4> QED
        BY <2>4, <2>6, <4>1, <4>2
    <3> QED
      BY <2>1, <3>1, <3>2
  <2> QED
    BY <2>8, <2>9 DEF OneSnapshotPerEvent, TrailOfClaims, ClaimsInTrail, AssetOf
<1>2. CASE UNCHANGED dbVars
  BY <1>2 DEF dbVars, OneSnapshotPerEvent, AssetOf
<1> QED
  BY <1>1, <1>2, StepTables

\* The snapshot that is appended continues the running total.
LEMMA AuditTrailStep ==
  ASSUME TypeOK, NoStaleWrite, SnapshotSeqs, AuditTrail, [Next]_vars
  PROVE  AuditTrail'
<1> DEFINE Total(s, i) == IF i = 0 THEN 0 ELSE s[i].total_realized_pnl
           Entry(s, i) ==
             IF TradeOf[s[i].event_id].side = "sell"
             THEN Total(s, i) = Total(s, i - 1) + s[i].realized_pnl
             ELSE Total(s, i) = Total(s, i - 1) /\ s[i].realized_pnl = 0
           Account(s, row) ==
             /\ \A i \in DOMAIN s : Entry(s, i)
             /\ row.total_realized_pnl = Total(s, Len(s))
<1>1. AuditTrail <=> \A a \in Assets : Account(pnl_snapshots[a], PortfolioOf(a))
  BY DEF AuditTrail, RunningTotal
<1>2. AuditTrail' <=> \A a \in Assets : Account(pnl_snapshots'[a], PortfolioOf(a)')
  BY DEF AuditTrail, RunningTotal, PortfolioOf, HasRow
<1>3. ASSUME NEW c \in Consumers, CommitTx(c), NEW b \in Assets
      PROVE  Account(pnl_snapshots'[b], PortfolioOf(b)')
  <2>1. PICK e \in Events :
          LET before == PortfolioOf(AssetOf(e))
              after  == Applied(before, e)
          IN  /\ AssetOf(e) \in Assets /\ ~Rejects(before, e)
              /\ portfolio_state' = WithRow(AssetOf(e), after)
              /\ pnl_snapshots' =
                   [pnl_snapshots EXCEPT ![AssetOf(e)] =
                      Append(@, [event_id           |-> e,
                                 realized_pnl       |-> RealizedOf(before, e),
                                 total_realized_pnl |-> after.total_realized_pnl])]
    BY <1>3, CommitWrites
  <2> DEFINE a == AssetOf(e)
             before == PortfolioOf(a)
             after  == Applied(before, e)
             x == [event_id           |-> e,
                   realized_pnl       |-> RealizedOf(before, e),
                   total_realized_pnl |-> after.total_realized_pnl]
             s == pnl_snapshots[a]
             t == pnl_snapshots'[a]
             n == Len(s)
  <2>2. CASE b # a
    <3> HIDE DEF after
    <3>1. pnl_snapshots'[b] = pnl_snapshots[b] /\ PortfolioOf(b)' = PortfolioOf(b)
      BY <2>1, <2>2, SetRow DEF TypeOK
    <3> QED
      BY <1>1, <3>1
  <2>3. CASE b = a
    <3>1. t = Append(s, x)
      BY <2>1 DEF TypeOK
    <3>2. PICK S : s \in Seq(S)
      BY <2>1 DEF SnapshotSeqs
    <3>3. x.event_id = e /\ x.realized_pnl = RealizedOf(before, e)
          /\ x.total_realized_pnl = after.total_realized_pnl
      OBVIOUS
    <3>4. IF TradeOf[e].side = "sell"
          THEN after.total_realized_pnl = before.total_realized_pnl + RealizedOf(before, e)
          ELSE /\ after.total_realized_pnl = before.total_realized_pnl
               /\ RealizedOf(before, e) = 0
      <4>1. IsPortfolio(before)
        BY <2>1, LoadedShape
      <4>2. CASE TradeOf[e].side = "sell"
        BY <4>2 DEF Applied
      <4>3. CASE TradeOf[e].side # "sell"
        <5>1. TradeOf[e].side = "buy"
          BY <2>1, <4>3, TradeOfAssumption DEF Rejects, TradeEvent
        <5> QED
          BY <4>1, <5>1 DEF Applied, RealizedOf, IsPortfolio
      <4> QED
        BY <4>2, <4>3
    <3>5. PortfolioOf(a)' = after
      <4>1. portfolio_state' = WithRow(a, after)
        BY <2>1
      <4> HIDE DEF after
      <4> QED
        BY <4>1 DEF WithRow, PortfolioOf, HasRow
    <3>6. before.total_realized_pnl = Total(s, n)
      BY <1>1, <2>1
    <3> HIDE DEF x, n, t, before, after
    <3>7. /\ n \in Nat /\ DOMAIN s = 1 .. n /\ Len(t) = n + 1
          /\ DOMAIN t = 1 .. n + 1
          /\ t[n + 1] = x
          /\ \A i \in 1 .. n : t[i] = s[i]
      BY <3>1, <3>2, AppendFacts DEF n
    <3>8. \A i \in 0 .. n : Total(t, i) = Total(s, i)
      BY <3>7
    <3>9. Total(t, n + 1) = after.total_realized_pnl
      BY <3>3, <3>7
    <3>10. ASSUME NEW i \in 1 .. n PROVE Entry(t, i)
      <4>1. Entry(s, i)
        BY <1>1, <2>1, <3>7
      <4>2. i \in 0 .. n /\ i - 1 \in 0 .. n /\ t[i] = s[i]
        BY <3>7
      <4> QED
        BY <3>8, <4>1, <4>2
    <3>11. Entry(t, n + 1)
      <4>1. (n + 1) - 1 = n /\ n \in 0 .. n
        BY <3>7
      <4>2. Total(t, n) = before.total_realized_pnl
        BY <3>6, <3>8, <4>1
      <4> QED
        BY <3>3, <3>4, <3>7, <3>9, <4>1, <4>2
    <3>12. \A i \in DOMAIN t : Entry(t, i)
      BY <3>7, <3>10, <3>11
    <3>13. Account(t, PortfolioOf(a)')
      BY <3>1, <3>5, <3>7, <3>9, <3>12
    <3> QED
      BY <2>3, <3>13 DEF t
  <2> QED
    BY <2>2, <2>3
<1>4. CASE UNCHANGED dbVars
  BY <1>4 DEF dbVars, AuditTrail, RunningTotal, PortfolioOf, HasRow
<1> QED
  BY <1>2, <1>3, <1>4, StepTables

-----------------------------------------------------------------------------
(* Offsets. *)

\* A step that neither Kafka nor a receive takes: an instance keeps its record
\* or lets go of it.
Quiet == /\ UNCHANGED kafkaVars
         /\ \A c \in Consumers :
              /\ pc'[c] \in Processing => pc[c] \in Processing /\ current'[c] = current[c]
              /\ pc'[c] = "down" => pc[c] = "down"

\* The steps that are not Quiet.
Loud == \/ \E m \in Messages : Publish(m)
        \/ \E p \in Partitions :
             \/ Revoke(p) \/ StoreOffset(p) \/ LoseOffset(p)
             \/ \E c \in Consumers : Assign(p, c) \/ SkipPoison(c, p) \/ Receive(c, p)
        \/ \E c \in Consumers :
             \/ pc[c] \in Processing /\ NextTurn(c) /\ CommitMessage(c)
                  /\ UNCHANGED <<log, owner, position, committed>>
             \/ Dies(c)

\* Every action is of one of the two kinds.
LEMMA QuietOrLoud ==
  ASSUME TypeOK, [Next]_vars
  PROVE  Quiet \/ Loud
<1>t. pc \in [Consumers -> Processing \union {"recv", "down"}] /\ DOMAIN current = Consumers
  BY DEF TypeOK
<1> USE DEF Quiet
<1>1. ASSUME NEW c \in Consumers, ClaimNew(c) PROVE Quiet
  BY <1>1, <1>t DEF ClaimNew, CanClaim, Processing, Claiming
<1>2. ASSUME NEW c \in Consumers, ClaimDuplicate(c) PROVE Quiet
  BY <1>2, <1>t DEF ClaimDuplicate, CanClaim, Processing, Claiming
<1>3. ASSUME NEW c \in Consumers, InsertRow(c) PROVE Quiet
  BY <1>3, <1>t DEF InsertRow, Processing, Claiming
<1>4. ASSUME NEW c \in Consumers, RowExists(c) PROVE Quiet
  BY <1>4, <1>t DEF RowExists, Processing, Claiming
<1>5. ASSUME NEW c \in Consumers, LoadAndApply(c) PROVE Quiet
  BY <1>5, <1>t DEF LoadAndApply, CanLoad, Processing, Claiming
<1>6. ASSUME NEW c \in Consumers, SavePortfolio(c) PROVE Quiet
  BY <1>6, <1>t DEF SavePortfolio, Processing, Claiming
<1>7. ASSUME NEW c \in Consumers, SavePnlSnapshot(c) PROVE Quiet
  BY <1>7, <1>t DEF SavePnlSnapshot, Processing, Claiming
<1>8. ASSUME NEW c \in Consumers, ReturnErr(c), UNCHANGED kafkaVars PROVE Quiet
  BY <1>8, <1>t DEF ReturnErr, NextTurn, Processing, Claiming
<1>9. ASSUME NEW c \in Consumers, Restart(c) PROVE Quiet
  BY <1>9, <1>t DEF Restart, Processing, Claiming
<1>10. CASE UNCHANGED vars
  BY <1>10 DEF vars, instanceVars
<1> HIDE DEF Quiet
<1>11. ASSUME NEW c \in Consumers, Rollback(c) PROVE Loud
  BY <1>11 DEF Loud, Rollback, Processing
<1>12. ASSUME NEW c \in Consumers, Commit(c) PROVE Loud
  BY <1>12 DEF Loud, Commit, CommitTx, Processing, Claiming
<1> QED
  BY <1>1, <1>2, <1>3, <1>4, <1>5, <1>6, <1>7, <1>8, <1>9, <1>10, <1>11, <1>12
     DEF Loud, Next, Process, Poll, LoadAndReject, StatementFails, CommitUnacknowledged,
         Crash, CrashInCommit

\* A commit in flight is of what its owner has received, and StoreOffset stores it.
LEMMA OffsetsInOrderStep ==
  ASSUME TypeOK, OffsetsInOrder, [Next]_vars
  PROVE  OffsetsInOrder'
<1>t. /\ owner \in [Partitions -> Consumers \union {NoConsumer}]
      /\ position \in [Partitions -> Nat] /\ pending \in [Partitions -> Nat]
      /\ committed \in [Partitions -> Nat]
      /\ pc \in [Consumers -> Processing \union {"recv", "down"}]
      /\ DOMAIN current = Consumers
      /\ \A p \in Partitions : log[p] \in Seq(Messages) /\ Len(log[p]) \in Nat
  BY DEF TypeOK
<1>o. \A p \in Partitions : owner[p] # NoConsumer => owner[p] \in Consumers
  BY <1>t
<1>1. CASE Quiet
  BY <1>1, <1>o DEF Quiet, kafkaVars, OffsetsInOrder
<1>2. ASSUME NEW m \in Messages, Publish(m) PROVE OffsetsInOrder'
  <2>1. \A p \in Partitions : Len(log[p]) <= Len(log'[p]) /\ Len(log'[p]) \in Nat
    BY LogGrows
  <2>2. UNCHANGED <<owner, position, pending, committed, pc, current>>
    BY <1>2 DEF Publish, instanceVars
  <2>3. ASSUME NEW p \in Partitions, NEW n \in Nat, n <= Len(log[p]) PROVE n <= Len(log'[p])
    BY <1>t, <2>1, <2>3
  <2>4. ASSUME NEW p \in Partitions
        PROVE  /\ committed'[p] <= Len(log'[p]) /\ pending'[p] <= Len(log'[p])
               /\ pending'[p] # 0 => owner'[p] # NoConsumer /\ committed'[p] <= pending'[p]
               /\ owner'[p] # NoConsumer =>
                    /\ pc'[owner'[p]] # "down"
                    /\ committed'[p] <= position'[p] /\ pending'[p] <= position'[p]
                    /\ position'[p] <= Len(log'[p])
                    /\ pc'[owner'[p]] \in Processing /\ current'[owner'[p]].partition = p
                         => current'[owner'[p]].offset = position'[p]
    <3>1. /\ committed[p] <= Len(log'[p]) /\ pending[p] <= Len(log'[p])
          /\ owner[p] # NoConsumer => position[p] <= Len(log'[p])
      BY <1>t, <2>3 DEF OffsetsInOrder
    <3>2. /\ pending[p] # 0 => owner[p] # NoConsumer /\ committed[p] <= pending[p]
          /\ owner[p] # NoConsumer =>
               /\ pc[owner[p]] # "down" /\ committed[p] <= position[p] /\ pending[p] <= position[p]
               /\ pc[owner[p]] \in Processing /\ current[owner[p]].partition = p
                    => current[owner[p]].offset = position[p]
      BY DEF OffsetsInOrder
    <3> QED
      BY <2>2, <3>1, <3>2
  <2> QED
    BY <2>4 DEF OffsetsInOrder
<1>3. ASSUME NEW p \in Partitions, NEW c \in Consumers, Assign(p, c) PROVE OffsetsInOrder'
  BY <1>3, <1>t, NoConsumerAssumption DEF Assign, instanceVars, OffsetsInOrder, Processing, Claiming
<1>4. ASSUME NEW p \in Partitions, Revoke(p) PROVE OffsetsInOrder'
  BY <1>4, <1>t DEF Revoke, instanceVars, OffsetsInOrder
<1>5. ASSUME NEW p \in Partitions, StoreOffset(p) PROVE OffsetsInOrder'
  BY <1>5, <1>t DEF StoreOffset, instanceVars, OffsetsInOrder
<1>6. ASSUME NEW p \in Partitions, LoseOffset(p) PROVE OffsetsInOrder'
  BY <1>6, <1>t DEF LoseOffset, instanceVars, OffsetsInOrder
<1>7. ASSUME NEW p \in Partitions, NEW c \in Consumers, SkipPoison(c, p) PROVE OffsetsInOrder'
  <2>1. /\ pc[c] = "recv" /\ owner[p] = c /\ position[p] + 1 <= Len(log[p])
        /\ position[p] + 1 \in Nat /\ committed[p] <= position[p]
    BY <1>7, <1>t, NoConsumerAssumption DEF SkipPoison, CanReceive, OffsetsInOrder
  <2>2. UNCHANGED <<log, owner, committed, pc, current>>
    BY <1>7 DEF SkipPoison, instanceVars
  <2>3. /\ position' = [position EXCEPT ![p] = position[p] + 1]
        /\ pending'  = [pending EXCEPT ![p] = position[p] + 1]
    BY <1>7 DEF SkipPoison
  <2>4. "recv" \notin Processing /\ "recv" # "down"
    BY DEF Processing, Claiming
  <2>5. /\ position'[p] = position[p] + 1 /\ pending'[p] = position[p] + 1
        /\ \A q \in Partitions : q # p => position'[q] = position[q] /\ pending'[q] = pending[q]
    BY <1>t, <2>3
  <2>6. c # NoConsumer
    BY NoConsumerAssumption
  <2>7. OffsetsInOrder
    OBVIOUS
  <2> QED
    BY <1>t, <2>1, <2>2, <2>4, <2>5, <2>6, <2>7 DEF OffsetsInOrder
<1>8. ASSUME NEW p \in Partitions, NEW c \in Consumers, Receive(c, p) PROVE OffsetsInOrder'
  BY <1>8, <1>t DEF Receive, CanReceive, OffsetsInOrder, Processing, Claiming
<1>9. ASSUME NEW c \in Consumers, pc[c] \in Processing, NextTurn(c), CommitMessage(c),
             UNCHANGED <<log, owner, position, committed>>
      PROVE  OffsetsInOrder'
  <2>1. current[c].partition \in Partitions /\ current[c].offset \in Nat \ {0}
    BY <1>9 DEF TypeOK
  <2>2. \A q \in Partitions :
          pending'[q] = IF q = current[c].partition /\ owner[q] = c
                        THEN current[c].offset ELSE pending[q]
    BY <1>9, <1>t DEF CommitMessage
  <2>3. \A d \in Consumers : IF d = c THEN pc'[d] = "recv"
                             ELSE pc'[d] = pc[d] /\ current'[d] = current[d]
    BY <1>9, <1>t DEF NextTurn
  <2>4. "recv" \notin Processing /\ "recv" # "down"
    BY DEF Processing, Claiming
  <2>5. UNCHANGED <<log, owner, position, committed>>
    BY <1>9
  <2>6. \A q \in Partitions : owner[q] = c /\ q = current[c].partition
          => current[c].offset = position[q]
    BY <1>9, NoConsumerAssumption DEF OffsetsInOrder
  <2>7. ASSUME NEW q \in Partitions
        PROVE  /\ committed[q] <= Len(log[q]) /\ pending'[q] <= Len(log[q])
               /\ pending'[q] # 0 => owner[q] # NoConsumer /\ committed[q] <= pending'[q]
               /\ owner[q] # NoConsumer =>
                    /\ pc'[owner[q]] # "down"
                    /\ committed[q] <= position[q] /\ pending'[q] <= position[q]
                    /\ position[q] <= Len(log[q])
    BY <1>9, <1>o, <1>t, <2>1, <2>2, <2>3, <2>4, <2>6, NoConsumerAssumption DEF OffsetsInOrder
  <2>8. ASSUME NEW q \in Partitions, owner[q] # NoConsumer,
               pc'[owner[q]] \in Processing, current'[owner[q]].partition = q
        PROVE  current'[owner[q]].offset = position[q]
    <3>1. owner[q] # c /\ owner[q] \in Consumers
      BY <1>o, <2>3, <2>4, <2>8
    <3>2. pc'[owner[q]] = pc[owner[q]] /\ current'[owner[q]] = current[owner[q]]
      BY <2>3, <3>1
    <3> QED
      BY <2>8, <3>2 DEF OffsetsInOrder
  <2> QED
    BY <2>5, <2>7, <2>8 DEF OffsetsInOrder
<1>10. ASSUME NEW c \in Consumers, Dies(c) PROVE OffsetsInOrder'
  BY <1>10, <1>t, NoConsumerAssumption DEF Dies, OffsetsInOrder, Processing, Claiming
<1> QED
  BY <1>1, <1>2, <1>3, <1>4, <1>5, <1>6, <1>7, <1>8, <1>9, <1>10, QuietOrLoud DEF Loud

-----------------------------------------------------------------------------
(* At least once. *)

\* What has been attempted stays attempted.
LEMMA AttemptedGrows ==
  ASSUME TypeOK, [Next]_vars
  PROVE  processed_events \subseteq processed_events' /\ failed \subseteq failed'
<1>1. processed_events \subseteq processed_events'
  BY StepTables DEF dbVars, CommitTx
<1>2. failed \subseteq failed'
  BY DEF Next, vars, instanceVars, Process, Poll, Publish, Assign, Revoke,
         StoreOffset, LoseOffset, SkipPoison, Receive, ClaimNew, ClaimDuplicate, InsertRow,
         RowExists, LoadAndApply, LoadAndReject, ReturnErr, SavePortfolio, SavePnlSnapshot,
         Rollback, Commit, StatementFails, CommitUnacknowledged, Crash, CrashInCommit, Dies,
         Restart
<1> QED
  BY <1>1, <1>2

\* A record leaves an instance's hand only with a result, or with the instance.
LEMMA TurnEnds ==
  ASSUME TypeOK, RollbacksAreDuplicates, [Next]_vars, NEW c \in Consumers,
         pc[c] \in Processing
  PROVE  \/ pc'[c] \in Processing /\ current'[c] = current[c]
         \/ EventOf(c) \in processed_events' \union failed'
         \/ Dies(c)
<1> DEFINE Goal == \/ pc'[c] \in Processing /\ current'[c] = current[c]
                   \/ EventOf(c) \in processed_events' \union failed'
                   \/ Dies(c)
<1>t. pc \in [Consumers -> Processing \union {"recv", "down"}] /\ DOMAIN current = Consumers
  BY DEF TypeOK
<1>1. ASSUME NEW d \in Consumers, ReturnErr(d) PROVE Goal
  BY <1>1, <1>t DEF ReturnErr, NextTurn
<1>2. ASSUME NEW d \in Consumers, Rollback(d) PROVE Goal
  <2>1. CASE d = c
    BY <1>2, <2>1 DEF Rollback, RollbacksAreDuplicates, dbVars
  <2>2. CASE d # c
    BY <1>2, <1>t, <2>2 DEF Rollback, NextTurn
  <2> QED
    BY <2>1, <2>2
<1>3. ASSUME NEW d \in Consumers, Commit(d) PROVE Goal
  BY <1>3, <1>t DEF Commit, CommitTx, NextTurn
<1>4. ASSUME NEW d \in Consumers, Dies(d) PROVE Goal
  BY <1>4, <1>t DEF Dies
<1>5. ASSUME NEW d \in Consumers, Restart(d) PROVE Goal
  BY <1>5, <1>t DEF Restart, Processing, Claiming
<1>6. ASSUME NEW d \in Consumers, NEW p \in Partitions, Receive(d, p) PROVE Goal
  BY <1>6, <1>t DEF Receive, CanReceive, Processing, Claiming
<1>7. ASSUME NEW d \in Consumers,
             \/ ClaimNew(d) \/ ClaimDuplicate(d) \/ InsertRow(d) \/ RowExists(d)
             \/ LoadAndApply(d) \/ SavePortfolio(d) \/ SavePnlSnapshot(d)
      PROVE  Goal
  <2>1. current' = current /\ \E x \in Processing : pc' = [pc EXCEPT ![d] = x]
    BY <1>7 DEF ClaimNew, ClaimDuplicate, InsertRow, RowExists, LoadAndApply, SavePortfolio,
                SavePnlSnapshot, Processing, Claiming
  <2> QED
    BY <1>t, <2>1
<1>8. ASSUME UNCHANGED <<pc, current>> PROVE Goal
  BY <1>8
<1> QED
  BY <1>1, <1>2, <1>3, <1>4, <1>5, <1>6, <1>7, <1>8
     DEF Next, vars, instanceVars, Process, Poll, Publish, Assign, Revoke, StoreOffset,
         LoseOffset, SkipPoison, LoadAndReject, StatementFails, CommitUnacknowledged, Crash,
         CrashInCommit

\* How far the owner of a partition has received, and who it is, change only when
\* it receives a record or is assigned the partition.
LEMMA OwnerMoves ==
  ASSUME TypeOK, [Next]_vars, NEW p \in Partitions, owner'[p] # NoConsumer
  PROVE  \/ owner'[p] = owner[p] /\ position'[p] = position[p]
         \/ \E c \in Consumers : Assign(p, c)
         \/ \E c \in Consumers : SkipPoison(c, p) \/ Receive(c, p)
<1> DEFINE Goal == \/ owner'[p] = owner[p] /\ position'[p] = position[p]
                   \/ \E c \in Consumers : Assign(p, c)
                   \/ \E c \in Consumers : SkipPoison(c, p) \/ Receive(c, p)
<1>t. owner \in [Partitions -> Consumers \union {NoConsumer}] /\ position \in [Partitions -> Nat]
  BY DEF TypeOK
<1>1. ASSUME NEW q \in Partitions, NEW c \in Consumers, Assign(q, c) PROVE Goal
  BY <1>1, <1>t DEF Assign
<1>2. ASSUME NEW q \in Partitions, NEW c \in Consumers, SkipPoison(c, q) PROVE Goal
  BY <1>2, <1>t DEF SkipPoison
<1>3. ASSUME NEW q \in Partitions, NEW c \in Consumers, Receive(c, q) PROVE Goal
  BY <1>3, <1>t DEF Receive
<1>4. ASSUME NEW q \in Partitions, Revoke(q) PROVE Goal
  BY <1>4, <1>t DEF Revoke
<1>5. ASSUME NEW c \in Consumers, Dies(c) PROVE Goal
  BY <1>5, <1>t DEF Dies
<1>6. ASSUME UNCHANGED <<owner, position>> PROVE Goal
  BY <1>6
<1> QED
  BY <1>1, <1>2, <1>3, <1>4, <1>5, <1>6, QuietOrLoud
     DEF Quiet, Loud, kafkaVars, Publish, StoreOffset, LoseOffset

\* What the owner of a partition has received since the committed offset is attempted
\* or in its hands.
LEMMA ReceivedStep ==
  ASSUME TypeOK, TypeOK', OffsetsInOrder, RollbacksAreDuplicates, NoUnattemptedSkip,
         ReceivedIsAttempted, [Next]_vars
  PROVE  ReceivedIsAttempted'
<1> SUFFICES ASSUME NEW p \in Partitions, owner'[p] # NoConsumer,
                    NEW o \in DOMAIN log'[p], o <= position'[p]
             PROVE  \/ log'[p][o] \in PoisonPills \union processed_events' \union failed'
                    \/ /\ pc'[owner'[p]] \in Processing
                       /\ current'[owner'[p]] = [partition |-> p, offset |-> o]
  BY DEF ReceivedIsAttempted, Attempted
<1>t. /\ log[p] \in Seq(Messages) /\ Len(log[p]) \in Nat /\ DOMAIN log[p] = 1 .. Len(log[p])
      /\ position[p] \in Nat /\ committed[p] \in Nat /\ owner[p] \in Consumers \union {NoConsumer}
      /\ position \in [Partitions -> Nat] /\ owner \in [Partitions -> Consumers \union {NoConsumer}]
      /\ pc \in [Consumers -> Processing \union {"recv", "down"}] /\ DOMAIN current = Consumers
  BY DEF TypeOK
<1>o. o \in Nat /\ o >= 1
  BY DEF TypeOK
<1>g. \A i \in DOMAIN log[p] : log'[p][i] = log[p][i]
  BY LogGrows
<1>a. processed_events \subseteq processed_events' /\ failed \subseteq failed'
  BY AttemptedGrows
<1>1. ASSUME owner'[p] = owner[p], o <= position[p]
      PROVE  \/ log'[p][o] \in PoisonPills \union processed_events' \union failed'
             \/ /\ pc'[owner[p]] \in Processing
                /\ current'[owner[p]] = [partition |-> p, offset |-> o]
  <2>1. owner[p] \in Consumers /\ owner[p] # NoConsumer
    BY <1>1, <1>t
  <2>2. o \in DOMAIN log[p]
    BY <1>1, <1>t, <1>o, <2>1 DEF OffsetsInOrder
  <2>3. CASE Attempted(log[p][o])
    BY <1>a, <1>g, <2>2, <2>3 DEF Attempted
  <2>4. CASE pc[owner[p]] \in Processing /\ current[owner[p]] = [partition |-> p, offset |-> o]
    <3>1. EventOf(owner[p]) = log[p][o]
      BY <2>4 DEF EventOf
    <3>2. ~Dies(owner[p])
      BY <1>1, <1>t, <2>1 DEF Dies
    <3>3. \/ pc'[owner[p]] \in Processing /\ current'[owner[p]] = current[owner[p]]
          \/ EventOf(owner[p]) \in processed_events' \union failed'
      BY <2>1, <2>4, <3>2, TurnEnds
    <3> QED
      BY <1>g, <2>2, <2>4, <3>1, <3>3
  <2> QED
    BY <1>1, <2>1, <2>2, <2>3, <2>4 DEF ReceivedIsAttempted
<1>2. ASSUME NEW c \in Consumers, Assign(p, c)
      PROVE  log'[p][o] \in PoisonPills \union processed_events' \union failed'
  <2>1. o \in DOMAIN log[p] /\ o <= committed[p]
    BY <1>2, <1>t DEF Assign
  <2> QED
    BY <1>a, <1>g, <2>1 DEF NoUnattemptedSkip, Attempted
<1>3. ASSUME NEW c \in Consumers, SkipPoison(c, p) \/ Receive(c, p)
      PROVE  \/ log'[p][o] \in PoisonPills \union processed_events' \union failed'
             \/ /\ pc'[owner'[p]] \in Processing
                /\ current'[owner'[p]] = [partition |-> p, offset |-> o]
  <2>1. owner'[p] = owner[p] /\ owner[p] = c /\ position'[p] = position[p] + 1 /\ log' = log
    BY <1>3, <1>t DEF SkipPoison, Receive, CanReceive
  <2>2. CASE o <= position[p]
    BY <1>1, <2>1, <2>2
  <2>3. CASE o = position[p] + 1
    <3>1. CASE SkipPoison(c, p)
      BY <2>1, <2>3, <3>1 DEF SkipPoison, Upcoming
    <3>2. CASE Receive(c, p)
      <4>1. pc'[c] = "claim_event" /\ current'[c] = [partition |-> p, offset |-> o]
        BY <1>t, <2>3, <3>2 DEF Receive
      <4> QED
        BY <2>1, <4>1 DEF Processing
    <3> QED
      BY <1>3, <3>1, <3>2
  <2> QED
    BY <1>o, <1>t, <2>1, <2>2, <2>3
<1> QED
  BY <1>1, <1>2, <1>3, OwnerMoves

\* An offset is committed for a record that was attempted, and all before it were.
LEMMA NoUnattemptedSkipStep ==
  ASSUME TypeOK, OffsetsInOrder, RollbacksAreDuplicates, NoUnattemptedSkip,
         ReceivedIsAttempted, [Next]_vars
  PROVE  NoUnattemptedSkip'
<1> SUFFICES ASSUME NEW p \in Partitions, NEW o \in DOMAIN log'[p],
                    o <= committed'[p] \/ o <= pending'[p]
             PROVE  log'[p][o] \in PoisonPills \union processed_events' \union failed'
  BY DEF NoUnattemptedSkip, Attempted
<1>t. /\ log[p] \in Seq(Messages) /\ Len(log[p]) \in Nat /\ DOMAIN log[p] = 1 .. Len(log[p])
      /\ position[p] \in Nat /\ committed[p] \in Nat /\ pending[p] \in Nat
      /\ pending \in [Partitions -> Nat] /\ committed \in [Partitions -> Nat]
  BY DEF TypeOK
<1>o. o \in Nat /\ o >= 1
  <2>1. log'[p] \in Seq(Messages)
    BY LogGrows
  <2> QED
    BY <2>1
<1>g. \A i \in DOMAIN log[p] : log'[p][i] = log[p][i]
  BY LogGrows
<1>a. processed_events \subseteq processed_events' /\ failed \subseteq failed'
  BY AttemptedGrows
<1>1. ASSUME o <= committed[p] \/ o <= pending[p]
      PROVE  log'[p][o] \in PoisonPills \union processed_events' \union failed'
  <2>1. o \in DOMAIN log[p]
    BY <1>1, <1>o, <1>t DEF OffsetsInOrder
  <2> QED
    BY <1>1, <1>a, <1>g, <2>1 DEF NoUnattemptedSkip, Attempted
<1>2. ASSUME UNCHANGED <<pending, committed>>
      PROVE  o <= committed[p] \/ o <= pending[p]
  BY <1>2
<1>3. ASSUME NEW q \in Partitions, StoreOffset(q) \/ LoseOffset(q) \/ Revoke(q)
      PROVE  o <= committed[p] \/ o <= pending[p]
  <2>1. CASE StoreOffset(q)
    BY <1>o, <1>t, <2>1 DEF StoreOffset
  <2>2. CASE LoseOffset(q)
    BY <1>o, <1>t, <2>2 DEF LoseOffset
  <2>3. CASE Revoke(q)
    BY <1>o, <1>t, <2>3 DEF Revoke
  <2> QED
    BY <1>3, <2>1, <2>2, <2>3
<1>4. ASSUME NEW c \in Consumers, Dies(c)
      PROVE  o <= committed[p] \/ o <= pending[p]
  BY <1>4, <1>o, <1>t DEF Dies
<1>5. ASSUME NEW c \in Consumers, NEW q \in Partitions, SkipPoison(c, q)
      PROVE  log'[p][o] \in PoisonPills \union processed_events' \union failed'
  <2>1. CASE o <= committed[p] \/ o <= pending[p]
    BY <1>1, <2>1
  <2>2. CASE ~(o <= committed[p] \/ o <= pending[p])
    <3>1. p = q /\ o <= position[p] + 1
      BY <1>5, <1>t, <2>2 DEF SkipPoison
    <3>2. owner[p] = c /\ c # NoConsumer /\ pc[c] = "recv" /\ position[p] < Len(log[p])
      BY <1>5, <3>1, NoConsumerAssumption DEF SkipPoison, CanReceive
    <3>3. CASE o = position[p] + 1
      BY <1>5, <3>1, <3>3 DEF SkipPoison, Upcoming
    <3>4. CASE o <= position[p]
      <4>1. o \in DOMAIN log[p]
        BY <1>o, <1>t, <3>2, <3>4
      <4> QED
        BY <1>a, <1>g, <3>2, <3>4, <4>1 DEF ReceivedIsAttempted, Attempted, Processing, Claiming
    <3> QED
      BY <1>o, <1>t, <3>1, <3>3, <3>4
  <2> QED
    BY <2>1, <2>2
<1>6. ASSUME NEW c \in Consumers, pc[c] \in Processing, NextTurn(c), CommitMessage(c),
             committed' = committed, ~\E d \in Consumers : Dies(d)
      PROVE  log'[p][o] \in PoisonPills \union processed_events' \union failed'
  <2>1. CASE o <= committed[p] \/ o <= pending[p]
    BY <1>1, <2>1
  <2>2. CASE ~(o <= committed[p] \/ o <= pending[p])
    <3>1. p = current[c].partition /\ owner[p] = c /\ o <= current[c].offset
      BY <1>6, <1>t, <2>2 DEF CommitMessage
    <3>2. c # NoConsumer /\ current[c].offset = position[p] /\ position[p] <= Len(log[p])
      BY <1>6, <3>1, NoConsumerAssumption DEF OffsetsInOrder
    <3>3. o \in DOMAIN log[p] /\ o <= position[p]
      BY <1>o, <1>t, <3>1, <3>2
    <3>4. CASE Attempted(log[p][o])
      BY <1>a, <1>g, <3>3, <3>4 DEF Attempted
    <3>5. CASE current[c] = [partition |-> p, offset |-> o]
      <4>1. EventOf(c) = log[p][o]
        BY <3>5 DEF EventOf
      <4>2. pc'[c] \notin Processing
        BY <1>6 DEF NextTurn, TypeOK, Processing, Claiming
      <4>3. EventOf(c) \in processed_events' \union failed'
        BY <1>6, <4>2, TurnEnds
      <4> QED
        BY <1>g, <3>3, <4>1, <4>3
    <3> QED
      BY <3>1, <3>2, <3>3, <3>4, <3>5 DEF ReceivedIsAttempted
  <2> QED
    BY <2>1, <2>2
<1> QED
  BY <1>1, <1>2, <1>3, <1>4, <1>5, <1>6, QuietOrLoud
     DEF Quiet, Loud, kafkaVars, Publish, Assign, Receive

-----------------------------------------------------------------------------
(* The books of an asset. *)

\* What each event is about.
UnitsOf == [e \in Events |-> TradeOf[e].quantity]
ValueOf == [e \in Events |-> TradeOf[e].quantity * TradeOf[e].price]

\* The units of a set of events, as a sum of weights.
LEMMA UnitsIsSum ==
  ASSUME NEW es \in SUBSET Events
  PROVE  Units(es) = SumOver(UnitsOf, es)
<1> DEFINE TurnA(g) == [s \in SUBSET es |->
                          IF s = {} THEN 0
                          ELSE TradeOf[CHOOSE x \in s : TRUE].quantity
                                 + g[s \ {CHOOSE x \in s : TRUE}]]
           TurnB(g) == [s \in SUBSET es |->
                          IF s = {} THEN 0
                          ELSE UnitsOf[CHOOSE x \in s : TRUE]
                                 + g[s \ {CHOOSE x \in s : TRUE}]]
<1>1. \A s \in SUBSET es : s # {} => (CHOOSE x \in s : TRUE) \in Events
  OBVIOUS
<1>2. \A g : TurnA(g) = TurnB(g)
  BY <1>1 DEF UnitsOf
<1>3. Units(es) = (CHOOSE g : g = TurnA(g))[es]
  BY DEF Units, MapThenSumSet, MapThenFoldSet
<1>4. SumOver(UnitsOf, es) = (CHOOSE g : g = TurnB(g))[es]
  BY DEF SumOver, MapThenSumSet, MapThenFoldSet
<1> HIDE DEF TurnA, TurnB
<1>5. (CHOOSE g : g = TurnA(g)) = (CHOOSE g : g = TurnB(g))
  BY <1>2
<1> QED
  BY <1>3, <1>4, <1>5

\* What they are worth, as a sum of weights.
LEMMA ValueIsSum ==
  ASSUME NEW es \in SUBSET Events
  PROVE  Value(es) = SumOver(ValueOf, es)
<1> DEFINE TurnA(g) == [s \in SUBSET es |->
                          IF s = {} THEN 0
                          ELSE TradeOf[CHOOSE x \in s : TRUE].quantity
                                 * TradeOf[CHOOSE x \in s : TRUE].price
                                 + g[s \ {CHOOSE x \in s : TRUE}]]
           TurnB(g) == [s \in SUBSET es |->
                          IF s = {} THEN 0
                          ELSE ValueOf[CHOOSE x \in s : TRUE]
                                 + g[s \ {CHOOSE x \in s : TRUE}]]
<1>1. \A s \in SUBSET es : s # {} => (CHOOSE x \in s : TRUE) \in Events
  OBVIOUS
<1>2. \A g : TurnA(g) = TurnB(g)
  BY <1>1 DEF ValueOf
<1>3. Value(es) = (CHOOSE g : g = TurnA(g))[es]
  BY DEF Value, MapThenSumSet, MapThenFoldSet
<1>4. SumOver(ValueOf, es) = (CHOOSE g : g = TurnB(g))[es]
  BY DEF SumOver, MapThenSumSet, MapThenFoldSet
<1> HIDE DEF TurnA, TurnB
<1>5. (CHOOSE g : g = TurnA(g)) = (CHOOSE g : g = TurnB(g))
  BY <1>2
<1> QED
  BY <1>3, <1>4, <1>5

\* Units and value of a finite set of events, and of one event more.
LEMMA EventSums ==
  ASSUME NEW es \in SUBSET Events, IsFiniteSet(es)
  PROVE  /\ Units(es) \in Nat /\ Value(es) \in Nat
         /\ Units({}) = 0 /\ Value({}) = 0
         /\ \A e \in Events \ es :
              /\ Units(es \union {e}) = Units(es) + TradeOf[e].quantity
              /\ Value(es \union {e}) = Value(es) + TradeOf[e].quantity * TradeOf[e].price
<1>1. \A e \in Events : UnitsOf[e] \in Nat /\ ValueOf[e] \in Nat
  BY EventFacts DEF UnitsOf, ValueOf
<1>2. SumOver(UnitsOf, es) \in Nat /\ SumOver(ValueOf, es) \in Nat
  BY <1>1, SumMonotone
<1>3. SumOver(UnitsOf, {}) = 0 /\ SumOver(ValueOf, {}) = 0
  BY SumZero, FS_EmptySet
<1>4. ASSUME NEW e \in Events \ es
      PROVE  /\ Units(es \union {e}) = Units(es) + TradeOf[e].quantity
             /\ Value(es \union {e}) = Value(es) + TradeOf[e].quantity * TradeOf[e].price
  <2>1. \A y \in es \union {e} : UnitsOf[y] \in Int /\ ValueOf[y] \in Int
    BY <1>1
  <2>2. /\ SumOver(UnitsOf, es \union {e}) = SumOver(UnitsOf, es) + UnitsOf[e]
        /\ SumOver(ValueOf, es \union {e}) = SumOver(ValueOf, es) + ValueOf[e]
    BY <2>1, SumAddOne
  <2>3. es \union {e} \in SUBSET Events
    OBVIOUS
  <2> QED
    BY <2>2, <2>3, UnitsIsSum, ValueIsSum DEF UnitsOf, ValueOf
<1> QED
  BY <1>2, <1>3, <1>4, UnitsIsSum, ValueIsSum

\* The row of an asset is the account of its processed events.
Balanced(a) ==
  /\ Covered(PortfolioOf(a))
  /\ PortfolioOf(a).total_quantity = Units(Processed(a, "buy")) - Units(Processed(a, "sell"))
  /\ Money(PortfolioOf(a)) = Value(Processed(a, "sell")) - Value(Processed(a, "buy"))

\* The inductive invariant behind BooksBalance and LotsCoverSells.
Books == IsFiniteSet(processed_events) /\ \A a \in Assets : Balanced(a)

\* One event more in the books.
LEMMA ProcessedOneMore ==
  ASSUME NEW e \in Events, e \notin processed_events,
         processed_events' = processed_events \union {e}, NEW a, NEW side
  PROVE  Processed(a, side)' = IF AssetOf(e) = a /\ TradeOf[e].side = side
                               THEN Processed(a, side) \union {e}
                               ELSE Processed(a, side)
BY DEF Processed

\* No event is processed and no row has anything.
LEMMA BooksInit == Init => Books
<1> SUFFICES ASSUME Init PROVE Books
  OBVIOUS
<1>1. /\ processed_events = {} /\ IsFiniteSet({}) /\ {} \in SUBSET Events
      /\ \A a \in Assets : PortfolioOf(a) = EmptyPortfolio
  BY FS_EmptySet DEF Init, PortfolioOf, HasRow
<1>2. Units({}) = 0 /\ Value({}) = 0
  BY <1>1, EventSums
<1>3. \A a, side : Processed(a, side) = {}
  BY <1>1 DEF Processed
<1>4. EmptyPortfolio.total_quantity = 0
  BY DEF EmptyPortfolio
<1> QED
  BY <1>1, <1>2, <1>3, <1>4, EmptyIsCovered DEF Books, Balanced

\* A COMMIT enters its event in the books of its asset.
LEMMA BooksCommit ==
  ASSUME TypeOK, NoStaleWrite, Books, NEW c \in Consumers, CommitTx(c)
  PROVE  Books'
<1>1. PICK e \in Events :
        /\ AssetOf(e) \in Assets /\ e \notin processed_events
        /\ ~Rejects(PortfolioOf(AssetOf(e)), e)
        /\ processed_events' = processed_events \union {e}
        /\ portfolio_state'  = WithRow(AssetOf(e), Applied(PortfolioOf(AssetOf(e)), e))
  BY CommitWrites
<1>2. IsFiniteSet(processed_events')
  BY <1>1, FS_AddElement DEF Books
<1>3. ASSUME NEW a \in Assets, a # AssetOf(e) PROVE Balanced(a)'
  <2>1. PortfolioOf(a)' = PortfolioOf(a)
    BY <1>1, <1>3, SetRow
  <2>2. Processed(a, "buy")' = Processed(a, "buy") /\ Processed(a, "sell")' = Processed(a, "sell")
    BY <1>1, <1>3, ProcessedOneMore
  <2>3. Balanced(a)
    BY DEF Books
  <2> QED
    BY <2>1, <2>2, <2>3 DEF Balanced
<1>4. ASSUME NEW a \in Assets, a = AssetOf(e) PROVE Balanced(a)'
  <2>1. PICK before : before = PortfolioOf(a)
    OBVIOUS
  <2>2. PortfolioOf(a)' = Applied(before, e) /\ ~Rejects(before, e)
    BY <1>1, <1>4, <2>1, SetRow
  <2>3. Covered(before) /\ before.total_quantity \in Int /\ Money(before) \in Int
    <3>1. Covered(before)
      BY <2>1 DEF Books, Balanced
    <3>2. CostOf(before.lots) \in Int
      BY <3>1, CostOfLots DEF Covered, Held
    <3> QED
      BY <3>1, <3>2 DEF Covered, Held, Money
  <2>4. /\ Covered(Applied(before, e))
        /\ Applied(before, e).total_quantity = before.total_quantity + Delta(e)
        /\ Money(Applied(before, e)) = Money(before) + Cash(e)
    BY <2>2, <2>3, AppliedIsCovered
  <2>5. PICK bought \in SUBSET Events, sold \in SUBSET Events :
          /\ bought = Processed(a, "buy") /\ sold = Processed(a, "sell")
          /\ IsFiniteSet(bought) /\ IsFiniteSet(sold) /\ e \notin bought /\ e \notin sold
    <3>1. Processed(a, "buy") \in SUBSET processed_events
          /\ Processed(a, "sell") \in SUBSET processed_events /\ processed_events \subseteq Events
      BY DEF Processed, TypeOK
    <3> QED
      BY <1>1, <3>1, FS_Subset DEF Books
  <2>6. PICK n \in Int, k \in Int, ub \in Int, us \in Int, vb \in Int, vs \in Int :
          /\ n = TradeOf[e].quantity /\ k = TradeOf[e].quantity * TradeOf[e].price
          /\ ub = Units(bought) /\ us = Units(sold) /\ vb = Value(bought) /\ vs = Value(sold)
    <3>1. /\ Units(bought) \in Int /\ Value(bought) \in Int
          /\ Units(sold) \in Int /\ Value(sold) \in Int
      BY <2>5, EventSums
    <3>2. TradeOf[e].quantity \in Int /\ TradeOf[e].quantity * TradeOf[e].price \in Int
      BY EventFacts
    <3> QED
      BY <3>1, <3>2
  <2>7. before.total_quantity = ub - us /\ Money(before) = vs - vb
    BY <2>1, <2>5, <2>6 DEF Books, Balanced
  <2>8. CASE TradeOf[e].side = "buy"
    <3>1. Processed(a, "buy")' = bought \union {e} /\ Processed(a, "sell")' = sold
      BY <1>1, <1>4, <2>5, <2>8, ProcessedOneMore
    <3>2. Units(bought \union {e}) = ub + n /\ Value(bought \union {e}) = vb + k
      BY <2>5, <2>6, EventSums
    <3>3. Delta(e) = n /\ Cash(e) = -k
      BY <2>6, <2>8 DEF Delta, Cash
    <3>4. (ub - us) + n = (ub + n) - us /\ (vs - vb) + -k = vs - (vb + k)
      OBVIOUS
    <3> QED
      BY <2>2, <2>4, <2>6, <2>7, <3>1, <3>2, <3>3, <3>4 DEF Balanced
  <2>9. CASE TradeOf[e].side = "sell"
    <3>1. Processed(a, "buy")' = bought /\ Processed(a, "sell")' = sold \union {e}
      BY <1>1, <1>4, <2>5, <2>9, ProcessedOneMore
    <3>2. Units(sold \union {e}) = us + n /\ Value(sold \union {e}) = vs + k
      BY <2>5, <2>6, EventSums
    <3>3. Delta(e) = -n /\ Cash(e) = k
      BY <2>6, <2>9 DEF Delta, Cash
    <3>4. (ub - us) + -n = ub - (us + n) /\ (vs - vb) + k = (vs + k) - vb
      OBVIOUS
    <3> QED
      BY <2>2, <2>4, <2>6, <2>7, <3>1, <3>2, <3>3, <3>4 DEF Balanced
  <2> QED
    BY <2>2, <2>8, <2>9, EventFacts DEF Rejects
<1> QED
  BY <1>2, <1>3, <1>4 DEF Books

\* Only a COMMIT changes the books, by the event it claims: what it writes was computed
\* from the row as it still is (NoStaleWrite).
LEMMA BooksStep == TypeOK /\ NoStaleWrite /\ Books /\ [Next]_vars => Books'
<1> SUFFICES ASSUME TypeOK, NoStaleWrite, Books, [Next]_vars PROVE Books'
  OBVIOUS
<1>1. CASE UNCHANGED dbVars
  BY <1>1 DEF dbVars, Books, Balanced, PortfolioOf, HasRow, Processed
<1>2. ASSUME NEW c \in Consumers, CommitTx(c) PROVE Books'
  BY <1>2, BooksCommit
<1> QED
  BY <1>1, <1>2, StepTables

-----------------------------------------------------------------------------
(* The theorems. *)

\* Before the first record there is nothing to be wrong about.
LEMMA InitIInv == Init => IInv /\ SnapshotSeqs
<1> SUFFICES ASSUME Init PROVE IInv /\ SnapshotSeqs
  OBVIOUS
<1>1. TypeOK
  BY TypeInit
<1>2. ClaimsExclusive /\ RowsExclusive /\ RollbacksAreDuplicates /\ NoStaleWrite
  BY DEF Init, ClaimsExclusive, RowsExclusive, RollbacksAreDuplicates, NoStaleWrite, Claiming,
         Holding
<1>k. KeysExclusive /\ InsertedGoOn
  BY DEF Init, KeysExclusive, InsertedGoOn, RowEnsured, Holding
<1>3. OneSnapshotPerEvent
  BY DEF Init, OneSnapshotPerEvent
<1>4. AuditTrail
  BY DEF Init, AuditTrail, PortfolioOf, HasRow, RunningTotal, EmptyPortfolio
<1>5. \A p \in Partitions : log[p] = << >> /\ committed[p] = 0 /\ pending[p] = 0
                            /\ owner[p] = NoConsumer
  BY DEF Init
<1>6. OffsetsInOrder
  BY <1>5 DEF OffsetsInOrder
<1>7. NoUnattemptedSkip /\ ReceivedIsAttempted
  BY <1>5 DEF NoUnattemptedSkip, ReceivedIsAttempted
<1>8. SnapshotSeqs
  <2>1. \A a \in Assets : pnl_snapshots[a] \in Seq({})
    BY DEF Init
  <2> QED
    BY <2>1 DEF SnapshotSeqs
<1> QED
  BY <1>1, <1>2, <1>k, <1>3, <1>4, <1>6, <1>7, <1>8 DEF IInv

\* One step, for all parts of the invariant: they lean on one another.
LEMMA IInvStep == IInv /\ SnapshotSeqs /\ [Next]_vars => IInv' /\ SnapshotSeqs'
<1> SUFFICES ASSUME IInv, SnapshotSeqs, [Next]_vars PROVE IInv' /\ SnapshotSeqs'
  OBVIOUS
<1> USE DEF IInv
<1>1. TypeOK'
  BY TypeStep
<1>2. ClaimsExclusive' /\ RowsExclusive' /\ RollbacksAreDuplicates'
  BY ClaimsStep, RowsStep, RollbacksStep
<1>k. KeysExclusive' /\ InsertedGoOn'
  BY KeysStep
<1>3. NoStaleWrite'
  BY <1>1, <1>2, NoStaleWriteStep
<1>4. OneSnapshotPerEvent' /\ AuditTrail' /\ SnapshotSeqs'
  BY OneSnapshotStep, AuditTrailStep, SnapshotSeqsStep
<1>5. OffsetsInOrder' /\ NoUnattemptedSkip' /\ ReceivedIsAttempted'
  BY <1>1, OffsetsInOrderStep, NoUnattemptedSkipStep, ReceivedStep
<1> QED
  BY <1>1, <1>2, <1>k, <1>3, <1>4, <1>5

\* The inductive invariant holds of every reachable state.
THEOREM Invariant == Spec => [](IInv /\ SnapshotSeqs)
BY InitIInv, IInvStep, PTL DEF Spec

\* Whatever a transaction is about to write is the effect of its event on the row
\* as it is committed: claim_event and SELECT ... FOR UPDATE exclude lost updates
\* and double effects (processor.rs process, repository.rs load_portfolio).
THEOREM NoLostUpdate == Spec => []NoStaleWrite
<1>1. IInv /\ SnapshotSeqs => NoStaleWrite
  BY DEF IInv
<1> QED
  BY <1>1, Invariant, PTL

\* Among any instances there is one that waits for none of the others: the locks of
\* claim_event and load_portfolio are taken in one order (processor.rs process).
THEOREM NeverDeadlocked == Spec => []NoCircularWait
<1>1. IInv /\ SnapshotSeqs => NoCircularWait
  <2> SUFFICES ASSUME IInv, NEW cs \in SUBSET Consumers, cs # {}
               PROVE  \E c \in cs : \A d \in cs \ {c} : ~WaitsFor(c, d)
    BY DEF NoCircularWait
  <2> USE DEF Claiming, RowEnsured, Holding
  <2>1. ASSUME NEW c \in cs, NEW d \in cs \ {c}, WaitsFor(c, d)
        PROVE  \/ pc[c] = "claim_event" /\ pc[d] \in Claiming
               \/ pc[c] = "ensure_row" /\ pc[d] \in RowEnsured
               \/ pc[c] = "select_for_update" /\ pc[d] \in Holding
    <3>1. CASE pc[c] = "claim_event"
      BY <2>1, <3>1 DEF WaitsFor, HoldsClaim
    <3>2. CASE pc[c] = "ensure_row"
      BY <2>1, <3>2 DEF WaitsFor, HoldsKey, IInv, InsertedGoOn
    <3>3. CASE pc[c] = "select_for_update" /\ pc[d] \notin Holding
      <4>1. HoldsKey(d, AssetOf(EventOf(c)))
        BY <2>1, <3>3 DEF WaitsFor, HoldsRow
      <4>2. d \in inserted /\ pc[d] \in RowEnsured /\ AssetOf(EventOf(d)) = AssetOf(EventOf(c))
        BY <4>1 DEF HoldsKey, IInv, InsertedGoOn
      <4>3. ~HasRow(AssetOf(EventOf(c))) /\ ~HoldsKey(c, AssetOf(EventOf(c)))
        BY <2>1, <4>2 DEF IInv, KeysExclusive
      <4>4. c \notin inserted /\ HasRow(AssetOf(EventOf(c)))
        BY <3>3, <4>3 DEF HoldsKey, IInv, KeysExclusive
      <4> QED
        BY <4>3, <4>4
    <3> QED
      BY <2>1, <3>1, <3>2, <3>3 DEF WaitsFor
  <2>2. CASE \E c \in cs : pc[c] \notin {"claim_event", "ensure_row", "select_for_update"}
    BY <2>1, <2>2
  <2>3. CASE /\ \E c \in cs : pc[c] = "select_for_update"
             /\ \A c \in cs : pc[c] \notin Holding
    BY <2>1, <2>3
  <2>4. CASE /\ \E c \in cs : pc[c] = "ensure_row"
             /\ \A c \in cs : pc[c] \notin RowEnsured
    BY <2>1, <2>4
  <2>5. CASE \A c \in cs : pc[c] = "claim_event"
    BY <2>1, <2>5
  <2> QED
    BY <2>2, <2>3, <2>4, <2>5
<1> QED
  BY <1>1, Invariant, PTL

\* processed_events and pnl_snapshots agree, event by event (processor.rs process).
THEOREM SnapshotsMatchClaims == Spec => []OneSnapshotPerEvent
<1>1. IInv /\ SnapshotSeqs => OneSnapshotPerEvent
  BY DEF IInv
<1> QED
  BY <1>1, Invariant, PTL

\* The snapshots of an asset add up to the total_realized_pnl of its row
\* (processor.rs process, repository.rs save_pnl_snapshot).
THEOREM SnapshotsAddUp == Spec => []AuditTrail
<1>1. IInv /\ SnapshotSeqs => AuditTrail
  BY DEF IInv
<1> QED
  BY <1>1, Invariant, PTL

\* No committed offset passes a record that nobody has finished with, in spite of
\* CommitMode::Async, crashes and rebalances (consumer.rs run).
THEOREM AtLeastOnce == Spec => []NoUnattemptedSkip
<1>1. IInv /\ SnapshotSeqs => NoUnattemptedSkip
  BY DEF IInv
<1> QED
  BY <1>1, Invariant, PTL

\* The group's committed offsets only advance (consumer.rs run).
THEOREM OffsetsAdvance == Spec => OffsetsNeverRewind
<1>1. IInv /\ [Next]_vars => [\A p \in Partitions : committed'[p] >= committed[p]]_vars
  <2> SUFFICES ASSUME IInv, [Next]_vars, NEW p \in Partitions
               PROVE  committed'[p] >= committed[p]
    OBVIOUS
  <2>t. committed \in [Partitions -> Nat] /\ pending \in [Partitions -> Nat]
    BY DEF IInv, TypeOK
  <2>1. ASSUME NEW q \in Partitions, StoreOffset(q) PROVE committed'[p] >= committed[p]
    <3>1. committed[q] <= pending[q] /\ pending[q] # 0
      BY <2>1 DEF IInv, OffsetsInOrder, StoreOffset
    <3> QED
      BY <2>1, <2>t, <3>1 DEF StoreOffset
  <2>2. ASSUME committed' = committed PROVE committed'[p] >= committed[p]
    BY <2>2, <2>t
  <2> QED
    BY <2>1, <2>2, QuietOrLoud
       DEF IInv, Quiet, Loud, kafkaVars, Publish, Revoke, LoseOffset, Assign, SkipPoison,
           Receive, Dies
<1> QED
  BY <1>1, Invariant, PTL DEF Spec, OffsetsNeverRewind

\* The books balance in every state.
LEMMA BooksAlways == Spec => []Books
<1>1. IInv /\ SnapshotSeqs => TypeOK /\ NoStaleWrite
  BY DEF IInv
<1> QED
  BY <1>1, BooksInit, BooksStep, Invariant, PTL DEF Spec

\* What the row of an asset says is open and realized is what its processed events
\* bought and sold, each counted once (processor.rs process, portfolio.rs apply).
THEOREM BooksAlwaysBalance == Spec => []BooksBalance
<1>1. Books => BooksBalance
  BY DEF Books, Balanced, BooksBalance, Money
<1> QED
  BY <1>1, BooksAlways, PTL

\* A sell that passes the balance check of apply never runs out of lots: the panic of
\* expect("lot queue unexpectedly empty") is out of reach (portfolio.rs consume_fifo).
THEOREM QueueNeverRunsDry == Spec => []LotsCoverSells
<1>1. Books => LotsCoverSells
  BY CheckSuffices DEF Books, Balanced, LotsCoverSells, Sold
<1> QED
  BY <1>1, BooksAlways, PTL

\* The group implements ExactlyOnce: seen through its tables, every event of the
\* topic takes effect at most once and as a whole, whatever fails.
THEOREM Refinement == Spec => EffectivelyOnce
<1>1. Init => EO!Init
  BY DEF Init, EO!Init
<1>2. IInv /\ [Next]_vars => [EO!Next]_EO!vars
  <2> SUFFICES ASSUME IInv, [Next]_vars PROVE [EO!Next]_EO!vars
    OBVIOUS
  <2>t. TypeOK /\ NoStaleWrite
    BY DEF IInv
  <2>1. ASSUME NEW c \in Consumers, CommitTx(c) PROVE EO!Next
    <3>1. PICK e \in Events :
            LET a      == AssetOf(e)
                before == PortfolioOf(a)
            IN  /\ e \notin processed_events
                /\ ~Rejects(before, e)
                /\ processed_events' = processed_events \union {e}
                /\ portfolio_state'  = WithRow(a, Applied(before, e))
                /\ pnl_snapshots'    =
                     [pnl_snapshots EXCEPT ![a] =
                        Append(@, [event_id           |-> e,
                                   realized_pnl       |-> RealizedOf(before, e),
                                   total_realized_pnl |->
                                     Applied(before, e).total_realized_pnl])]
      BY <2>1, <2>t, CommitWrites
    <3>2. EO!PortfolioOf(AssetOf(e)) = PortfolioOf(AssetOf(e))
      BY DEF EO!PortfolioOf, PortfolioOf, HasRow
    <3>3. EO!ApplyOnce(e)
      BY <3>1, <3>2 DEF EO!ApplyOnce, EO!WithRow, WithRow
    <3> QED
      BY <3>3 DEF EO!Next
  <2>2. CASE UNCHANGED dbVars
    BY <2>2 DEF dbVars, EO!vars
  <2> QED
    BY <2>1, <2>2, <2>t, StepTables
<1> QED
  BY <1>1, <1>2, Invariant, PTL DEF Spec, EffectivelyOnce, EO!Spec
=============================================================================
