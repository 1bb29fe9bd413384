---------------------------- MODULE PnlConsumer -----------------------------
(***************************************************************************)
(* pnl-consumer: instances of one Kafka consumer group that read the       *)
(* topic of trade events and keep portfolio_state, pnl_snapshots and       *)
(* processed_events in PostgreSQL, one transaction per event.              *)
(*                                                                         *)
(* An action is one await of the code: between two of them other instances *)
(* run, the process may die, the group may rebalance, the statement may    *)
(* fail.  What a transaction has written is held in tx until its COMMIT,   *)
(* and its locks are the ones READ COMMITTED takes: the unique key of      *)
(* processed_events from claim_event on, the key and then the row of       *)
(* portfolio_state from load_portfolio on.                                 *)
(*                                                                         *)
(* Amounts have no more digits than the NUMERIC columns, so that what is   *)
(* saved is what is loaded; NumericColumns is about the others.            *)
(*                                                                         *)
(* Offsets count records: record o of partition p is log[p][o], and a      *)
(* committed offset n says that records 1..n are done with.                *)
(*                                                                         *)
(* A definition whose comment begins with "Slip" is no part of the model:  *)
(* it is a bug that the definition after it does not have, kept to show    *)
(* that a property would notice.                                           *)
(***************************************************************************)
EXTENDS AssetPortfolio, FiniteSets

CONSTANTS
  Consumers,     \* instances of the service
  Partitions,    \* of the topic
  PoisonPills,   \* records without a payload or with one that is no TradeEvent
  PartitionOf,   \* the partition that a record's key hashes to
  NoConsumer, NoRecord,
  MaxCopies,     \* bound: copies of one record that reach the topic
  MaxFaults      \* bound: crashes, rebalances and failed requests in a behaviour

Messages == Events \union PoisonPills

ASSUME PartitionOfAssumption == \A m \in Messages : PartitionOf[m] \in Partitions
ASSUME PoisonAssumption      == PoisonPills \intersect Events = {}
ASSUME NoConsumerAssumption  == NoConsumer \notin Consumers
ASSUME MaxFaultsAssumption   == MaxFaults \in Nat

VARIABLES
  \* Kafka
  log,         \* per partition, the records of the topic
  owner,       \* per partition, the member of the group it is assigned to
  position,    \* per partition, how far its owner has received
  pending,     \* per partition, the offset of a commit in flight, or 0
  committed,   \* per partition, the committed offset of the group
  \* the instances
  pc,          \* what run and process of an instance wait for
  current,     \* the record in hand
  tx,          \* what process has computed from the row it has loaded
  inserted,    \* the instances whose open transaction has inserted an asset's row
  failed,      \* events that process has returned Err for (status => "error")
  \* PostgreSQL, committed
  processed_events, portfolio_state, pnl_snapshots,
  faults       \* faults so far

kafkaVars    == <<log, owner, position, pending, committed>>
instanceVars == <<pc, current, tx, inserted, failed>>
dbVars       == <<processed_events, portfolio_state, pnl_snapshots>>
vars         == <<kafkaVars, instanceVars, dbVars, faults>>

-----------------------------------------------------------------------------
(* The open transactions and the locks they hold. *)

\* After a claim that inserted its row, before the end of the transaction.
Claiming == {"ensure_row", "select_for_update",
             "save_portfolio", "save_pnl_snapshot", "commit"}

\* After SELECT ... FOR UPDATE has returned.
Holding  == {"save_portfolio", "save_pnl_snapshot", "commit"}

Processing == Claiming \union {"claim_event", "rollback"}

\* The event of the record an instance has in hand.
EventOf(c) == log[current[c].partition][current[c].offset]

\* c holds the unique key of event e in processed_events.
HoldsClaim(c, e) == pc[c] \in Claiming /\ EventOf(c) = e

\* c has inserted the first row of asset a and not committed it.
HoldsKey(c, a) == c \in inserted /\ pc[c] \in Claiming /\ AssetOf(EventOf(c)) = a

\* c holds the row of asset a.
HoldsRow(c, a) == \/ HoldsKey(c, a)
                  \/ pc[c] \in Holding /\ AssetOf(EventOf(c)) = a

NoTx == [portfolio |-> EmptyPortfolio, realized_pnl |-> 0]

\* What a reader gets: an empty portfolio if the asset has no row yet.
HasRow(a) == a \in DOMAIN portfolio_state
PortfolioOf(a) == IF HasRow(a) THEN portfolio_state[a] ELSE EmptyPortfolio

\* The table with the asset's row set.
WithRow(a, row) ==
  [b \in DOMAIN portfolio_state \union {a} |-> IF b = a THEN row ELSE portfolio_state[b]]

-----------------------------------------------------------------------------
Init == /\ log       = [p \in Partitions |-> << >>]
        /\ owner     = [p \in Partitions |-> NoConsumer]
        /\ position  = [p \in Partitions |-> 0]
        /\ pending   = [p \in Partitions |-> 0]
        /\ committed = [p \in Partitions |-> 0]
        /\ pc        = [c \in Consumers |-> "recv"]
        /\ current   = [c \in Consumers |-> NoRecord]
        /\ tx        = [c \in Consumers |-> NoTx]
        /\ inserted  = {}
        /\ failed    = {}
        /\ processed_events = {}
        /\ portfolio_state  = << >>
        /\ pnl_snapshots    = [a \in Assets |-> << >>]
        /\ faults = 0

-----------------------------------------------------------------------------
(* The topic and the group coordinator. *)

Copies(m) ==
  Cardinality({o \in DOMAIN log[PartitionOf[m]] : log[PartitionOf[m]][o] = m})

\* The producer's record arrives.  A send that timed out and is tried again
\* can put the same event, under the same event_id, in the topic twice.
Publish(m) ==
  /\ Copies(m) < MaxCopies
  /\ log' = [log EXCEPT ![PartitionOf[m]] = Append(@, m)]
  /\ UNCHANGED <<owner, position, pending, committed, instanceVars, dbVars, faults>>

\* A member joins the group, or rejoins, only by polling: not while process runs.
\* It starts from the committed offset.
Assign(p, c) ==
  /\ owner[p] = NoConsumer
  /\ pc[c] = "recv"
  /\ owner'    = [owner EXCEPT ![p] = c]
  /\ position' = [position EXCEPT ![p] = committed[p]]
  /\ UNCHANGED <<log, pending, committed, instanceVars, dbVars, faults>>

\* Slip: the revoked member's commits are still accepted.
RevokeWithoutFencing(p) ==
  /\ owner[p] # NoConsumer
  /\ faults < MaxFaults
  /\ owner'  = [owner EXCEPT ![p] = NoConsumer]
  /\ faults' = faults + 1
  /\ UNCHANGED <<log, position, pending, committed, instanceVars, dbVars>>

\* A rebalance takes the partition away, also from a member that is too long in
\* process (max.poll.interval.ms, session.timeout.ms).  The coordinator refuses
\* what is left of its commits.
Revoke(p) ==
  /\ owner[p] # NoConsumer
  /\ faults < MaxFaults
  /\ owner'   = [owner EXCEPT ![p] = NoConsumer]
  /\ pending' = [pending EXCEPT ![p] = 0]
  /\ faults'  = faults + 1
  /\ UNCHANGED <<log, position, committed, instanceVars, dbVars>>

\* The broker stores an asynchronous commit.
StoreOffset(p) ==
  /\ pending[p] # 0
  /\ committed' = [committed EXCEPT ![p] = pending[p]]
  /\ pending'   = [pending EXCEPT ![p] = 0]
  /\ UNCHANGED <<log, owner, position, instanceVars, dbVars, faults>>

\* The commit is lost: nobody looks at its result.
LoseOffset(p) ==
  /\ pending[p] # 0
  /\ faults < MaxFaults
  /\ pending' = [pending EXCEPT ![p] = 0]
  /\ faults'  = faults + 1
  /\ UNCHANGED <<log, owner, position, committed, instanceVars, dbVars>>

-----------------------------------------------------------------------------
(* KafkaConsumer::run: receive, and what follows the result of process. *)

\* Slip: the coordinator takes a commit from whoever sends it.
CommitUnfenced(c) == pending' = [pending EXCEPT ![current[c].partition] = current[c].offset]

\* commit_message(&msg, CommitMode::Async); refused unless the partition is
\* still assigned to c.
CommitMessage(c) ==
  LET p == current[c].partition
  IN  pending' = [pending EXCEPT ![p] = IF owner[p] = c THEN current[c].offset ELSE @]

\* Slip: the record stays in hand.
NextTurnKeepsRecord(c) ==
  /\ pc' = [pc EXCEPT ![c] = "recv"]
  /\ tx' = [tx EXCEPT ![c] = NoTx]
  /\ inserted' = inserted \ {c}
  /\ UNCHANGED current

\* Slip: a transaction that is dropped keeps its locks on the pooled connection.
NextTurnKeepsLocks(c) ==
  /\ pc'      = [pc EXCEPT ![c] = "recv"]
  /\ current' = [current EXCEPT ![c] = NoRecord]
  /\ tx'      = [tx EXCEPT ![c] = NoTx]
  /\ UNCHANGED inserted

\* process returns, whatever the result: the next turn of the loop.
NextTurn(c) ==
  /\ pc'      = [pc EXCEPT ![c] = "recv"]
  /\ current' = [current EXCEPT ![c] = NoRecord]
  /\ tx'      = [tx EXCEPT ![c] = NoTx]
  /\ inserted' = inserted \ {c}

\* Slip: a failed event is tried again at once, for as long as it fails.
RetryInPlace(c) ==
  /\ pc' = [pc EXCEPT ![c] = "claim_event"]
  /\ tx' = [tx EXCEPT ![c] = NoTx]
  /\ inserted' = inserted \ {c}
  /\ UNCHANGED <<current, failed>>

\* process returns Err: the transaction is dropped, the offset is not committed,
\* and the loop goes on to the record after it.
ReturnErr(c) ==
  /\ NextTurn(c)
  /\ failed' = failed \union {EventOf(c)}

CanReceive(c, p) == pc[c] = "recv" /\ owner[p] = c /\ position[p] < Len(log[p])

Upcoming(p) == log[p][position[p] + 1]

\* Empty payload or undecodable JSON: skipped, its offset committed.
SkipPoison(c, p) ==
  /\ CanReceive(c, p)
  /\ Upcoming(p) \in PoisonPills
  /\ position' = [position EXCEPT ![p] = @ + 1]
  /\ pending'  = [pending EXCEPT ![p] = position[p] + 1]
  /\ UNCHANGED <<log, owner, committed, instanceVars, dbVars, faults>>

\* Slip: enable.auto.commit, the offset goes out with the record.
ReceiveAndCommit(c, p) ==
  /\ CanReceive(c, p)
  /\ Upcoming(p) \notin PoisonPills
  /\ position' = [position EXCEPT ![p] = @ + 1]
  /\ pending'  = [pending EXCEPT ![p] = position[p] + 1]
  /\ pc'       = [pc EXCEPT ![c] = "claim_event"]
  /\ current'  = [current EXCEPT ![c] = [partition |-> p, offset |-> position[p] + 1]]
  /\ UNCHANGED <<log, owner, committed, tx, inserted, failed, dbVars, faults>>

\* A trade event: process is called.
Receive(c, p) ==
  /\ CanReceive(c, p)
  /\ Upcoming(p) \notin PoisonPills
  /\ position' = [position EXCEPT ![p] = @ + 1]
  /\ pc'       = [pc EXCEPT ![c] = "claim_event"]
  /\ current'  = [current EXCEPT ![c] = [partition |-> p, offset |-> position[p] + 1]]
  /\ UNCHANGED <<log, owner, pending, committed, tx, inserted, failed, dbVars, faults>>

-----------------------------------------------------------------------------
(* EventProcessor::process, one statement of the transaction at a time. *)

\* Slip: looks the event up before it inserts it, and waits for nobody.
ClaimWithoutKey(c) == pc[c] = "claim_event"

\* INSERT INTO processed_events ... ON CONFLICT DO NOTHING waits for another
\* transaction that has inserted the key and not ended.
CanClaim(c) ==
  /\ pc[c] = "claim_event"
  /\ \A d \in Consumers \ {c} : ~HoldsClaim(d, EventOf(c))

\* Slip: rows_affected is not looked at.
ClaimAnyway(c) ==
  /\ CanClaim(c)
  /\ pc' = [pc EXCEPT ![c] = "ensure_row"]
  /\ UNCHANGED <<kafkaVars, current, tx, inserted, failed, dbVars, faults>>

ClaimNew(c) ==
  /\ CanClaim(c)
  /\ EventOf(c) \notin processed_events
  /\ pc' = [pc EXCEPT ![c] = "ensure_row"]
  /\ UNCHANGED <<kafkaVars, current, tx, inserted, failed, dbVars, faults>>

ClaimDuplicate(c) ==
  /\ CanClaim(c)
  /\ EventOf(c) \in processed_events
  /\ pc' = [pc EXCEPT ![c] = "rollback"]
  /\ UNCHANGED <<kafkaVars, current, tx, inserted, failed, dbVars, faults>>

\* The duplicate's transaction is rolled back: Ok(false).
Rollback(c) ==
  /\ pc[c] = "rollback"
  /\ NextTurn(c)
  /\ CommitMessage(c)
  /\ UNCHANGED <<log, owner, position, committed, failed, dbVars, faults>>

\* INSERT INTO portfolio_state ... ON CONFLICT DO NOTHING: likewise it waits for
\* an uncommitted row of the same key, and leaves a committed one alone.
InsertRow(c) ==
  LET a == AssetOf(EventOf(c))
  IN  /\ pc[c] = "ensure_row"
      /\ ~HasRow(a)
      /\ \A d \in Consumers \ {c} : ~HoldsKey(d, a)
      /\ inserted' = inserted \union {c}
      /\ pc' = [pc EXCEPT ![c] = "select_for_update"]
      /\ UNCHANGED <<kafkaVars, current, tx, failed, dbVars, faults>>

RowExists(c) ==
  /\ pc[c] = "ensure_row"
  /\ HasRow(AssetOf(EventOf(c)))
  /\ pc' = [pc EXCEPT ![c] = "select_for_update"]
  /\ UNCHANGED <<kafkaVars, current, tx, inserted, failed, dbVars, faults>>

\* Slip: a SELECT without FOR UPDATE.
SelectUnlocked(c) == pc[c] = "select_for_update"

\* SELECT ... FOR UPDATE waits for the row's lock and then reads what is
\* committed; apply runs on it before the next await.
CanLoad(c) ==
  /\ pc[c] = "select_for_update"
  /\ \A d \in Consumers \ {c} : ~HoldsRow(d, AssetOf(EventOf(c)))

Loaded(c) == PortfolioOf(AssetOf(EventOf(c)))

LoadAndApply(c) ==
  /\ CanLoad(c)
  /\ ~Rejects(Loaded(c), EventOf(c))
  /\ tx' = [tx EXCEPT ![c] = [portfolio    |-> Applied(Loaded(c), EventOf(c)),
                              realized_pnl |-> RealizedOf(Loaded(c), EventOf(c))]]
  /\ pc' = [pc EXCEPT ![c] = "save_portfolio"]
  /\ UNCHANGED <<kafkaVars, current, inserted, failed, dbVars, faults>>

LoadAndReject(c) ==
  /\ CanLoad(c)
  /\ Rejects(Loaded(c), EventOf(c))
  /\ ReturnErr(c)
  /\ UNCHANGED <<kafkaVars, dbVars, faults>>

\* UPDATE portfolio_state: seen by nobody else before the COMMIT.
SavePortfolio(c) ==
  /\ pc[c] = "save_portfolio"
  /\ pc' = [pc EXCEPT ![c] = "save_pnl_snapshot"]
  /\ UNCHANGED <<kafkaVars, current, tx, inserted, failed, dbVars, faults>>

\* INSERT INTO pnl_snapshots, likewise.
SavePnlSnapshot(c) ==
  /\ pc[c] = "save_pnl_snapshot"
  /\ pc' = [pc EXCEPT ![c] = "commit"]
  /\ UNCHANGED <<kafkaVars, current, tx, inserted, failed, dbVars, faults>>

\* Slip: the snapshot carries the total from before the event.
CommitOldTotal(c) ==
  LET e == EventOf(c)
      a == AssetOf(e)
  IN  /\ pc[c] = "commit"
      /\ processed_events' = processed_events \union {e}
      /\ portfolio_state'  = WithRow(a, tx[c].portfolio)
      /\ pnl_snapshots'    =
           [pnl_snapshots EXCEPT ![a] =
              Append(@, [event_id           |-> e,
                         realized_pnl       |-> tx[c].realized_pnl,
                         total_realized_pnl |-> PortfolioOf(a).total_realized_pnl])]

\* Slip: the claim is rolled back and the rest is not.
CommitWithoutClaim(c) ==
  LET e == EventOf(c)
      a == AssetOf(e)
  IN  /\ pc[c] = "commit"
      /\ portfolio_state' = WithRow(a, tx[c].portfolio)
      /\ pnl_snapshots'   =
           [pnl_snapshots EXCEPT ![a] =
              Append(@, [event_id           |-> e,
                         realized_pnl       |-> tx[c].realized_pnl,
                         total_realized_pnl |-> tx[c].portfolio.total_realized_pnl])]
      /\ UNCHANGED processed_events

\* What COMMIT makes of the tables: everything the transaction wrote.
CommitTx(c) ==
  LET e == EventOf(c)
      a == AssetOf(e)
  IN  /\ pc[c] = "commit"
      /\ processed_events' = processed_events \union {e}
      /\ portfolio_state'  = WithRow(a, tx[c].portfolio)
      /\ pnl_snapshots'    =
           [pnl_snapshots EXCEPT ![a] =
              Append(@, [event_id           |-> e,
                         realized_pnl       |-> tx[c].realized_pnl,
                         total_realized_pnl |-> tx[c].portfolio.total_realized_pnl])]

\* Ok(true).
Commit(c) ==
  /\ CommitTx(c)
  /\ NextTurn(c)
  /\ CommitMessage(c)
  /\ UNCHANGED <<log, owner, position, committed, failed, faults>>

-----------------------------------------------------------------------------
(* Faults. *)

Fault == faults < MaxFaults /\ faults' = faults + 1

\* A statement of the transaction, its begin or its end, fails without effect.
StatementFails(c) ==
  /\ pc[c] \in Processing
  /\ Fault
  /\ ReturnErr(c)
  /\ UNCHANGED <<kafkaVars, dbVars>>

\* The COMMIT is carried out, and its answer is lost.
CommitUnacknowledged(c) ==
  /\ Fault
  /\ CommitTx(c)
  /\ ReturnErr(c)
  /\ UNCHANGED kafkaVars

\* The process dies.  PostgreSQL rolls its transaction back, the coordinator
\* takes its partitions away.
Dies(c) ==
  /\ pc[c] # "down"
  /\ Fault
  /\ pc'      = [pc EXCEPT ![c] = "down"]
  /\ current' = [current EXCEPT ![c] = NoRecord]
  /\ tx'      = [tx EXCEPT ![c] = NoTx]
  /\ inserted' = inserted \ {c}
  /\ owner'   = [p \in Partitions |-> IF owner[p] = c THEN NoConsumer ELSE owner[p]]
  /\ pending' = [p \in Partitions |-> IF owner[p] = c THEN 0 ELSE pending[p]]
  /\ UNCHANGED <<log, position, committed, failed>>

Crash(c) == Dies(c) /\ UNCHANGED dbVars

\* It dies with a COMMIT on its way that is still carried out.
CrashInCommit(c) == Dies(c) /\ CommitTx(c)

Restart(c) ==
  /\ pc[c] = "down"
  /\ pc' = [pc EXCEPT ![c] = "recv"]
  /\ UNCHANGED <<kafkaVars, current, tx, inserted, failed, dbVars, faults>>

-----------------------------------------------------------------------------
\* What an instance does by itself once it has a record.
Process(c) ==
  \/ ClaimNew(c) \/ ClaimDuplicate(c) \/ Rollback(c)
  \/ InsertRow(c) \/ RowExists(c) \/ LoadAndApply(c) \/ LoadAndReject(c)
  \/ SavePortfolio(c) \/ SavePnlSnapshot(c) \/ Commit(c)

Poll(c, p) == SkipPoison(c, p) \/ Receive(c, p)

Next ==
  \/ \E m \in Messages : Publish(m)
  \/ \E p \in Partitions :
       \/ Revoke(p) \/ StoreOffset(p) \/ LoseOffset(p)
       \/ \E c \in Consumers : Assign(p, c) \/ Poll(c, p)
  \/ \E c \in Consumers :
       \/ Process(c)
       \/ StatementFails(c) \/ CommitUnacknowledged(c)
       \/ Crash(c) \/ CrashInCommit(c) \/ Restart(c)

Spec == Init /\ [][Next]_vars

(***************************************************************************)
(* Fairness: the runtime polls a ready future again, PostgreSQL grants a   *)
(* free lock, the coordinator hands a free partition to a polling member   *)
(* and the supervisor restarts a dead process.  Nothing makes a producer   *)
(* publish and nothing makes a fault happen.                               *)
(***************************************************************************)
Fairness ==
  /\ \A c \in Consumers : WF_vars(Process(c)) /\ WF_vars(Restart(c))
  /\ \A p \in Partitions :
       /\ WF_vars(StoreOffset(p))
       /\ WF_vars(\E c \in Consumers : Assign(p, c))
       /\ WF_vars(\E c \in Consumers : Poll(c, p))

FairSpec == Spec /\ Fairness

-----------------------------------------------------------------------------
(* Properties. *)

\* The portfolio columns of a row, a working copy or an answer.
IsPortfolio(r) ==
  r = [lots               |-> r.lots,
       total_quantity     |-> r.total_quantity,
       total_realized_pnl |-> r.total_realized_pnl]

\* Every variable has the shape that the code and the schema give it, and an
\* instance has a trade event in hand exactly while process runs.
TypeOK ==
  /\ log       \in [Partitions -> Seq(Messages)]
  /\ owner     \in [Partitions -> Consumers \union {NoConsumer}]
  /\ position  \in [Partitions -> Nat]
  /\ pending   \in [Partitions -> Nat]
  /\ committed \in [Partitions -> Nat]
  /\ pc        \in [Consumers -> Processing \union {"recv", "down"}]
  /\ DOMAIN current = Consumers
  /\ \A c \in Consumers :
       IF pc[c] \in Processing
       THEN /\ current[c] \in [partition : Partitions, offset : Nat \ {0}]
            /\ current[c].offset \in DOMAIN log[current[c].partition]
            /\ EventOf(c) \in Events
       ELSE current[c] = NoRecord
  /\ DOMAIN tx = Consumers
  /\ \A c \in Consumers :
       /\ tx[c] = [portfolio    |-> tx[c].portfolio,
                   realized_pnl |-> tx[c].realized_pnl]
       /\ IsPortfolio(tx[c].portfolio)
  /\ inserted \subseteq Consumers
  /\ failed \subseteq Events
  /\ processed_events \subseteq Events
  /\ DOMAIN portfolio_state \subseteq Assets
  /\ \A a \in DOMAIN portfolio_state : IsPortfolio(portfolio_state[a])
  /\ DOMAIN pnl_snapshots = Assets
  /\ faults \in 0 .. MaxFaults

\* process has returned for the record, with whatever result, or has nothing to do.
Attempted(m) == m \in PoisonPills \union processed_events \union failed

\* At-least-once: no offset that is committed or on its way to the broker is
\* past a record that no instance has finished with, whatever dies, whatever is
\* revoked, and whichever commits are lost (CommitMode::Async, result ignored).
NoUnattemptedSkip ==
  \A p \in Partitions : \A o \in DOMAIN log[p] :
    o <= committed[p] \/ o <= pending[p] => Attempted(log[p][o])

\* What a transaction is about to write is still the effect of its event on the
\* row as it is committed: the FOR UPDATE lock leaves no room for a lost update,
\* and the claim none for a second effect (README, Row-Level Locking).
NoStaleWrite ==
  \A c \in Consumers : pc[c] \in Holding =>
    LET e      == EventOf(c)
        before == PortfolioOf(AssetOf(e))
    IN  /\ e \notin processed_events
        /\ ~Rejects(before, e)
        /\ tx[c].portfolio    = Applied(before, e)
        /\ tx[c].realized_pnl = RealizedOf(before, e)

\* c has sent a statement that does not return before the transaction of d ends.
WaitsFor(c, d) ==
  LET e == EventOf(c)
      a == AssetOf(e)
  IN  \/ pc[c] = "claim_event" /\ HoldsClaim(d, e)
      \/ pc[c] = "ensure_row" /\ ~HasRow(a) /\ HoldsKey(d, a)
      \/ pc[c] = "select_for_update" /\ HoldsRow(d, a)

\* PostgreSQL never finds a deadlock: a transaction takes the key of its event, the
\* key of its asset and the row in this order, so that among any instances there is
\* one that waits for none of the others (claim_event before load_portfolio).
NoCircularWait ==
  \A cs \in (SUBSET Consumers) \ {{}} : \E c \in cs :
    \A d \in cs \ {c} : ~WaitsFor(c, d)

\* The claims and the snapshots tell the same story: each processed event has
\* exactly one snapshot, in the trail of its asset, and nothing else has one.
OneSnapshotPerEvent ==
  /\ \A a \in Assets : \A i \in DOMAIN pnl_snapshots[a] :
       /\ pnl_snapshots[a][i].event_id \in processed_events
       /\ AssetOf(pnl_snapshots[a][i].event_id) = a
       /\ \A j \in DOMAIN pnl_snapshots[a] :
            pnl_snapshots[a][i].event_id = pnl_snapshots[a][j].event_id => i = j
  /\ \A e \in processed_events : \E i \in DOMAIN pnl_snapshots[AssetOf(e)] :
       pnl_snapshots[AssetOf(e)][i].event_id = e

\* The snapshots of an asset are a gapless running account that ends in the row:
\* a sell adds what it realized to the total before it, a buy realizes nothing.
RunningTotal(a, i) == IF i = 0 THEN 0 ELSE pnl_snapshots[a][i].total_realized_pnl

AuditTrail ==
  \A a \in Assets :
    /\ \A i \in DOMAIN pnl_snapshots[a] :
         LET snapshot == pnl_snapshots[a][i]
         IN  IF TradeOf[snapshot.event_id].side = "sell"
             THEN RunningTotal(a, i) = RunningTotal(a, i - 1) + snapshot.realized_pnl
             ELSE /\ RunningTotal(a, i) = RunningTotal(a, i - 1)
                  /\ snapshot.realized_pnl = 0
    /\ PortfolioOf(a).total_realized_pnl
         = RunningTotal(a, Len(pnl_snapshots[a]))

\* The books of an asset balance: what the row says is open and realized is what
\* the processed events bought and sold, each counted once.
Processed(a, side) ==
  {e \in processed_events : AssetOf(e) = a /\ TradeOf[e].side = side}
Units(es) == MapThenSumSet(LAMBDA e : TradeOf[e].quantity, es)
Value(es) == MapThenSumSet(LAMBDA e : TradeOf[e].quantity * TradeOf[e].price, es)

BooksBalance ==
  \A a \in Assets :
    LET row == PortfolioOf(a)
        bought == Processed(a, "buy")
        sold   == Processed(a, "sell")
    IN  /\ row.total_quantity = Units(bought) - Units(sold)
        /\ row.total_realized_pnl - CostOf(row.lots) = Value(sold) - Value(bought)

\* The loop of consume_fifo never finds the queue empty: a sell that passes the
\* balance check finds enough in the lots.
LotsCoverSells ==
  \A a \in Assets : \A e \in Events :
    LET row == PortfolioOf(a)
    IN  AssetOf(e) = a /\ TradeOf[e].side = "sell" /\ ~Rejects(row, e)
          => ConsumeFifo(row.lots, TradeOf[e].quantity, TradeOf[e].price).left = 0

\* The committed offset of the group never goes back, though several instances
\* commit asynchronously and some of them after they lost the partition.
OffsetsNeverRewind ==
  [][\A p \in Partitions : committed'[p] >= committed[p]]_vars

\* The tables change as ExactlyOnce says, and in no other way.
EO == INSTANCE ExactlyOnce
EffectivelyOnce == EO!Spec

\* A record of the topic does not lie there for ever: some instance processes it
\* or reports it as failed.
EveryRecordAttempted ==
  \A m \in Messages :
    (\E o \in DOMAIN log[PartitionOf[m]] : log[PartitionOf[m]][o] = m) ~> Attempted(m)

\* consumer.rs:27-28: "we only advance the offset after a successful DB commit so
\* no event is silently dropped on crash".
NoEventDropped ==
  \A p \in Partitions : \A o \in DOMAIN log[p] :
    o <= committed[p] => log[p][o] \in PoisonPills \union processed_events

-----------------------------------------------------------------------------
(* The inductive invariant behind the safety properties. *)

\* A claim is held by one transaction, for an event that is not processed yet.
ClaimsExclusive ==
  \A c \in Consumers : pc[c] \in Claiming =>
    /\ EventOf(c) \notin processed_events
    /\ \A d \in Consumers \ {c} : ~HoldsClaim(d, EventOf(c))

\* A row is read for update by one transaction at a time.
RowsExclusive ==
  \A c \in Consumers : pc[c] \in Holding =>
    \A d \in Consumers \ {c} :
      pc[d] \in Holding => AssetOf(EventOf(d)) # AssetOf(EventOf(c))

\* A transaction that is rolled back as a duplicate is one.
RollbacksAreDuplicates ==
  \A c \in Consumers : pc[c] = "rollback" => EventOf(c) \in processed_events

\* After the first statement of load_portfolio.
RowEnsured == {"select_for_update"} \union Holding

\* The first row of an asset is inserted by one transaction, which goes on to lock
\* it, and whoever has got past that statement without inserting it has found it.
KeysExclusive ==
  \A c \in Consumers : pc[c] \in RowEnsured =>
    LET a == AssetOf(EventOf(c))
    IN  IF c \in inserted
        THEN ~HasRow(a) /\ \A d \in Consumers \ {c} : ~HoldsKey(d, a)
        ELSE HasRow(a)

InsertedGoOn == \A c \in inserted : pc[c] \in RowEnsured

\* The offsets of a partition are in order, and its owner, if it has a record of
\* the partition in hand, has the last one it received.
OffsetsInOrder ==
  \A p \in Partitions :
    /\ committed[p] <= Len(log[p]) /\ pending[p] <= Len(log[p])
    /\ pending[p] # 0 => owner[p] # NoConsumer /\ committed[p] <= pending[p]
    /\ owner[p] # NoConsumer =>
         /\ pc[owner[p]] # "down"
         /\ committed[p] <= position[p] /\ pending[p] <= position[p]
         /\ position[p] <= Len(log[p])
         /\ pc[owner[p]] \in Processing /\ current[owner[p]].partition = p
              => current[owner[p]].offset = position[p]

\* Whatever the owner of a partition has received it has finished with, but for
\* the record in hand.
ReceivedIsAttempted ==
  \A p \in Partitions : owner[p] # NoConsumer =>
    \A o \in DOMAIN log[p] : o <= position[p] =>
      \/ Attempted(log[p][o])
      \/ /\ pc[owner[p]] \in Processing
         /\ current[owner[p]] = [partition |-> p, offset |-> o]

IInv == /\ TypeOK
        /\ ClaimsExclusive
        /\ RowsExclusive
        /\ KeysExclusive
        /\ InsertedGoOn
        /\ RollbacksAreDuplicates
        /\ NoStaleWrite
        /\ OneSnapshotPerEvent
        /\ AuditTrail
        /\ OffsetsInOrder
        /\ NoUnattemptedSkip
        /\ ReceivedIsAttempted
=============================================================================
