--------------------------- MODULE LedgerService ----------------------------
(***************************************************************************)
(* ledger-service: replicas behind a load balancer that take trades over   *)
(* HTTP.  Each keeps a portfolio in memory, writes the trade to the table  *)
(* trades if it found PostgreSQL when it started, answers, and publishes   *)
(* an event in a task of its own.                                          *)
(*                                                                         *)
(* A request is a client's try at a trade it wants: after a failure, or if *)
(* the answer does not reach it, the client may send the same body again,  *)
(* and Trade::new gives each request an id of its own.                     *)
(*                                                                         *)
(* A definition whose comment begins with "Slip" is no part of the model:  *)
(* it is a bug that the definition after it does not have, kept to show    *)
(* that a property would notice.                                           *)
(***************************************************************************)
EXTENDS Positions, FiniteSets

CONSTANTS
  Replicas, NoReplica,
  Wanted,         \* the trades that clients want, by name: the bodies they post
  MAX_RETRIES,    \* of a publish task: sends before it gives up
  SEND_RETRIES,   \* of the Kafka client, inside one send ("retries")
  MaxTries,       \* bound: per trade, the requests that its client sends for it
  MaxCrashes,     \* bound: crashes and shutdowns in a behaviour
  MaxDisconnects  \* bound: connections that break before the client has its answer

Wishes   == DOMAIN Wanted
Requests == UNION {{w} \X (1 .. MaxTries[w]) : w \in Wishes}
BodyOf(id) == Wanted[id[1]]

ASSUME BoundsAssumption ==
  /\ MAX_RETRIES \in Nat \ {0} /\ SEND_RETRIES \in Nat
  /\ MaxTries \in [Wishes -> Nat] /\ MaxCrashes \in Nat /\ MaxDisconnects \in Nat
ASSUME NoReplicaAssumption == NoReplica \notin Replicas

\* Clients post whatever Decimals they like; an unknown side is no JSON that serde
\* takes, and execute never sees it.
ASSUME WantedAssumption ==
  /\ IsFiniteSet(Wishes)
  /\ \A w \in Wishes : /\ Wanted[w].side \in {"buy", "sell"}
                       /\ Wanted[w].quantity \in Int /\ Wanted[w].price \in Int

VARIABLES
  \* the replicas
  up,             \* the replicas that run
  trade_repo,     \* those of them that found PostgreSQL when they started
  event_producer, \* those of them that could build a producer
  portfolio,      \* per replica, its memory
  poisoned,       \* those of them whose lock of it is poisoned
  \* the requests
  outcome,        \* what the server answers, or where execute waits
  server,         \* the replica whose memory holds the trade, or NoReplica
  attempt,        \* the send that the publish task is at, or 0 if there is none
  \* outside
  disconnected,   \* the requests whose connection broke before the client had an answer
  orphaned,       \* INSERTs on their way that nobody waits for any more
  trades,         \* the ids in the table
  copies,         \* per id, the records of its event in the topic
  given_up,       \* the ids whose event the log and the failure counter give up
  crashes         \* crashes so far

replicaVars == <<up, trade_repo, event_producer, portfolio, poisoned>>
requestVars == <<outcome, server, attempt>>
tableVars   == <<orphaned, trades>>
topicVars   == <<copies, given_up>>
vars == <<replicaVars, requestVars, tableVars, topicVars, disconnected, crashes>>

\* "saving": in save_trade.  "stored", "accepted": 201, with the row in the table
\* or from a replica without a database, whether or not it reaches the client.
\* "refused": 422.  "failed": an error, or none, after the trade was applied to
\* memory.  "panicked": no answer, from a handler that has not applied the trade.
Outcomes == {"unsent", "saving", "stored", "accepted", "refused", "failed", "panicked"}
Answered == {"stored", "accepted"}
Failures == {"failed", "panicked"}

Init == /\ up = {} /\ trade_repo = {} /\ event_producer = {}
        /\ portfolio = [r \in Replicas |-> NewPortfolio] /\ poisoned = {}
        /\ outcome   = [id \in Requests |-> "unsent"]
        /\ server    = [id \in Requests |-> NoReplica]
        /\ attempt   = [id \in Requests |-> 0]
        /\ orphaned  = {} /\ trades = {}
        /\ copies    = [id \in Requests |-> 0] /\ given_up = {}
        /\ disconnected = {}
        /\ crashes   = 0

-----------------------------------------------------------------------------
(* main. *)

\* PostgreSQL and Kafka are optional, and looked for only now.
Start(r) ==
  /\ r \notin up
  /\ up' = up \union {r}
  /\ trade_repo'     \in {trade_repo, trade_repo \union {r}}
  /\ event_producer' \in {event_producer, event_producer \union {r}}
  /\ UNCHANGED <<portfolio, poisoned, requestVars, tableVars, topicVars, disconnected, crashes>>

Saving(r) == {id \in Requests : server[id] = r /\ outcome[id] = "saving"}

\* Slip: the publish tasks of a dead replica go on.
CrashKeepsTasks(r) ==
  /\ r \in up
  /\ crashes < MaxCrashes
  /\ crashes' = crashes + 1
  /\ up' = up \ {r}
  /\ trade_repo' = trade_repo \ {r}
  /\ event_producer' = event_producer \ {r}
  /\ portfolio' = [portfolio EXCEPT ![r] = NewPortfolio]
  /\ poisoned'  = poisoned \ {r}
  /\ outcome'   = [id \in Requests |-> IF id \in Saving(r) THEN "failed" ELSE outcome[id]]
  /\ server'    = [id \in Requests |-> IF server[id] = r THEN NoReplica ELSE server[id]]
  /\ orphaned'  = orphaned \union Saving(r)
  /\ UNCHANGED <<attempt, trades, topicVars, disconnected>>

\* The process ends: memory, handlers and publish tasks are gone, and an INSERT
\* that was sent may still be carried out.  A graceful shutdown is the case in
\* which no request is being saved: nothing waits for the publish tasks.
Crash(r) ==
  /\ r \in up
  /\ crashes < MaxCrashes
  /\ crashes' = crashes + 1
  /\ up' = up \ {r}
  /\ trade_repo' = trade_repo \ {r}
  /\ event_producer' = event_producer \ {r}
  /\ portfolio' = [portfolio EXCEPT ![r] = NewPortfolio]
  /\ poisoned'  = poisoned \ {r}
  /\ outcome'   = [id \in Requests |-> IF id \in Saving(r) THEN "failed" ELSE outcome[id]]
  /\ attempt'   = [id \in Requests |-> IF server[id] = r THEN 0 ELSE attempt[id]]
  /\ server'    = [id \in Requests |-> IF server[id] = r THEN NoReplica ELSE server[id]]
  /\ orphaned'  = orphaned \union Saving(r)
  /\ UNCHANGED <<trades, topicVars, disconnected>>

-----------------------------------------------------------------------------
(* POST /trades: CreateTradeService::execute up to its first await. *)

\* The client sends its request; or sends it again, after a failure or because the
\* connection broke.
Sends(id) ==
  /\ outcome[id] = "unsent"
  /\ id[2] > 1 => LET last == <<id[1], id[2] - 1>>
                  IN  outcome[last] \in Failures \/ last \in disconnected

\* A valid trade gets to the portfolio: its notional value fits, and the lock is
\* not poisoned.
Locks(r, id) == ValidTrade(BodyOf(id)) /\ NotionalFits(BodyOf(id)) /\ r \notin poisoned

\* Not a valid trade, or one that the portfolio does not cover.
Reject(r, id) ==
  /\ r \in up
  /\ Sends(id)
  /\ ~ValidTrade(BodyOf(id)) \/ (Locks(r, id) /\ Refuses(portfolio[r], BodyOf(id)))
  /\ outcome' = [outcome EXCEPT ![id] = "refused"]
  /\ UNCHANGED <<replicaVars, server, attempt, tableVars, topicVars, disconnected, crashes>>

\* A valid trade does not get to the portfolio: the handler panics, which breaks
\* the connection.
Panic(r, id) ==
  /\ r \in up
  /\ Sends(id)
  /\ ValidTrade(BodyOf(id)) /\ ~Locks(r, id)
  /\ outcome' = [outcome EXCEPT ![id] = "panicked"]
  /\ UNCHANGED <<replicaVars, server, attempt, tableVars, topicVars, disconnected, crashes>>

\* A sum does not fit: a panic in apply_trade or after it, under the write lock.
Overflow(r, id) ==
  /\ r \in up
  /\ Sends(id)
  /\ Locks(r, id)
  /\ ~Refuses(portfolio[r], BodyOf(id)) /\ ~SumsFit(portfolio[r], BodyOf(id))
  /\ portfolio' = [portfolio EXCEPT ![r] = Torn(@, BodyOf(id))]
  /\ poisoned'  = poisoned \union {r}
  /\ outcome'   = [outcome EXCEPT ![id] = "panicked"]
  /\ UNCHANGED <<up, trade_repo, event_producer, server, attempt, tableVars, topicVars,
                 disconnected, crashes>>

\* The answer, and the publish task if the replica has a producer.
Respond(id, r, answer) ==
  /\ outcome' = [outcome EXCEPT ![id] = answer]
  /\ attempt' = [attempt EXCEPT ![id] = IF r \in event_producer THEN 1 ELSE 0]

\* Slip: the balance is not looked at.
ApplyUnchecked(r, id) ==
  /\ r \in up
  /\ Sends(id)
  /\ Locks(r, id)
  /\ portfolio' = [portfolio EXCEPT ![r] = ApplyTrade(@, BodyOf(id))]
  /\ server'    = [server EXCEPT ![id] = r]
  /\ IF r \in trade_repo
     THEN outcome' = [outcome EXCEPT ![id] = "saving"] /\ UNCHANGED attempt
     ELSE Respond(id, r, "accepted")
  /\ UNCHANGED <<up, trade_repo, event_producer, poisoned, tableVars, topicVars, disconnected,
                 crashes>>

\* Slip: the publish task starts before the trade is saved.
ApplyAndPublish(r, id) ==
  /\ r \in up
  /\ Sends(id)
  /\ Locks(r, id)
  /\ ~Refuses(portfolio[r], BodyOf(id)) /\ SumsFit(portfolio[r], BodyOf(id))
  /\ portfolio' = [portfolio EXCEPT ![r] = ApplyTrade(@, BodyOf(id))]
  /\ server'    = [server EXCEPT ![id] = r]
  /\ Respond(id, r, IF r \in trade_repo THEN "saving" ELSE "accepted")
  /\ UNCHANGED <<up, trade_repo, event_producer, poisoned, tableVars, topicVars, disconnected,
                 crashes>>

\* The trade is applied to memory under the write lock, then saved.
Apply(r, id) ==
  /\ r \in up
  /\ Sends(id)
  /\ Locks(r, id)
  /\ ~Refuses(portfolio[r], BodyOf(id)) /\ SumsFit(portfolio[r], BodyOf(id))
  /\ portfolio' = [portfolio EXCEPT ![r] = ApplyTrade(@, BodyOf(id))]
  /\ server'    = [server EXCEPT ![id] = r]
  /\ IF r \in trade_repo
     THEN outcome' = [outcome EXCEPT ![id] = "saving"] /\ UNCHANGED attempt
     ELSE Respond(id, r, "accepted")
  /\ UNCHANGED <<up, trade_repo, event_producer, poisoned, tableVars, topicVars, disconnected,
                 crashes>>

\* Slip: save_trade is spawned, and the answer does not wait for it.
SaveInBackground(id) ==
  /\ outcome[id] = "saving"
  /\ orphaned' = orphaned \union {id}
  /\ Respond(id, server[id], "stored")
  /\ UNCHANGED <<replicaVars, server, trades, topicVars, disconnected, crashes>>

\* save_trade returns Ok.
SaveTrade(id) ==
  /\ outcome[id] = "saving"
  /\ trades' = trades \union {id}
  /\ Respond(id, server[id], "stored")
  /\ UNCHANGED <<replicaVars, server, orphaned, topicVars, disconnected, crashes>>

\* save_trade returns an error, without effect.  Memory keeps the trade.
SaveFails(id) ==
  /\ outcome[id] = "saving"
  /\ outcome' = [outcome EXCEPT ![id] = "failed"]
  /\ UNCHANGED <<replicaVars, server, attempt, tableVars, topicVars, disconnected, crashes>>

\* The handler is dropped in save_trade: after 30 s by TimeoutLayer, or because
\* hyper has noticed that the client is gone.
Abandon(id) ==
  /\ outcome[id] = "saving"
  /\ outcome'  = [outcome EXCEPT ![id] = "failed"]
  /\ orphaned' = orphaned \union {id}
  /\ UNCHANGED <<replicaVars, server, attempt, trades, topicVars, disconnected, crashes>>

\* PostgreSQL carries out an INSERT that nobody waits for.
LateInsert(id) ==
  /\ id \in orphaned
  /\ orphaned' = orphaned \ {id}
  /\ trades'   = trades \union {id}
  /\ UNCHANGED <<replicaVars, requestVars, topicVars, disconnected, crashes>>

\* The connection breaks: the client does not learn the answer, be it given already
\* or not, and the server goes on as before, if it does not notice (Abandon).  What
\* matters is that a client that can try again may do so.
Disconnect(id) ==
  /\ outcome[id] \notin Failures \union {"unsent"}
  /\ id \notin disconnected /\ id[2] < MaxTries[id[1]]
  /\ Cardinality(disconnected) < MaxDisconnects
  /\ disconnected' = disconnected \union {id}
  /\ UNCHANGED <<replicaVars, requestVars, tableVars, topicVars, crashes>>

-----------------------------------------------------------------------------
(* KafkaTradeProducer::publish_trade_created. *)

\* The records that one send can put in the topic: the client repeats a request
\* whose answer it missed, and is no idempotent producer.
MaxPerSend == 1 + SEND_RETRIES

\* One send, and what it has put in the topic when it returns.
Send(id, deliveries) ==
  /\ attempt[id] > 0
  /\ \E delivered \in deliveries : copies' = [copies EXCEPT ![id] = @ + delivered]
  /\ UNCHANGED <<replicaVars, outcome, server, tableVars, disconnected, crashes>>

\* The send returns Ok.
SendAcked(id) ==
  /\ Send(id, 1 .. MaxPerSend)
  /\ attempt' = [attempt EXCEPT ![id] = 0]
  /\ UNCHANGED given_up

\* Slip: one send too many.
SendsOnceMore(id) ==
  /\ Send(id, 0 .. MaxPerSend)
  /\ attempt'  = [attempt EXCEPT ![id] = IF @ > MAX_RETRIES THEN 0 ELSE @ + 1]
  /\ given_up' = IF attempt[id] > MAX_RETRIES THEN given_up \union {id} ELSE given_up

\* Slip: the loop is 1..MAX_RETRIES, and ends before the attempt that it would log.
SendsOneFewer(id) ==
  /\ Send(id, 0 .. MaxPerSend)
  /\ attempt' = [attempt EXCEPT ![id] = IF @ + 1 >= MAX_RETRIES THEN 0 ELSE @ + 1]
  /\ UNCHANGED given_up

\* The send returns an error, whether or not its record has reached the topic: the
\* next try, or a failure that is counted and logged.  A crash in mid-send is this,
\* and then a crash.
SendFails(id) ==
  /\ Send(id, 0 .. MaxPerSend)
  /\ attempt'  = [attempt EXCEPT ![id] = IF @ = MAX_RETRIES THEN 0 ELSE @ + 1]
  /\ given_up' = IF attempt[id] = MAX_RETRIES THEN given_up \union {id} ELSE given_up

-----------------------------------------------------------------------------
Publish(id) == SendAcked(id) \/ SendFails(id)
Save(id)    == SaveTrade(id) \/ SaveFails(id) \/ Abandon(id)

Next ==
  \/ \E r \in Replicas : Start(r) \/ Crash(r)
  \/ \E r \in Replicas, id \in Requests :
       Reject(r, id) \/ Panic(r, id) \/ Overflow(r, id) \/ Apply(r, id)
  \/ \E id \in Requests : Save(id) \/ LateInsert(id) \/ Disconnect(id) \/ Publish(id)

Spec == Init /\ [][Next]_vars

\* save_trade returns or the TimeoutLayer fires, and a send returns by its own
\* timeouts.  Nothing makes a client send, a replica start or a connection break.
Fairness == \A id \in Requests : WF_vars(Save(id)) /\ WF_vars(Publish(id))

-----------------------------------------------------------------------------
(* Properties. *)

\* Every variable has its shape, and what belongs to a process goes with it.
TypeOK ==
  /\ up \subseteq Replicas /\ trade_repo \subseteq up /\ event_producer \subseteq up
  /\ DOMAIN portfolio = Replicas /\ poisoned \subseteq up
  /\ \A r \in Replicas \ up : portfolio[r] = NewPortfolio
  /\ outcome \in [Requests -> Outcomes]
  /\ server  \in [Requests -> up \union {NoReplica}]
  /\ attempt \in [Requests -> 0 .. MAX_RETRIES]
  /\ \A id \in Requests :
       attempt[id] > 0 => server[id] \in event_producer /\ outcome[id] \in Answered
  /\ \A id \in Requests : outcome[id] = "saving" => server[id] \in trade_repo
  /\ orphaned \subseteq Requests /\ trades \subseteq Requests
  /\ copies \in [Requests -> Nat] /\ given_up \subseteq Requests
  /\ disconnected \subseteq Requests
  /\ crashes \in 0 .. MaxCrashes

\* The ids of a set that buy or sell an asset, their units and their value.
Of(ids, a, side) == {id \in ids : BodyOf(id).asset = a /\ BodyOf(id).side = side}
Units(ids) == MapThenSumSet(LAMBDA id : BodyOf(id).quantity, ids)
Value(ids) == MapThenSumSet(LAMBDA id : BodyOf(id).quantity * BodyOf(id).price, ids)

Symbols == {Wanted[w].asset : w \in Wishes}

\* The memory of a replica is the account of the trades it has applied since it
\* started, those among them included whose request then failed: no position is
\* short, no trade counts twice, none is forgotten.  A request that panicked is not
\* among them, and what it leaves behind nobody reads.
MemoryIsAccount ==
  \A r \in Replicas \ poisoned :
    LET applied == {id \in Requests : server[id] = r}
        all(side) == UNION {Of(applied, a, side) : a \in Symbols}
    IN  /\ \A a \in Symbols :
             LET position == PositionOf(portfolio[r], a)
             IN  /\ position.total_quantity
                      = Units(Of(applied, a, "buy")) - Units(Of(applied, a, "sell"))
                 /\ position.total_quantity = TotalOf(position.lots)
        /\ portfolio[r].total_realized_pnl
             = Value(all("sell")) - Value(all("buy"))
               + MapThenSumSet(LAMBDA a : CostOf(PositionOf(portfolio[r], a).lots), Symbols)

\* What the table says agrees with the answers: a 201 of a replica with a database
\* has its row, and no trade has one that was refused, or not sent, or has panicked,
\* or is not answered, or was accepted without a database.
TableAgreesWithAnswers ==
  \A id \in Requests :
    /\ outcome[id] = "stored" => id \in trades
    /\ id \in trades \union orphaned => outcome[id] \in {"stored", "failed"}

\* No event without a trade that the server answers with 201, and has saved if it
\* could.  The client may not have got the answer.
OnlyKeptTradesPublished ==
  \A id \in Requests : copies[id] > 0 \/ attempt[id] > 0 =>
    \/ outcome[id] = "stored" /\ id \in trades
    \/ outcome[id] = "accepted" /\ id \notin trades

\* What is in the topic and what a publish task can still put there: an event has
\* at most MAX_RETRIES sends of MaxPerSend records each, all under one event_id.
SendsLeft(id) == IF attempt[id] > 0 THEN MAX_RETRIES + 1 - attempt[id] ELSE 0
CopiesBounded ==
  \A id \in Requests :
    copies[id] + MaxPerSend * SendsLeft(id) <= MaxPerSend * MAX_RETRIES

\* No event is lost without a trace: a trade that was answered with 201 by a replica
\* with a producer has its event in the topic, or a publish task that is still at it,
\* or a failure that is counted and logged.  A replica that stops takes its tasks
\* with it, and leaves no trace of them.
NoEventLostSilently ==
  \A id \in Requests : outcome[id] \in Answered /\ server[id] \in event_producer =>
    copies[id] > 0 \/ attempt[id] > 0 \/ id \in given_up

\* Over all replicas and all crashes, no more of an asset is sold than was bought,
\* if the buys whose request failed count.
NeverOversold ==
  \A a \in Symbols :
    Units({id \in Of(Requests, a, "sell") : outcome[id] \in Answered})
      <= Units({id \in Of(Requests, a, "buy") :
                  outcome[id] \in Answered \union {"saving", "failed"}})

\* repository.rs:75-76: "ON CONFLICT (id) DO NOTHING makes the call idempotent, so
\* retrying a failed request is safe": no trade that a client wanted once is in
\* the table twice.
RetryIsSafe ==
  \A w \in Wishes : Cardinality({id \in trades : id[1] = w}) <= 1

\* README.md:483: "stateless beyond its database connection pool.  It can be scaled
\* horizontally behind a load balancer without any coordination": whichever replica
\* gets a trade, the verdict is the same, at least when no request is under way and
\* no lock poisoned.
AnyReplicaWillDo ==
  (\A id \in Requests : outcome[id] # "saving") =>
    \A r, s \in up \ poisoned : \A w \in Wishes :
      Refuses(portfolio[r], Wanted[w]) <=> Refuses(portfolio[s], Wanted[w])
=============================================================================
