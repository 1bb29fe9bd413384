------------------------------ MODULE Pipeline ------------------------------
(***************************************************************************)
(* The whole way of a trade: ledger-service takes it and publishes its     *)
(* event, pnl-consumer books the event, pnl-grpc reads the books.  The     *)
(* consumer group is what ExactlyOnce says of it, which PnlConsumer        *)
(* implements: here an event is booked in one step, and an event in the    *)
(* topic may be handed to the group in any order and any number of times.  *)
(***************************************************************************)
EXTENDS LedgerService, SequencesExt

VARIABLES
  \* the database of pnl-consumer
  processed_events, portfolio_state, pnl_snapshots,
  failed,   \* the events for which process has returned an error
  booked    \* history: per replica and asset, what its memory has applied, in order

pnlTables    == <<processed_events, portfolio_state, pnl_snapshots>>
pipelineVars == <<vars, pnlTables, failed, booked>>

\* The events that ledger-service can publish: those of valid trades.
TradeEvents == {id \in Requests : ValidTrade(BodyOf(id))}

AP == INSTANCE AssetPortfolio
        WITH Assets <- Symbols, Events <- TradeEvents,
             TradeOf <- [id \in TradeEvents |-> BodyOf(id)]

PNL == INSTANCE ExactlyOnce
         WITH Assets <- Symbols, Events <- TradeEvents,
              EmptyPortfolio <- AP!EmptyPortfolio, AssetOf <- AP!AssetOf,
              Rejects <- AP!Rejects, Applied <- AP!Applied, RealizedOf <- AP!RealizedOf

PipelineInit ==
  /\ Init /\ PNL!Init
  /\ failed = {}
  /\ booked = [r \in Replicas |-> [a \in Symbols |-> << >>]]

\* The trade of an asset that a replica takes in a step, if it takes one.
Taking(r, a) ==
  {id \in Requests : server'[id] = r /\ server[id] # r /\ BodyOf(id).asset = a}

\* A step of ledger-service: what a replica applies joins its history, which is lost
\* with its memory.
LedgerStep ==
  /\ Next
  /\ booked' = [r \in Replicas |-> [a \in Symbols |->
       IF r \in up' THEN booked[r][a] \o SetToSeq(Taking(r, a)) ELSE << >>]]
  /\ UNCHANGED <<pnlTables, failed>>

-----------------------------------------------------------------------------
(* pnl-consumer. *)

\* process returns Ok(true).
Consume(id) ==
  /\ copies[id] > 0
  /\ PNL!ApplyOnce(id)
  /\ UNCHANGED <<vars, failed, booked>>

\* process returns an error: the portfolio does not admit the event, or a statement
\* has failed.  The loop goes on to the next record.
Fail(id) ==
  /\ copies[id] > 0
  /\ id \notin processed_events \union failed
  /\ failed' = failed \union {id}
  /\ UNCHANGED <<vars, pnlTables, booked>>

\* The first time that an instance looks at the event.
Attend(id) == id \notin failed /\ (Fail(id) \/ Consume(id))

PipelineNext == LedgerStep \/ \E id \in TradeEvents : Consume(id) \/ Fail(id)

PipelineSpec == PipelineInit /\ [][PipelineNext]_pipelineVars

\* That every event is looked at is EveryRecordAttempted of PnlConsumer.
PipelineFairness ==
  Fairness /\ \A id \in TradeEvents : WF_pipelineVars(Attend(id))

FairPipelineSpec == PipelineSpec /\ PipelineFairness

-----------------------------------------------------------------------------
(* pnl-grpc: what a client can read.  Each is one SELECT. *)

NotFound == [code |-> "not_found"]

\* Slip: WHERE asset = $1 AND total_quantity > 0.
GetOpenSummary(a) ==
  IF a \in DOMAIN portfolio_state /\ portfolio_state[a].total_quantity > 0
  THEN [code               |-> "ok",
        total_realized_pnl |-> portfolio_state[a].total_realized_pnl,
        total_quantity     |-> portfolio_state[a].total_quantity,
        open_lots          |-> portfolio_state[a].lots]
  ELSE NotFound

GetPnlSummary(a) ==
  IF a \in DOMAIN portfolio_state
  THEN [code               |-> "ok",
        total_realized_pnl |-> portfolio_state[a].total_realized_pnl,
        total_quantity     |-> portfolio_state[a].total_quantity,
        open_lots          |-> portfolio_state[a].lots]
  ELSE NotFound

ListAssets == DOMAIN portfolio_state

-----------------------------------------------------------------------------
(* Properties. *)

\* The trades of an asset in the order of the books.
BookedOf(a)   == [i \in DOMAIN pnl_snapshots[a] |-> pnl_snapshots[a][i].event_id]
RealizedTotal == MapThenSumSet(LAMBDA a : PNL!PortfolioOf(a).total_realized_pnl, Symbols)

\* It takes an event that is late, lost or from another replica, or a panic, to set the
\* books and a replica's memory at variance: as long as the events of an asset are
\* booked in the order of the memory, none is rejected, and in the end both have
\* the same lots and the same profit.
SameOrderSameBooks ==
  \A r \in up \ poisoned :
    /\ \A a \in Symbols : IsPrefix(BookedOf(a), booked[r][a]) =>
         LET n   == Len(BookedOf(a))
             row == PNL!PortfolioOf(a)
         IN  IF n < Len(booked[r][a])
             THEN ~AP!Rejects(row, booked[r][a][n + 1])
             ELSE PositionOf(portfolio[r], a)
                    = [lots |-> row.lots, total_quantity |-> row.total_quantity]
    /\ (\A a \in Symbols : BookedOf(a) = booked[r][a])
         => portfolio[r].total_realized_pnl = RealizedTotal

\* In another order the lots differ, and the profit that is realized, but not the
\* units nor the money: realized profit less the cost of what is held.
SameTradesSameMoney ==
  \A r \in up \ poisoned : processed_events = {id \in Requests : server[id] = r} =>
    /\ \A a \in Symbols :
         PNL!PortfolioOf(a).total_quantity = PositionOf(portfolio[r], a).total_quantity
    /\ RealizedTotal - MapThenSumSet(LAMBDA a : CostOf(PNL!PortfolioOf(a).lots), Symbols)
         = portfolio[r].total_realized_pnl
             - MapThenSumSet(LAMBDA a : CostOf(PositionOf(portfolio[r], a).lots), Symbols)

\* client.rs asks for the list and then for an asset: one that was listed is found
\* from then on, also when all of it has been sold, and what two readings differ by
\* is whole events: the units of one, of which the lots shown account for each.
ReadsFollowEvents ==
  [][\A a \in ListAssets :
       LET was == GetPnlSummary(a)
           now == GetPnlSummary(a)'
       IN  /\ now # NotFound
           /\ now # was =>
                \E id \in processed_events' \ processed_events :
                  /\ BodyOf(id).asset = a
                  /\ now.total_quantity - was.total_quantity
                       = IF BodyOf(id).side = "buy"
                         THEN BodyOf(id).quantity ELSE -BodyOf(id).quantity
           /\ now.code = "ok" => now.total_quantity = TotalOf(now.open_lots)
    ]_pipelineVars

\* Clients send finitely many requests.  In the end each has come to its end, every
\* publish task too, and an event that has reached the topic is booked or reported as
\* failed.  So is the event of a trade that was answered with 201, or ledger-service
\* has reported it as lost, unless the replica has stopped or has no producer.
Settled(id) ==
  /\ outcome[id] # "saving" /\ attempt[id] = 0
  /\ copies[id] > 0 => id \in processed_events \union failed
  /\ outcome[id] \in Answered /\ server[id] \in event_producer
       => id \in processed_events \union failed \union given_up
EverythingSettles == <>[](\A id \in Requests : Settled(id))
=============================================================================
