----------------------------- MODULE PaperBroker -----------------------------
(***************************************************************************)
(* The paper broker: the positions table, the account row, and the three   *)
(* operations database sessions run on them.                               *)
(*                                                                         *)
(*   mark     MarkToMarket.update_mark_prices                              *)
(*   close    PositionManager.close_positions_not_in_target                *)
(*   execute  PositionManager.execute_target_portfolio                     *)
(*                                                                         *)
(* Each is a loop whose body commits, and `close` and `execute` carry the  *)
(* account's cash in a local variable from their first line to their last. *)
(* An action is what a session does between two commits; the sessions (the *)
(* executor queue's worker, a trading cycle, an API request) interleave.   *)
(*                                                                         *)
(* The market, the stop-loss and take-profit levels and the entry gates    *)
(* (cooldowns, liquidity, missing prices) are abstracted: any price may be *)
(* read, any mark may hit a level, any target may be skipped.              *)
(***************************************************************************)
EXTENDS PaperMath, Sequences, FiniteSetsExt

CONSTANTS
  Symbols,
  InitCash,   \* initial_balance of the account
  NoHolding,  \* no pending order, no holding
  Sessions,   \* database sessions that operate on the account
  MayCrash,   \* whether an operation can end in an exception or a crash
  MaxRows     \* bound of the model: rows the positions table can get

Orders == [sym : Symbols, side : Sides, qty : Qtys, entry : Prices]

ASSUME BrokerAssumption ==
  /\ InitCash \in Nat
  /\ MaxRows \in Nat
  /\ MayCrash \in BOOLEAN
  /\ NoHolding \notin Orders \cup Holdings

VARIABLES
  rows,     \* the positions table, in the order of its ids
  cash,     \* account.cash_balance as committed
  equity,   \* account.equity as committed
  ses,      \* what every session has in memory
  sizing,   \* starting_equity, what the session's `execute` sizes its orders by
  mode,     \* history: "dirty" sessions have changed rows and not yet the cash,
            \* the operation of a "stale" one began before another one's changes
  tainted   \* history: a row was changed by a session that should have retried

vars == <<rows, cash, equity, ses, sizing, mode, tainted>>

Row == [sym : Symbols, side : Sides, qty : Qtys, entry : Prices,
        cur : Int, realized : Int, status : {"OPEN", "CLOSED"}]

AllFlat == [sym \in Symbols |-> "FLAT"]

Targets == [Symbols -> Sides \cup {"FLAT"}]

\* op     the operation, with the two points where it is between two commits:
\*        "credit" has closed a row and not yet paid it into the account,
\*        "create" has decided to open a position and not yet inserted it
\* todo   ids of the listed positions the loop has still to visit
\* want   the target portfolio; `execute` strikes out the symbols it has visited
\* avail  available_cash, seen  the cash_balance the session has loaded
\* pend   the order about to be inserted
Idle == [op |-> "idle", todo |-> {}, want |-> AllFlat, avail |-> 0,
         seen |-> 0, pend |-> NoHolding]

Memory ==
  [op : {"idle", "mark", "credit", "close", "execute", "create"},
   todo : SUBSET Nat, want : Targets, avail : Int,
   seen : Int, pend : Orders \cup {NoHolding}]

\* Mutant: list_open without its status filter.
EveryRow == DOMAIN rows

OpenRows == {r \in DOMAIN rows : rows[r].status = "OPEN"}

OpenOn(sym) == {r \in OpenRows : rows[r].sym = sym}

Worth(row) == IF row.status = "OPEN" THEN MarkValue(row, row.cur) ELSE 0

OpenValue(table) == SumFunction([r \in DOMAIN table |-> Worth(table[r])])

Init ==
  /\ rows = << >>
  /\ cash = InitCash
  /\ equity = InitCash
  /\ ses = [s \in Sessions |-> Idle]
  /\ sizing = [s \in Sessions |-> 0]
  /\ mode = [s \in Sessions |-> "clean"]
  /\ tainted = FALSE

-----------------------------------------------------------------------------
(***************************************************************************)
(* The history variables.  Commits(s): s commits a change of a position.   *)
(* Settles(s): what s has changed and what the account says agree again;   *)
(* operations running meanwhile began on an account that is no more.       *)
(***************************************************************************)
Commits(s) ==
  /\ mode' = [mode EXCEPT ![s] = "dirty"]
  /\ tainted' = \/ tainted
                \/ mode[s] = "stale"
                \/ \E t \in Sessions \ {s} : mode[t] = "dirty"

Settles(s) ==
  mode' = [t \in Sessions |->
             IF t = s THEN "clean"
             ELSE IF mode[s] = "dirty" /\ ses[t].op # "idle" THEN "stale"
             ELSE mode[t]]

Becomes(s, memory) == ses' = [ses EXCEPT ![s] = memory]

\* Mutant: the commission of the close is not deducted.
ProceedsWithoutFee(r, price) ==
  NetRecovered(rows[r], ExitPrice(price, rows[r].side))
    + Fee(rows[r].qty * ExitPrice(price, rows[r].side))

\* What closing row r at a market price pays into the account.
Proceeds(r, price) == NetRecovered(rows[r], ExitPrice(price, rows[r].side))

\* Mutant: the local balance is written whether or not the operation changed it.
WriteCashAlways(s) == cash' = ses[s].avail

\* Only an attribute that differs from the loaded one is written by a commit.
WriteCash(s) == cash' = IF ses[s].avail # ses[s].seen THEN ses[s].avail ELSE cash

UpdateEquity(balance) == equity' = balance + OpenValue(rows)

\* Mutant: close_position forgets the status.
LeftOpen(row, price) ==
  LET exit == ExitPrice(price, row.side)
  IN  [row EXCEPT !.cur = exit, !.realized = RawPnl(row, exit) - Fee(row.qty * exit)]

\* close_position and the fee its caller deducts from realized_pnl (the deduction
\* is committed with the caller's next commit; here with the close itself).
ClosedAt(row, price) ==
  LET exit == ExitPrice(price, row.side)
  IN  [row EXCEPT !.status = "CLOSED", !.cur = exit,
                  !.realized = RawPnl(row, exit) - Fee(row.qty * exit)]

-----------------------------------------------------------------------------
(* update_mark_prices *)

BeginMark(s) ==
  /\ ses[s].op = "idle"
  /\ Becomes(s, [ses[s] EXCEPT !.op = "mark", !.todo = OpenRows, !.seen = cash])
  /\ UNCHANGED <<rows, cash, equity, sizing, mode, tainted>>

\* No usable price: the position is left as it is.
SkipMark(s) ==
  /\ ses[s].op = "mark" /\ ses[s].todo # {}
  /\ Becomes(s, [ses[s] EXCEPT !.todo = @ \ {Min(@)}])
  /\ UNCHANGED <<rows, cash, equity, sizing, mode, tainted>>

\* The listed position gets its new price; nothing checks that it is still open.
Mark(s) ==
  /\ ses[s].op = "mark" /\ ses[s].todo # {}
  /\ \E price \in Prices :
       rows' = [rows EXCEPT ![Min(ses[s].todo)].cur = price]
  /\ Becomes(s, [ses[s] EXCEPT !.todo = @ \ {Min(@)}, !.seen = cash])
  /\ UNCHANGED <<cash, equity, sizing, mode, tainted>>

\* The price is beyond the stop-loss or take-profit level: the row is closed
\* (the commit of the new mark just before it is merged with the close's).
MarkHit(s) ==
  LET r == Min(ses[s].todo) IN
  /\ ses[s].op = "mark" /\ ses[s].todo # {}
  /\ \E price \in Prices :
       /\ rows' = [rows EXCEPT ![r] = ClosedAt(@, price)]
       /\ Becomes(s, [ses[s] EXCEPT !.op = "credit", !.todo = @ \ {r},
                                    !.seen = cash, !.avail = cash + Proceeds(r, price)])
  /\ Commits(s)
  /\ UNCHANGED <<cash, equity, sizing>>

\* ... and its proceeds reach the account with the commit after that.
MarkCredit(s) ==
  /\ ses[s].op = "credit"
  /\ WriteCash(s)
  /\ Becomes(s, [ses[s] EXCEPT !.op = "mark", !.avail = 0, !.seen = cash'])
  /\ Settles(s)
  /\ UNCHANGED <<rows, equity, sizing, tainted>>

EndMark(s) ==
  /\ ses[s].op = "mark" /\ ses[s].todo = {}
  /\ UpdateEquity(ses[s].seen)
  /\ Becomes(s, Idle)
  /\ Settles(s)
  /\ UNCHANGED <<rows, cash, sizing, tainted>>

-----------------------------------------------------------------------------
(* close_positions_not_in_target *)

BeginClose(s) ==
  /\ ses[s].op = "idle"
  /\ \E target \in Targets :
       Becomes(s, [ses[s] EXCEPT !.op = "close", !.want = target, !.todo = OpenRows,
                                 !.avail = cash, !.seen = cash])
  /\ UNCHANGED <<rows, cash, equity, sizing, mode, tainted>>

\* The target still holds the position's symbol, on the same side.
Keep(s) ==
  /\ ses[s].op = "close" /\ ses[s].todo # {}
  /\ LET row == rows[Min(ses[s].todo)] IN ses[s].want[row.sym] = row.side
  /\ Becomes(s, [ses[s] EXCEPT !.todo = @ \ {Min(@)}])
  /\ UNCHANGED <<rows, cash, equity, sizing, mode, tainted>>

\* Closed at the latest price or, when there is none, at the last mark.
CloseRow(s) ==
  LET r == Min(ses[s].todo) IN
  /\ ses[s].op = "close" /\ ses[s].todo # {}
  /\ ses[s].want[rows[r].sym] # rows[r].side
  /\ \E price \in Prices \cup {rows[r].cur} :
       /\ rows' = [rows EXCEPT ![r] = ClosedAt(@, price)]
       /\ Becomes(s, [ses[s] EXCEPT !.todo = @ \ {r}, !.seen = cash,
                                    !.avail = @ + Proceeds(r, price)])
  /\ Commits(s)
  /\ UNCHANGED <<cash, equity, sizing>>

-----------------------------------------------------------------------------
(* execute_target_portfolio *)

BeginExecute(s) ==
  /\ ses[s].op = "idle"
  /\ \E target \in Targets :
       Becomes(s, [ses[s] EXCEPT !.op = "execute", !.want = target,
                                 !.avail = cash, !.seen = cash])
  /\ sizing' = [sizing EXCEPT ![s] = equity]
  /\ UNCHANGED <<rows, cash, equity, mode, tainted>>

Unvisited(s) == {sym \in Symbols : ses[s].want[sym] # "FLAT"}

\* An open position, a cooldown, a missing price, thin liquidity or too little cash.
SkipTarget(s) ==
  /\ ses[s].op = "execute"
  /\ \E sym \in Unvisited(s) : Becomes(s, [ses[s] EXCEPT !.want = [@ EXCEPT ![sym] = "FLAT"]])
  /\ UNCHANGED <<rows, cash, equity, sizing, mode, tainted>>

\* Mutants: the check for an open position, or for the cost, is dropped.
AcceptsHeld(s, order) == Notional(order) <= sizing[s] /\ TotalCost(order) <= ses[s].avail

AcceptsUnpaid(s, order) == OpenOn(order.sym) = {} /\ Notional(order) <= sizing[s]

\* The symbol is free, the weight is at most 1 and the local cash pays for it.
Accepts(s, order) ==
  /\ OpenOn(order.sym) = {}
  /\ Notional(order) <= sizing[s]
  /\ TotalCost(order) <= ses[s].avail

\* Every check of the loop's body passes; MaxRows bounds the table.
Decide(s) ==
  /\ ses[s].op = "execute"
  /\ Len(rows) + Cardinality({t \in Sessions : ses[t].op = "create"}) < MaxRows
  /\ \E sym \in Unvisited(s), q \in Qtys, price \in Prices :
       LET order == [sym |-> sym, side |-> ses[s].want[sym], qty |-> q, entry |-> price] IN
       /\ Accepts(s, order)
       /\ Becomes(s, [ses[s] EXCEPT !.op = "create", !.pend = order,
                                    !.want = [@ EXCEPT ![sym] = "FLAT"]])
  /\ UNCHANGED <<rows, cash, equity, sizing, mode, tainted>>

Create(s) ==
  LET order == ses[s].pend IN
  /\ ses[s].op = "create"
  /\ rows' = Append(rows, [sym |-> order.sym, side |-> order.side, qty |-> order.qty,
                           entry |-> order.entry, cur |-> order.entry, realized |-> 0,
                           status |-> "OPEN"])
  /\ Becomes(s, [ses[s] EXCEPT !.op = "execute", !.pend = NoHolding, !.seen = cash,
                               !.avail = @ - TotalCost(order)])
  /\ Commits(s)
  /\ UNCHANGED <<cash, equity, sizing>>

-----------------------------------------------------------------------------
\* The last lines of `close` and `execute`: the account gets the local balance.
UpdateBalances(s) ==
  /\ \/ ses[s].op = "close" /\ ses[s].todo = {}
     \/ ses[s].op = "execute" /\ Unvisited(s) = {}
  /\ WriteCash(s)
  /\ UpdateEquity(ses[s].avail)
  /\ Becomes(s, Idle)
  /\ sizing' = [sizing EXCEPT ![s] = 0]
  /\ Settles(s)
  /\ UNCHANGED <<rows, tainted>>

\* An exception leaves the loop or the process dies: what was committed stays.
Crash(s) ==
  /\ MayCrash
  /\ ses[s].op # "idle"
  /\ Becomes(s, Idle)
  /\ sizing' = [sizing EXCEPT ![s] = 0]
  /\ Settles(s)
  /\ tainted' = (tainted \/ mode[s] = "dirty")
  /\ UNCHANGED <<rows, cash, equity>>

Step(s) ==
  \/ BeginMark(s) \/ SkipMark(s) \/ Mark(s) \/ MarkHit(s) \/ MarkCredit(s) \/ EndMark(s)
  \/ BeginClose(s) \/ Keep(s) \/ CloseRow(s)
  \/ BeginExecute(s) \/ SkipTarget(s) \/ Decide(s) \/ Create(s)
  \/ UpdateBalances(s) \/ Crash(s)

Next == \E s \in Sessions : Step(s)

Spec == Init /\ [][Next]_vars

-----------------------------------------------------------------------------
(* The promise, and the properties. *)

Dirty == {s \in Sessions : mode[s] = "dirty"}

\* The cash the committed positions imply: a session that has changed some of
\* them holds it in memory, and once every change is settled the account does.
Funds == IF Dirty = {} THEN cash ELSE ses[CHOOSE s \in Dirty : TRUE].avail

HoldingOf(row) == [side |-> row.side, qty |-> row.qty, entry |-> row.entry]

Held == [sym \in Symbols |->
           IF OpenOn(sym) = {} THEN NoHolding
           ELSE HoldingOf(rows[CHOOSE r \in OpenOn(sym) : TRUE])]

Ledger == INSTANCE PaperLedger WITH funds <- Funds, held <- Held

\* A row has paid its total cost, a closed one has brought back its stake and pnl.
Flow(row) ==
  (IF row.status = "CLOSED" THEN row.qty * row.entry + row.realized ELSE 0) - TotalCost(row)

\* The cash the positions table accounts for.
BookCash == InitCash + SumFunction([r \in DOMAIN rows |-> Flow(rows[r])])

\* The part of the type invariant the proofs use.
LedgerTypeOK ==
  /\ rows \in Seq(Row)
  /\ \A r \in OpenRows : rows[r].cur \in Prices
  /\ cash \in Int
  /\ ses \in [Sessions -> Memory]
  /\ \A s \in Sessions :
       /\ ses[s].todo \subseteq DOMAIN rows
       /\ ses[s].op = "create" => ses[s].pend \in Orders
  /\ mode \in [Sessions -> {"clean", "dirty", "stale"}]
  /\ tainted \in BOOLEAN

\* Every variable keeps its type: the table stays within the bound of the model
\* and an open position always carries a market price, never an exit price.
TypeOK ==
  /\ LedgerTypeOK
  /\ Len(rows) <= MaxRows
  /\ equity \in Int
  /\ sizing \in [Sessions -> Int]

\* The account may be read and marked at any time, but as long as no operation
\* changes positions on an account that another one has changed since it began,
\* there is at most one open position per symbol (get_open_position reads one).
UniqueOpen ==
  ~tainted => \A q, r \in OpenRows : rows[q].sym = rows[r].sym => q = r

\* ... and whenever no change is still on its way the account's cash is what the
\* positions table accounts for: no cost unpaid, no close paid twice or lost.
Balanced == ~tainted /\ Dirty = {} => cash = BookCash

\* No market price turns a holding into a debt: a short is not closed at so high a
\* price that the loss and the fee exceed its stake.
NoDebt == \A h \in Holdings, price \in Prices : NetRecovered(h, ExitPrice(price, h.side)) >= 0

\* The prices a row carries after up to k sessions have closed it: the later ones find
\* no market price and take its last mark, which is the exit price of the one before.
Drift[k \in 0 .. Cardinality(Sessions)] ==
  [side \in Sides |->
     IF k = 0 THEN Prices
     ELSE Drift[k - 1][side] \cup {ExitPrice(price, side) : price \in Drift[k - 1][side]}]

\* Nor do the exit prices of sessions that close the same position one after another.
NoDebtHoweverOften ==
  \A h \in Holdings, k \in 1 .. Cardinality(Sessions) :
    \A price \in Drift[k - 1][h.side] : NetRecovered(h, ExitPrice(price, h.side)) >= 0

\* Whatever operations overlap, fail or overwrite each other's balances, the
\* committed cash is never negative while no price more than doubles.
NoOverdraft == cash >= 0

\* What `tainted` stands for is the only way to break the promise: every step
\* that leaves it unset is a step of the abstract ledger, or changes nothing there.
UntaintedStepsKeepTheLedger ==
  [][~tainted' => [Ledger!Next]_(Ledger!ledgerVars)]_vars

\* Operations that run one at a time and to their end implement the ledger.
KeepsTheLedger == Ledger!Spec

\* A position is closed for good and pays back once: no operation reopens a row
\* or changes what it was entered at, and none closes it a second time unless
\* the account changed under that operation.
ClosedOnce ==
  [][\A r \in DOMAIN rows :
       /\ r \in DOMAIN rows'
       /\ HoldingOf(rows'[r]) = HoldingOf(rows[r])
       /\ rows[r].status = "CLOSED" =>
            /\ rows'[r].status = "CLOSED"
            /\ ~tainted' => rows'[r].realized = rows[r].realized]_vars
=============================================================================
