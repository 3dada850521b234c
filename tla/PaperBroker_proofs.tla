-------------------------- MODULE PaperBroker_proofs --------------------------
(***************************************************************************)
(* Theorems about PaperBroker for every number of sessions, symbols and    *)
(* prices: the type invariant, the uniqueness of open positions and that   *)
(* every untainted step is a step of the abstract ledger, which one        *)
(* session that does not fail therefore implements. Then the books: what   *)
(* cash and open positions come to is what was paid in and the trades'     *)
(* results, an account whose rates leave no debt stays solvent, a row is   *)
(* closed once and, whatever overlaps or fails, nothing is overdrawn. In a *)
(* market that does not move, nothing is earned.                           *)
(***************************************************************************)
EXTENDS PaperBroker, Loops, WellFoundedInduction, SequenceTheorems, TLAPS

-----------------------------------------------------------------------------
(* The arithmetic of a position yields whole ticks. *)

\* A commission is a whole number of ticks.
LEMMA FeeType ==
  ASSUME NEW n \in Int
  PROVE  Fee(n) \in Int
BY RatesAssumption DEF Fee

\* So are the prices after slippage, on entry and on exit.
LEMMA ExecutionType ==
  ASSUME NEW p \in Int, NEW side \in Sides
  PROVE  ExecutionPrice(p, side) \in Int /\ ExitPrice(p, side) \in Int
<1>1. Slippage(p) \in Int
  BY RatesAssumption DEF Slippage
<1>2. Sign(side) \in Int
  BY DEF Sign
<1>3. Sign(side) * Slippage(p) \in Int
  BY <1>1, <1>2
<1> QED BY <1>3 DEF ExecutionPrice, ExitPrice

\* So is the raw profit or loss of a position.
LEMMA PnlType ==
  ASSUME NEW h, h.side \in Sides, h.qty \in Qtys, h.entry \in Prices, NEW exit \in Int
  PROVE  RawPnl(h, exit) \in Int
<1>1. h.qty \in Int /\ h.entry \in Int
  BY MarketAssumption
<1>2. Sign(h.side) \in Int
  BY DEF Sign
<1>3. Sign(h.side) * (exit - h.entry) \in Int
  BY <1>1, <1>2
<1> QED BY <1>1, <1>3 DEF RawPnl

\* So is what opening a position costs.
LEMMA CostType ==
  ASSUME NEW h, h.side \in Sides, h.qty \in Qtys, h.entry \in Prices
  PROVE  Notional(h) \in Int /\ TotalCost(h) \in Int
<1>1. h.qty \in Int /\ h.entry \in Int
  BY MarketAssumption
<1>2. ExecutionPrice(h.entry, h.side) \in Int
  BY <1>1, ExecutionType
<1>3. Notional(h) \in Int
  BY <1>1, <1>2 DEF Notional
<1> QED BY <1>3, FeeType DEF TotalCost

\* So is what closing one brings, and the realized_pnl that its row is left with.
LEMMA ProceedsType ==
  ASSUME NEW h, h.side \in Sides, h.qty \in Qtys, h.entry \in Prices, NEW exit \in Int
  PROVE  /\ NetRecovered(h, exit) \in Int
         /\ RawPnl(h, exit) - Fee(h.qty * exit) \in Int
<1>1. h.qty \in Int /\ h.entry \in Int
  BY MarketAssumption
<1>2. h.qty * h.entry \in Int /\ h.qty * exit \in Int
  BY <1>1
<1>3. Fee(h.qty * exit) \in Int
  BY <1>2, FeeType
<1>4. RawPnl(h, exit) \in Int
  BY PnlType
<1> QED BY <1>2, <1>3, <1>4 DEF NetRecovered

(* The loops visit the positions with the smallest id first. *)
\* The loops visit the listed rows by id: there is a least one among those left.
LEMMA MinOfIds ==
  ASSUME NEW S, S \subseteq Nat, S # {}
  PROVE  Min(S) \in S
<1>1. PICK n \in S : \A m \in S : ~(<<m, n>> \in OpToRel(<, Nat))
  BY NatLessThanWellFounded, WFMin
<1>2. \A m \in S : n <= m
  <2> SUFFICES ASSUME NEW m \in S, m < n
               PROVE  FALSE
    OBVIOUS
  <2>1. <<m, n>> \in OpToRel(<, Nat)
    BY DEF OpToRel
  <2> QED BY <1>1, <2>1
<1> QED BY <1>2 DEF Min
-----------------------------------------------------------------------------
(***************************************************************************)
(* The inductive invariant.  While no row was changed that should not have *)
(* been, one session at most is ahead of the account, and what the others  *)
(* have in memory still agrees with it or will never be written.           *)
(***************************************************************************)

\* Nobody has changed the account under the operation of s.
Fresh(s) == mode[s] # "stale" /\ \A t \in Sessions \ {s} : mode[t] # "dirty"

OneWriter == \A s, t \in Sessions : mode[s] = "dirty" /\ mode[t] = "dirty" => s = t

OneOpenRow == \A q, r \in OpenRows : rows[q].sym = rows[r].sym => q = r

Phases(s) ==
  /\ ses[s].op = "idle" => mode[s] = "clean" /\ ses[s].todo = {}
  /\ ses[s].op = "mark" => mode[s] # "dirty"
  /\ ses[s].op = "credit" => mode[s] = "dirty"

Balances(s) ==
  /\ ses[s].op \in {"credit", "close", "execute", "create"} /\ mode[s] # "stale"
       => ses[s].seen = cash
  /\ ses[s].op \in {"close", "execute", "create"} /\ mode[s] # "dirty"
       => ses[s].avail = ses[s].seen

Plans(s) ==
  Fresh(s) => /\ ses[s].todo \subseteq OpenRows
              /\ ses[s].op = "create" => /\ OpenOn(ses[s].pend.sym) = {}
                                         /\ TotalCost(ses[s].pend) <= ses[s].avail

Inv ==
  /\ LedgerTypeOK
  /\ ~tainted => /\ OneWriter
                 /\ OneOpenRow
                 /\ \A s \in Sessions : Phases(s) /\ Balances(s) /\ Plans(s)

-----------------------------------------------------------------------------
(* What the two ways of changing a position, closing and marking it, leave. *)

\* Closing a row changes its status, mark and realized_pnl and nothing else.
LEMMA ClosedRow ==
  ASSUME NEW row \in Row, NEW price \in Int
  PROVE  /\ ClosedAt(row, price) \in Row
         /\ ClosedAt(row, price).status = "CLOSED"
         /\ HoldingOf(ClosedAt(row, price)) = HoldingOf(row)
         /\ ClosedAt(row, price).sym = row.sym
<1> DEFINE exit == ExitPrice(price, row.side)
           pnl == RawPnl(row, exit) - Fee(row.qty * exit)
<1>1. row.side \in Sides /\ row.qty \in Qtys /\ row.entry \in Prices
  BY DEF Row
<1>2. exit \in Int
  BY <1>1, ExecutionType
<1>3. pnl \in Int
  BY <1>1, <1>2, ProceedsType
<1>4. ClosedAt(row, price) = [row EXCEPT !.status = "CLOSED", !.cur = exit, !.realized = pnl]
  BY DEF ClosedAt
<1> HIDE DEF exit, pnl
<1> QED BY <1>2, <1>3, <1>4 DEF Row, HoldingOf

\* Writing a row of the table leaves the other rows as they are.
LEMMA ReplacedRow ==
  ASSUME NEW table \in Seq(Row), NEW r \in DOMAIN table, NEW row \in Row
  PROVE  /\ [table EXCEPT ![r] = row] \in Seq(Row)
         /\ DOMAIN [table EXCEPT ![r] = row] = DOMAIN table
         /\ [table EXCEPT ![r] = row][r] = row
         /\ \A i \in DOMAIN table \ {r} : [table EXCEPT ![r] = row][i] = table[i]
<1>1. DOMAIN table = 1..Len(table)
  OBVIOUS
<1> QED BY <1>1, ExceptSeq

\* The row that a loop visits next is in the table.
LEMMA NextVisit ==
  ASSUME LedgerTypeOK, NEW s \in Sessions, ses[s].todo # {}
  PROVE  /\ Min(ses[s].todo) \in ses[s].todo
         /\ Min(ses[s].todo) \in DOMAIN rows
         /\ rows[Min(ses[s].todo)] \in Row
<1>1. ses[s].todo \subseteq Nat /\ ses[s].todo \subseteq DOMAIN rows
  BY DEF LedgerTypeOK, Memory
<1>2. Min(ses[s].todo) \in ses[s].todo
  BY <1>1, MinOfIds
<1>3. rows \in Seq(Row)
  BY DEF LedgerTypeOK
<1> QED BY <1>1, <1>2, <1>3, ElementOfSeq

-----------------------------------------------------------------------------
(* Type correctness. *)

\* A session that goes on with a well-typed memory keeps all memories well-typed.
LEMMA BecomesType ==
  ASSUME LedgerTypeOK, NEW s \in Sessions, NEW m \in Memory, Becomes(s, m),
         m.todo \subseteq DOMAIN rows, m.op = "create" => m.pend \in Orders
  PROVE  /\ ses' \in [Sessions -> Memory]
         /\ \A t \in Sessions : /\ ses'[t].todo \subseteq DOMAIN rows
                                /\ ses'[t].op = "create" => ses'[t].pend \in Orders
<1>1. ses \in [Sessions -> Memory]
  BY DEF LedgerTypeOK
<1>2. ses' \in [Sessions -> Memory] /\ ses'[s] = m
  BY <1>1 DEF Becomes
<1>3. \A t \in Sessions \ {s} : ses'[t] = ses[t]
  BY <1>1 DEF Becomes
<1> QED BY <1>2, <1>3 DEF LedgerTypeOK

\* The typing holds in the beginning: an empty table, every session idle.
LEMMA InitType == Init => LedgerTypeOK
<1> SUFFICES ASSUME Init
             PROVE  LedgerTypeOK
  OBVIOUS
<1>1. Idle \in Memory /\ Idle.todo = {} /\ Idle.op = "idle"
  BY DEF Idle, Memory, Targets, AllFlat
<1>2. rows \in Seq(Row) /\ DOMAIN rows = {} /\ OpenRows = {}
  BY DEF Init, OpenRows
<1>3. ses = [s \in Sessions |-> Idle]
  BY DEF Init
<1>4. ses \in [Sessions -> Memory] /\ \A s \in Sessions : ses[s] = Idle
  <2>1. Idle \in Memory
    BY <1>1
  <2> QED BY <1>3, <2>1
<1>5. mode \in [Sessions -> {"clean", "dirty", "stale"}] /\ tainted \in BOOLEAN /\ cash \in Int
  <2>1. InitCash \in Int
    BY BrokerAssumption
  <2> QED BY <2>1 DEF Init
<1> QED BY <1>1, <1>2, <1>4, <1>5 DEF LedgerTypeOK

\* Every step of a session, crashes included, keeps the typing.
LEMMA TypeStep == LedgerTypeOK /\ [Next]_vars => LedgerTypeOK'
<1> SUFFICES ASSUME LedgerTypeOK, [Next]_vars
             PROVE  LedgerTypeOK'
  OBVIOUS
<1> DEFINE MemoriesOK(table) ==
             /\ ses' \in [Sessions -> Memory]
             /\ \A t \in Sessions : /\ ses'[t].todo \subseteq DOMAIN table
                                    /\ ses'[t].op = "create" => ses'[t].pend \in Orders
<1>0. /\ rows \in Seq(Row)
      /\ \A r \in OpenRows : rows[r].cur \in Prices
      /\ cash \in Int
      /\ \A s \in Sessions : /\ ses[s] \in Memory
                             /\ ses[s].todo \subseteq DOMAIN rows
                             /\ ses[s].op = "create" => ses[s].pend \in Orders
      /\ mode \in [Sessions -> {"clean", "dirty", "stale"}]
      /\ tainted \in BOOLEAN
  BY DEF LedgerTypeOK
<1>idle. ASSUME NEW s \in Sessions, Becomes(s, Idle)
         PROVE  MemoriesOK(rows)
  <2>1. Idle \in Memory /\ Idle.todo = {} /\ Idle.op = "idle"
    BY DEF Idle, Memory, Targets, AllFlat
  <2> HIDE DEF Idle
  <2> QED BY <1>idle, <2>1, BecomesType
<1>ids. DOMAIN rows = 1..Len(rows) /\ OpenRows \in SUBSET Nat /\ OpenRows \subseteq DOMAIN rows
  BY <1>0 DEF OpenRows
<1>settles. ASSUME NEW s \in Sessions, Settles(s)
            PROVE  mode' \in [Sessions -> {"clean", "dirty", "stale"}]
  BY <1>0, <1>settles DEF Settles
<1>commits. ASSUME NEW s \in Sessions, Commits(s)
            PROVE  mode' \in [Sessions -> {"clean", "dirty", "stale"}] /\ tainted' \in BOOLEAN
  BY <1>0, <1>commits DEF Commits
<1>cash. ASSUME NEW s \in Sessions, WriteCash(s)
         PROVE  cash' \in Int
  BY <1>0, <1>cash DEF WriteCash, Memory
<1>local. ASSUME NEW s \in Sessions, MemoriesOK(rows), UNCHANGED <<rows, cash, mode, tainted>>
          PROVE  LedgerTypeOK'
  BY <1>0, <1>local DEF LedgerTypeOK, OpenRows
<1>replaced. ASSUME NEW r \in DOMAIN rows, NEW row \in Row,
                    rows' = [rows EXCEPT ![r] = row],
                    row.status = "OPEN" => row.cur \in Prices
             PROVE  /\ rows' \in Seq(Row)
                    /\ DOMAIN rows' = DOMAIN rows
                    /\ \A i \in OpenRows' : rows'[i].cur \in Prices
  <2>1. /\ rows' \in Seq(Row)
        /\ DOMAIN rows' = DOMAIN rows
        /\ rows'[r] = row
        /\ \A i \in DOMAIN rows \ {r} : rows'[i] = rows[i]
    BY <1>0, <1>replaced, ReplacedRow
  <2> QED BY <1>0, <1>replaced, <2>1 DEF OpenRows
<1>1. ASSUME NEW s \in Sessions, BeginMark(s)
      PROVE  LedgerTypeOK'
  <2> DEFINE m == [ses[s] EXCEPT !.op = "mark", !.todo = OpenRows, !.seen = cash]
  <2>1. m \in Memory /\ m.todo = OpenRows /\ m.op = "mark"
    BY <1>0, <1>ids DEF Memory
  <2>2. Becomes(s, m)
    BY <1>1 DEF BeginMark
  <2> HIDE DEF m
  <2> QED BY <1>1, <1>ids, <1>local, <2>1, <2>2, BecomesType DEF BeginMark
<1>2. ASSUME NEW s \in Sessions, SkipMark(s) \/ Keep(s)
      PROVE  LedgerTypeOK'
  <2> DEFINE m == [ses[s] EXCEPT !.todo = @ \ {Min(@)}]
  <2>1. m \in Memory /\ m.todo \subseteq DOMAIN rows /\ m.op = ses[s].op /\ m.pend = ses[s].pend
    BY <1>0 DEF Memory
  <2>2. Becomes(s, m) /\ UNCHANGED <<rows, cash, mode, tainted>>
    BY <1>2 DEF SkipMark, Keep
  <2> HIDE DEF m
  <2> QED BY <1>0, <1>local, <2>1, <2>2, BecomesType
<1>3. ASSUME NEW s \in Sessions, Mark(s)
      PROVE  LedgerTypeOK'
  <2> DEFINE r == Min(ses[s].todo)
             m == [ses[s] EXCEPT !.todo = @ \ {Min(@)}, !.seen = cash]
  <2>1. r \in DOMAIN rows /\ rows[r] \in Row
    BY <1>3, NextVisit DEF Mark
  <2>2. PICK price \in Prices : rows' = [rows EXCEPT ![r] = [rows[r] EXCEPT !.cur = price]]
    BY <1>3 DEF Mark
  <2> DEFINE row == [rows[r] EXCEPT !.cur = price]
  <2>3. row \in Row /\ row.cur = price
    BY <2>1, MarketAssumption DEF Row
  <2>4. m \in Memory /\ m.todo \subseteq DOMAIN rows /\ m.op = ses[s].op /\ m.pend = ses[s].pend
    BY <1>0 DEF Memory
  <2>5. Becomes(s, m) /\ UNCHANGED <<cash, mode, tainted>>
    BY <1>3 DEF Mark
  <2> HIDE DEF r, m, row
  <2>6. MemoriesOK(rows)
    BY <1>0, <2>4, <2>5, BecomesType
  <2> QED BY <1>0, <1>replaced, <2>1, <2>2, <2>3, <2>5, <2>6 DEF row, LedgerTypeOK
<1>4. ASSUME NEW s \in Sessions, NEW r \in DOMAIN rows, NEW price \in Int, NEW m \in Memory,
             rows' = [rows EXCEPT ![r] = ClosedAt(rows[r], price)],
             m.todo \subseteq DOMAIN rows, m.op \in {"credit", "close"},
             Becomes(s, m), Commits(s), UNCHANGED cash
      PROVE  LedgerTypeOK'
  <2>1. rows[r] \in Row
    BY <1>0, ElementOfSeq
  <2>2. ClosedAt(rows[r], price) \in Row /\ ClosedAt(rows[r], price).status = "CLOSED"
    BY <2>1, ClosedRow
  <2>3. MemoriesOK(rows)
    BY <1>4, BecomesType
  <2> QED BY <1>0, <1>4, <1>commits, <1>replaced, <2>2, <2>3 DEF LedgerTypeOK
<1>5. ASSUME NEW s \in Sessions, NEW r \in DOMAIN rows, NEW price \in Int
      PROVE  Proceeds(r, price) \in Int
  <2>1. rows[r] \in Row
    BY <1>0, ElementOfSeq
  <2> QED BY <2>1, ExecutionType, ProceedsType DEF Row, Proceeds
<1>6. ASSUME NEW s \in Sessions, MarkHit(s)
      PROVE  LedgerTypeOK'
  <2> DEFINE r == Min(ses[s].todo)
  <2>1. r \in DOMAIN rows
    BY <1>6, NextVisit DEF MarkHit
  <2>2. PICK price \in Prices :
          /\ rows' = [rows EXCEPT ![r] = ClosedAt(rows[r], price)]
          /\ Becomes(s, [ses[s] EXCEPT !.op = "credit", !.todo = @ \ {r}, !.seen = cash,
                                       !.avail = cash + Proceeds(r, price)])
    BY <1>6 DEF MarkHit
  <2> DEFINE avail == cash + Proceeds(r, price)
             m == [ses[s] EXCEPT !.op = "credit", !.todo = @ \ {r}, !.seen = cash,
                                 !.avail = avail]
  <2>3. price \in Int /\ avail \in Int
    BY <1>0, <1>5, <2>1, MarketAssumption
  <2>5. Becomes(s, m) /\ Commits(s) /\ UNCHANGED cash
    BY <1>6, <2>2 DEF MarkHit
  <2> HIDE DEF r, avail
  <2>4. m \in Memory /\ m.todo \subseteq DOMAIN rows /\ m.op = "credit"
    BY <1>0, <2>3 DEF Memory
  <2> HIDE DEF m
  <2> QED BY <1>4, <2>1, <2>2, <2>3, <2>4, <2>5
<1>7. ASSUME NEW s \in Sessions, CloseRow(s)
      PROVE  LedgerTypeOK'
  <2> DEFINE r == Min(ses[s].todo)
  <2>1. r \in DOMAIN rows /\ rows[r] \in Row
    BY <1>7, NextVisit DEF CloseRow
  <2>2. PICK price \in Prices \cup {rows[r].cur} :
          /\ rows' = [rows EXCEPT ![r] = ClosedAt(rows[r], price)]
          /\ Becomes(s, [ses[s] EXCEPT !.todo = @ \ {r}, !.seen = cash,
                                       !.avail = @ + Proceeds(r, price)])
    BY <1>7 DEF CloseRow
  <2> DEFINE avail == ses[s].avail + Proceeds(r, price)
             m == [ses[s] EXCEPT !.todo = @ \ {r}, !.seen = cash, !.avail = avail]
  <2>3. price \in Int /\ Proceeds(r, price) \in Int /\ ses[s].avail \in Int
    <3>1. price \in Int
      BY <2>1, MarketAssumption DEF Row
    <3> QED BY <1>0, <1>5, <2>1, <3>1 DEF Memory
  <2>5. Becomes(s, m) /\ Commits(s) /\ UNCHANGED cash
    BY <1>7, <2>2 DEF CloseRow
  <2>6. avail \in Int
    BY <2>3
  <2>7. ses[s].op = "close"
    BY <1>7 DEF CloseRow
  <2> HIDE DEF r, avail
  <2>4. m \in Memory /\ m.todo \subseteq DOMAIN rows /\ m.op = "close"
    BY <1>0, <2>6, <2>7 DEF Memory
  <2> HIDE DEF m
  <2> QED BY <1>4, <2>1, <2>2, <2>3, <2>4, <2>5
<1>8. ASSUME NEW s \in Sessions, MarkCredit(s)
      PROVE  LedgerTypeOK'
  <2> DEFINE none == 0
             m == [ses[s] EXCEPT !.op = "mark", !.avail = none, !.seen = cash']
  <2>1. cash' \in Int
    BY <1>8, <1>cash DEF MarkCredit
  <2>5. none \in Int
    OBVIOUS
  <2>3. Becomes(s, m) /\ Settles(s) /\ UNCHANGED <<rows, tainted>>
    BY <1>8 DEF MarkCredit
  <2> HIDE DEF none
  <2>2. m \in Memory /\ m.todo \subseteq DOMAIN rows /\ m.op = "mark"
    BY <1>0, <2>1, <2>5 DEF Memory
  <2> HIDE DEF m
  <2>4. MemoriesOK(rows)
    BY <2>2, <2>3, BecomesType
  <2> QED BY <1>0, <1>settles, <2>1, <2>3, <2>4 DEF LedgerTypeOK, OpenRows
<1>9. ASSUME NEW s \in Sessions, EndMark(s) \/ UpdateBalances(s) \/ Crash(s)
      PROVE  LedgerTypeOK'
  <2>1. cash' \in Int
    BY <1>0, <1>9, <1>cash DEF EndMark, UpdateBalances, Crash
  <2>2. tainted' \in BOOLEAN
    BY <1>0, <1>9 DEF EndMark, UpdateBalances, Crash
  <2>3. Becomes(s, Idle) /\ Settles(s) /\ UNCHANGED rows
    BY <1>9 DEF EndMark, UpdateBalances, Crash
  <2>4. MemoriesOK(rows)
    BY <1>idle, <2>3
  <2> QED BY <1>0, <1>settles, <2>1, <2>2, <2>3, <2>4 DEF LedgerTypeOK, OpenRows
<1>10. ASSUME NEW s \in Sessions, BeginClose(s)
       PROVE  LedgerTypeOK'
  <2>1. PICK target \in Targets :
          Becomes(s, [ses[s] EXCEPT !.op = "close", !.want = target, !.todo = OpenRows,
                                    !.avail = cash, !.seen = cash])
    BY <1>10 DEF BeginClose
  <2> DEFINE m == [ses[s] EXCEPT !.op = "close", !.want = target, !.todo = OpenRows,
                                !.avail = cash, !.seen = cash]
  <2>2. m \in Memory /\ m.todo = OpenRows /\ m.op = "close"
    BY <1>0, <1>ids DEF Memory
  <2>3. Becomes(s, m)
    BY <2>1
  <2> HIDE DEF m
  <2> QED BY <1>10, <1>ids, <1>local, <2>2, <2>3, BecomesType DEF BeginClose
<1>11. ASSUME NEW s \in Sessions, BeginExecute(s)
       PROVE  LedgerTypeOK'
  <2>1. PICK target \in Targets :
          Becomes(s, [ses[s] EXCEPT !.op = "execute", !.want = target,
                                    !.avail = cash, !.seen = cash])
    BY <1>11 DEF BeginExecute
  <2> DEFINE m == [ses[s] EXCEPT !.op = "execute", !.want = target, !.avail = cash, !.seen = cash]
  <2>2. m \in Memory /\ m.todo \subseteq DOMAIN rows /\ m.op = "execute"
    BY <1>0 DEF Memory
  <2>3. Becomes(s, m)
    BY <2>1
  <2> HIDE DEF m
  <2> QED BY <1>11, <1>local, <2>2, <2>3, BecomesType DEF BeginExecute
<1>12. ASSUME NEW s \in Sessions, SkipTarget(s)
       PROVE  LedgerTypeOK'
  <2>1. PICK sym \in Unvisited(s) :
          Becomes(s, [ses[s] EXCEPT !.want = [@ EXCEPT ![sym] = "FLAT"]])
    BY <1>12 DEF SkipTarget
  <2> DEFINE want == [ses[s].want EXCEPT ![sym] = "FLAT"]
             m == [ses[s] EXCEPT !.want = want]
  <2>2. want \in Targets
    BY <1>0 DEF Memory, Targets
  <2>3. Becomes(s, m)
    BY <2>1
  <2> HIDE DEF want
  <2>4. m \in Memory /\ m.todo \subseteq DOMAIN rows /\ m.op = "execute"
    BY <1>0, <1>12, <2>2 DEF Memory, SkipTarget
  <2> HIDE DEF m
  <2> QED BY <1>12, <1>local, <2>3, <2>4, BecomesType DEF SkipTarget
<1>13. ASSUME NEW s \in Sessions, Decide(s)
       PROVE  LedgerTypeOK'
  <2>1. PICK sym \in Unvisited(s), q \in Qtys, price \in Prices :
          Becomes(s, [ses[s] EXCEPT
                        !.op = "create",
                        !.pend = [sym |-> sym, side |-> ses[s].want[sym],
                                  qty |-> q, entry |-> price],
                        !.want = [@ EXCEPT ![sym] = "FLAT"]])
    BY <1>13 DEF Decide
  <2> DEFINE order == [sym |-> sym, side |-> ses[s].want[sym], qty |-> q, entry |-> price]
             want == [ses[s].want EXCEPT ![sym] = "FLAT"]
             m == [ses[s] EXCEPT !.op = "create", !.pend = order, !.want = want]
  <2>2. sym \in Symbols /\ ses[s].want[sym] \in Sides /\ ses[s].want \in Targets
    BY <1>0 DEF Unvisited, Memory, Targets
  <2>3. order \in Orders
    BY <2>2 DEF Orders
  <2>4. want \in Targets
    BY <2>2 DEF Targets
  <2>5. Becomes(s, m)
    BY <2>1
  <2> HIDE DEF order, want
  <2>6. m \in Memory /\ m.todo \subseteq DOMAIN rows /\ m.pend = order
    BY <1>0, <2>3, <2>4 DEF Memory
  <2> HIDE DEF m
  <2> QED BY <1>13, <1>local, <2>3, <2>5, <2>6, BecomesType DEF Decide
<1>14. ASSUME NEW s \in Sessions, Create(s)
       PROVE  LedgerTypeOK'
  <2> DEFINE order == ses[s].pend
             row == [sym |-> order.sym, side |-> order.side, qty |-> order.qty,
                     entry |-> order.entry, cur |-> order.entry, realized |-> 0,
                     status |-> "OPEN"]
             avail == ses[s].avail - TotalCost(order)
             m == [ses[s] EXCEPT !.op = "execute", !.pend = NoHolding, !.seen = cash,
                                 !.avail = avail]
  <2>1. order \in Orders
    BY <1>0, <1>14 DEF Create
  <2>2. row \in Row /\ row.cur \in Prices
    BY <2>1, MarketAssumption DEF Orders, Row
  <2>3. rows' = Append(rows, row) /\ Becomes(s, m) /\ Commits(s) /\ UNCHANGED cash
    BY <1>14 DEF Create
  <2>4. avail \in Int
    <3>1. TotalCost(order) \in Int
      BY <2>1, CostType DEF Orders
    <3>2. ses[s].avail \in Int
      BY <1>0 DEF Memory
    <3> QED BY <3>1, <3>2
  <2> HIDE DEF avail
  <2>5. m \in Memory /\ m.todo \subseteq DOMAIN rows /\ m.op = "execute"
    BY <1>0, <2>4 DEF Memory
  <2> HIDE DEF row, m
  <2>6. /\ rows' \in Seq(Row)
        /\ DOMAIN rows' = 1..(Len(rows) + 1)
        /\ rows'[Len(rows) + 1] = row
        /\ \A i \in DOMAIN rows : rows'[i] = rows[i]
    BY <1>0, <1>ids, <2>2, <2>3, AppendProperties
  <2>7. \A i \in OpenRows' : rows'[i].cur \in Prices
    BY <1>0, <1>ids, <2>2, <2>6 DEF OpenRows
  <2>8. DOMAIN rows \subseteq DOMAIN rows'
    BY <1>0, <1>ids, <2>6
  <2>9. MemoriesOK(rows)
    BY <2>3, <2>5, BecomesType
  <2> QED BY <1>0, <1>commits, <2>3, <2>6, <2>7, <2>8, <2>9 DEF LedgerTypeOK
<1>15. CASE UNCHANGED vars
  BY <1>0, <1>15 DEF vars, LedgerTypeOK, OpenRows
<1> QED BY <1>1, <1>2, <1>3, <1>6, <1>7, <1>8, <1>9, <1>10, <1>11, <1>12, <1>13, <1>14, <1>15
        DEF Next, Step

\* The type invariant: rows, balances and what sessions have in memory keep their
\* types, and an open position always carries a market price.
THEOREM LedgerTypeCorrect == Spec => []LedgerTypeOK
BY InitType, TypeStep, PTL DEF Spec

-----------------------------------------------------------------------------
(***************************************************************************)
(* The invariant.  Its steps come in four kinds: those that touch only     *)
(* what their session has in memory, those that change a price, those that *)
(* open or close a position, and those that settle the account.            *)
(***************************************************************************)

\* What Inv says about a session with memory m in the present state.
Good(s, m) ==
  /\ m.op = "idle" => mode[s] = "clean" /\ m.todo = {}
  /\ m.op = "mark" => mode[s] # "dirty"
  /\ m.op = "credit" => mode[s] = "dirty"
  /\ m.op \in {"credit", "close", "execute", "create"} /\ mode[s] # "stale" => m.seen = cash
  /\ m.op \in {"close", "execute", "create"} /\ mode[s] # "dirty" => m.avail = m.seen
  /\ Fresh(s) => /\ m.todo \subseteq OpenRows
                 /\ m.op = "create" => /\ OpenOn(m.pend.sym) = {}
                                       /\ TotalCost(m.pend) <= m.avail

Untainted == OneWriter /\ OneOpenRow /\ \A s \in Sessions : Good(s, ses[s])

\* The invariant, with its parts about untainted states under one name.
LEMMA InvIs == Inv <=> LedgerTypeOK /\ (~tainted => Untainted)
BY DEF Inv, Untainted, Good, Phases, Balances, Plans

\* The invariant holds in the beginning.
LEMMA InitInv == Init => Inv
<1> SUFFICES ASSUME Init
             PROVE  LedgerTypeOK /\ Untainted
  BY InvIs
<1>1. LedgerTypeOK
  BY InitType
<1>2. OpenRows = {} /\ \A s \in Sessions : mode[s] = "clean" /\ ses[s] = Idle
  BY DEF Init, OpenRows
<1>3. Idle.op = "idle" /\ Idle.todo = {}
  BY DEF Idle
<1> QED BY <1>1, <1>2, <1>3 DEF Untainted, OneWriter, OneOpenRow, Good

(* A step that changes nothing but what s has in memory. *)
\* A step that changes only what a session has in memory keeps the invariant.
LEMMA LocalStep ==
  ASSUME LedgerTypeOK, Untainted, NEW s \in Sessions, NEW m, Becomes(s, m), Good(s, m),
         UNCHANGED <<rows, cash, mode>>
  PROVE  Untainted'
<1>1. ses'[s] = m /\ \A t \in Sessions \ {s} : ses'[t] = ses[t]
  BY DEF LedgerTypeOK, Becomes
<1>2. OpenRows' = OpenRows /\ \A sym : OpenOn(sym)' = OpenOn(sym)
  BY DEF OpenRows, OpenOn
<1>3. OneWriter' /\ OneOpenRow'
  BY <1>2 DEF Untainted, OneWriter, OneOpenRow
<1>4. ASSUME NEW t \in Sessions
      PROVE  Good(t, ses[t])'
  <2>1. Good(t, ses'[t])
    BY <1>1 DEF Untainted
  <2> QED BY <1>2, <2>1 DEF Good, Fresh, OpenOn
<1> QED BY <1>3, <1>4 DEF Untainted
(* A session that closes or opens a position while the account is still the one
   its operation began with is the only one ahead of the account. *)
\* A session that changes a row without tainting had a current account, and no other
\* session had changes on their way.
LEMMA Writer ==
  ASSUME LedgerTypeOK, Untainted, NEW s \in Sessions, Commits(s), ~tainted'
  PROVE  /\ ~tainted /\ Fresh(s)
         /\ mode' = [mode EXCEPT ![s] = "dirty"]
         /\ mode'[s] = "dirty" /\ \A t \in Sessions \ {s} : mode'[t] = mode[t] /\ mode[t] # "dirty"
BY DEF LedgerTypeOK, Commits, Fresh

\* So it becomes the only dirty session, and the invariant is kept.
LEMMA WriteStep ==
  ASSUME LedgerTypeOK, Untainted, NEW s \in Sessions, NEW m, Becomes(s, m), Commits(s),
         ~tainted', UNCHANGED cash, OneOpenRow',
         m.op \in {"credit", "close", "execute"}, m.seen = cash, m.todo \subseteq OpenRows'
  PROVE  Untainted'
<1>1. ses'[s] = m /\ \A t \in Sessions \ {s} : ses'[t] = ses[t]
  BY DEF LedgerTypeOK, Becomes
<1>2. mode'[s] = "dirty" /\ \A t \in Sessions \ {s} : mode'[t] = mode[t] /\ mode[t] # "dirty"
  BY Writer
<1>3. OneWriter'
  BY <1>2 DEF OneWriter
<1>4. Good(s, ses[s])'
  BY <1>1, <1>2 DEF Good
<1>5. ASSUME NEW t \in Sessions, t # s
      PROVE  Good(t, ses[t])'
  <2>1. Good(t, ses[t]) /\ ses'[t] = ses[t] /\ mode'[t] = mode[t] /\ cash' = cash
    BY <1>1, <1>2, <1>5 DEF Untainted
  <2>2. ~Fresh(t)'
    BY <1>2, <1>5 DEF Fresh
  <2> QED BY <2>1, <2>2 DEF Good
<1> QED BY <1>3, <1>4, <1>5 DEF Untainted

(* What s is ahead of the account with reaches it: the others are stale. *)
\* Writing the cash (or dying with nothing on its way) leaves no session dirty, and those
\* that began before are stale: the invariant is kept.
LEMMA SettleStep ==
  ASSUME LedgerTypeOK, Untainted, NEW s \in Sessions, NEW m, Becomes(s, m), Settles(s),
         UNCHANGED rows, m.op \in {"idle", "mark"}, m.todo \subseteq OpenRows \/ ~Fresh(s)',
         m.op = "idle" => m.todo = {},
         mode[s] # "dirty" => cash' = cash
  PROVE  Untainted'
<1>1. ses'[s] = m /\ \A t \in Sessions \ {s} : ses'[t] = ses[t]
  BY DEF LedgerTypeOK, Becomes
<1>2. /\ mode'[s] = "clean"
      /\ \A t \in Sessions \ {s} :
           mode'[t] = IF mode[s] = "dirty" /\ ses[t].op # "idle" THEN "stale" ELSE mode[t]
  BY DEF Settles
<1>3. OpenRows' = OpenRows /\ \A sym : OpenOn(sym)' = OpenOn(sym)
  BY DEF OpenRows, OpenOn
<1>4. OneWriter' /\ OneOpenRow'
  BY <1>2, <1>3 DEF Untainted, OneWriter, OneOpenRow
<1>5. Good(s, ses[s])'
  BY <1>1, <1>2, <1>3 DEF Good
<1>6. ASSUME NEW t \in Sessions, t # s
      PROVE  Good(t, ses[t])'
  <2>1. Good(t, ses[t]) /\ ses'[t] = ses[t]
    BY <1>1, <1>6 DEF Untainted
  <2>2. CASE mode[s] = "dirty"
    <3>1. mode[t] # "dirty"
      BY <1>6, <2>2 DEF Untainted, OneWriter
    <3>2. CASE ses[t].op = "idle"
      BY <1>2, <1>6, <2>1, <3>2 DEF Good
    <3>3. CASE ses[t].op # "idle"
      <4>1. mode'[t] = "stale" /\ ~Fresh(t)'
        BY <1>2, <1>6, <2>2, <3>3 DEF Fresh
      <4> QED BY <2>1, <3>1, <3>3, <4>1 DEF Good
    <3> QED BY <3>2, <3>3
  <2>3. CASE mode[s] # "dirty"
    <3>1. mode'[t] = mode[t] /\ cash' = cash /\ (Fresh(t)' => Fresh(t))
      BY <1>2, <1>6, <2>3 DEF Fresh
    <3> QED BY <1>3, <2>1, <3>1 DEF Good, OpenOn
  <2> QED BY <2>2, <2>3
<1> QED BY <1>4, <1>5, <1>6 DEF Untainted

(* The position that is closed was open, and the others are as they were. *)
\* A session with a current account closes a row that is open, and no other.
LEMMA ClosingStep ==
  ASSUME LedgerTypeOK, Untainted, NEW s \in Sessions, Fresh(s), NEW price \in Int,
         NEW r, r \in ses[s].todo, rows' = [rows EXCEPT ![r] = ClosedAt(rows[r], price)]
  PROVE  /\ r \in OpenRows
         /\ OpenRows' = OpenRows \ {r}
         /\ \A i \in DOMAIN rows \ {r} : rows'[i] = rows[i]
         /\ rows'[r] = ClosedAt(rows[r], price)
         /\ rows[r] \in Row
         /\ OneOpenRow'
<1>1. r \in OpenRows
  BY DEF Untainted, Good
<1>2. rows \in Seq(Row) /\ r \in DOMAIN rows
  BY <1>1 DEF LedgerTypeOK, OpenRows
<1>3. rows[r] \in Row
  BY <1>2, ElementOfSeq
<1>4. ClosedAt(rows[r], price) \in Row /\ ClosedAt(rows[r], price).status = "CLOSED"
  BY <1>3, ClosedRow
<1>5. /\ DOMAIN rows' = DOMAIN rows
      /\ rows'[r] = ClosedAt(rows[r], price)
      /\ \A i \in DOMAIN rows \ {r} : rows'[i] = rows[i]
  BY <1>2, <1>4, ReplacedRow
<1>6. OpenRows' = OpenRows \ {r}
  BY <1>4, <1>5 DEF OpenRows
<1>7. OneOpenRow'
  BY <1>5, <1>6 DEF Untainted, OneOpenRow, OpenRows
<1> QED BY <1>1, <1>3, <1>5, <1>6, <1>7

(* The position that is opened is the only one of its symbol. *)
\* A session with a current account inserts a row for a symbol that has no open one.
LEMMA OpeningStep ==
  ASSUME LedgerTypeOK, Untainted, NEW s \in Sessions, Fresh(s), Create(s)
  PROVE  /\ OpenRows' = OpenRows \cup {Len(rows) + 1}
         /\ Len(rows) + 1 \notin DOMAIN rows
         /\ \A i \in DOMAIN rows : rows'[i] = rows[i]
         /\ HoldingOf(rows'[Len(rows) + 1]) = HoldingOf(ses[s].pend)
         /\ rows'[Len(rows) + 1].sym = ses[s].pend.sym
         /\ OpenOn(ses[s].pend.sym) = {}
         /\ OneOpenRow'
<1> DEFINE order == ses[s].pend
           row == [sym |-> order.sym, side |-> order.side, qty |-> order.qty,
                   entry |-> order.entry, cur |-> order.entry, realized |-> 0,
                   status |-> "OPEN"]
<1>1. rows \in Seq(Row) /\ DOMAIN rows = 1..Len(rows) /\ Len(rows) \in Nat
  BY DEF LedgerTypeOK
<1>2. order \in Orders /\ ses[s].op = "create"
  BY DEF LedgerTypeOK, Create
<1>3. row \in Row /\ row.sym = order.sym /\ HoldingOf(row) = HoldingOf(order) /\ row.status = "OPEN"
  BY <1>2, MarketAssumption DEF Orders, Row, HoldingOf
<1>4. rows' = Append(rows, row)
  BY DEF Create
<1>5. OpenOn(order.sym) = {}
  BY <1>2 DEF Untainted, Good
<1> HIDE DEF row, order
<1>6. /\ DOMAIN rows' = 1..(Len(rows) + 1)
      /\ rows'[Len(rows) + 1] = row
      /\ \A i \in DOMAIN rows : rows'[i] = rows[i]
  BY <1>1, <1>3, <1>4, AppendProperties
<1>7. OpenRows' = OpenRows \cup {Len(rows) + 1}
  BY <1>1, <1>3, <1>6 DEF OpenRows
<1>8. OneOpenRow'
  BY <1>1, <1>3, <1>5, <1>6, <1>7 DEF Untainted, OneOpenRow, OpenOn, OpenRows
<1> QED BY <1>1, <1>3, <1>5, <1>6, <1>7, <1>8 DEF order


\* Every step keeps the invariant.
LEMMA InvStep == Inv /\ [Next]_vars => Inv'
<1> SUFFICES ASSUME Inv, [Next]_vars, ~tainted'
             PROVE  Untainted'
  BY TypeStep DEF Inv, Untainted, Good, Phases, Balances, Plans
<1>0. LedgerTypeOK /\ ~tainted /\ Untainted
  <2>1. LedgerTypeOK /\ (~tainted => Untainted)
    BY InvIs
  <2>2. ASSUME NEW s \in Sessions, Step(s)
        PROVE  ~tainted
    BY <2>2 DEF Step, BeginMark, SkipMark, Mark, MarkHit, MarkCredit, EndMark, BeginClose,
                Keep, CloseRow, BeginExecute, SkipTarget, Decide, Create, UpdateBalances,
                Crash, Commits
  <2>3. CASE UNCHANGED vars
    BY <2>1, <2>3 DEF vars
  <2> QED BY <2>1, <2>2, <2>3 DEF Next
<1>ses. \A s \in Sessions : Good(s, ses[s]) /\ ses[s] \in Memory
  BY <1>0 DEF Untainted, LedgerTypeOK
<1>1. ASSUME NEW s \in Sessions, BeginMark(s)
      PROVE  Untainted'
  <2> DEFINE m == [ses[s] EXCEPT !.op = "mark", !.todo = OpenRows, !.seen = cash]
  <2>1. Good(s, m)
    BY <1>1, <1>ses DEF BeginMark, Good, Memory
  <2> QED BY <1>0, <1>1, <2>1, LocalStep DEF BeginMark
<1>2. ASSUME NEW s \in Sessions, BeginClose(s)
      PROVE  Untainted'
  <2>1. PICK target \in Targets :
          Becomes(s, [ses[s] EXCEPT !.op = "close", !.want = target, !.todo = OpenRows,
                                    !.avail = cash, !.seen = cash])
    BY <1>2 DEF BeginClose
  <2> DEFINE m == [ses[s] EXCEPT !.op = "close", !.want = target, !.todo = OpenRows,
                                !.avail = cash, !.seen = cash]
  <2>2. Good(s, m)
    BY <1>2, <1>ses DEF BeginClose, Good, Memory
  <2> QED BY <1>0, <1>2, <2>1, <2>2, LocalStep DEF BeginClose
<1>3. ASSUME NEW s \in Sessions, BeginExecute(s)
      PROVE  Untainted'
  <2>1. PICK target \in Targets :
          Becomes(s, [ses[s] EXCEPT !.op = "execute", !.want = target,
                                    !.avail = cash, !.seen = cash])
    BY <1>3 DEF BeginExecute
  <2> DEFINE m == [ses[s] EXCEPT !.op = "execute", !.want = target, !.avail = cash, !.seen = cash]
  <2>2. Good(s, m)
    BY <1>3, <1>ses DEF BeginExecute, Good, Memory
  <2> QED BY <1>0, <1>3, <2>1, <2>2, LocalStep DEF BeginExecute
<1>4. ASSUME NEW s \in Sessions, SkipMark(s) \/ Keep(s)
      PROVE  Untainted'
  <2> DEFINE m == [ses[s] EXCEPT !.todo = @ \ {Min(@)}]
  <2>1. Good(s, m)
    BY <1>4, <1>ses DEF SkipMark, Keep, Good, Memory
  <2> QED BY <1>0, <1>4, <2>1, LocalStep DEF SkipMark, Keep
<1>5. ASSUME NEW s \in Sessions, SkipTarget(s)
      PROVE  Untainted'
  <2>1. PICK sym \in Unvisited(s) :
          Becomes(s, [ses[s] EXCEPT !.want = [@ EXCEPT ![sym] = "FLAT"]])
    BY <1>5 DEF SkipTarget
  <2> DEFINE m == [ses[s] EXCEPT !.want = [@ EXCEPT ![sym] = "FLAT"]]
  <2>2. Good(s, m)
    BY <1>5, <1>ses DEF SkipTarget, Good, Memory
  <2> QED BY <1>0, <1>5, <2>1, <2>2, LocalStep DEF SkipTarget
<1>6. ASSUME NEW s \in Sessions, Decide(s)
      PROVE  Untainted'
  <2>1. PICK sym \in Unvisited(s), q \in Qtys, price \in Prices :
          LET order == [sym |-> sym, side |-> ses[s].want[sym], qty |-> q, entry |-> price] IN
          /\ Accepts(s, order)
          /\ Becomes(s, [ses[s] EXCEPT !.op = "create", !.pend = order,
                                       !.want = [@ EXCEPT ![sym] = "FLAT"]])
    BY <1>6 DEF Decide
  <2> DEFINE order == [sym |-> sym, side |-> ses[s].want[sym], qty |-> q, entry |-> price]
             m == [ses[s] EXCEPT !.op = "create", !.pend = order,
                                 !.want = [@ EXCEPT ![sym] = "FLAT"]]
  <2>2. OpenOn(order.sym) = {} /\ TotalCost(order) <= ses[s].avail
    BY <2>1 DEF Accepts
  <2> HIDE DEF order
  <2>3. Good(s, m)
    BY <1>6, <1>ses, <2>2 DEF Decide, Good, Memory
  <2> QED BY <1>0, <1>6, <2>1, <2>3, LocalStep DEF Decide, order
<1>7. ASSUME NEW s \in Sessions, Mark(s)
      PROVE  Untainted'
  <2> DEFINE r == Min(ses[s].todo)
             m == [ses[s] EXCEPT !.todo = @ \ {Min(@)}, !.seen = cash]
  <2>1. PICK price \in Prices : rows' = [rows EXCEPT ![r] = [rows[r] EXCEPT !.cur = price]]
    BY <1>7 DEF Mark
  <2>2. OpenRows' = OpenRows /\ \A i \in DOMAIN rows : rows'[i].sym = rows[i].sym
    <3>1. r \in DOMAIN rows /\ rows[r] \in Row
      BY <1>0, <1>7, NextVisit DEF Mark
    <3>2. rows \in Seq(Row) /\ DOMAIN rows = 1..Len(rows)
      BY <1>0 DEF LedgerTypeOK
    <3>3. [rows[r] EXCEPT !.cur = price].status = rows[r].status
          /\ [rows[r] EXCEPT !.cur = price].sym = rows[r].sym
      BY <3>1 DEF Row
    <3> HIDE DEF r
    <3> QED BY <2>1, <3>1, <3>2, <3>3 DEF OpenRows
  <2>3. /\ ses' = [ses EXCEPT ![s] = m] /\ UNCHANGED <<cash, mode>>
        /\ ses[s].op = "mark"
    BY <1>7 DEF Mark, Becomes
  <2>4. \A sym : OpenOn(sym)' = OpenOn(sym)
    BY <2>2 DEF OpenOn, OpenRows
  <2>5. OneOpenRow' /\ OneWriter'
    BY <1>0, <2>2, <2>3 DEF Untainted, OneOpenRow, OneWriter, OpenRows
  <2>6. ASSUME NEW t \in Sessions
        PROVE  Good(t, ses[t])'
    <3>1. Good(t, ses'[t])
      <4>1. Good(s, m)
        BY <1>ses, <2>3 DEF Good, Memory
      <4> HIDE DEF m
      <4> QED BY <1>0, <1>ses, <2>3, <4>1 DEF LedgerTypeOK
    <3> QED BY <2>2, <2>3, <2>4, <3>1 DEF Good, Fresh
  <2> QED BY <2>5, <2>6 DEF Untainted
<1>8. ASSUME NEW s \in Sessions, MarkHit(s)
      PROVE  Untainted'
  <2> DEFINE r == Min(ses[s].todo)
  <2>1. PICK price \in Prices :
          /\ rows' = [rows EXCEPT ![r] = ClosedAt(rows[r], price)]
          /\ Becomes(s, [ses[s] EXCEPT !.op = "credit", !.todo = @ \ {r}, !.seen = cash,
                                       !.avail = cash + Proceeds(r, price)])
    BY <1>8 DEF MarkHit
  <2> DEFINE m == [ses[s] EXCEPT !.op = "credit", !.todo = @ \ {r}, !.seen = cash,
                                 !.avail = cash + Proceeds(r, price)]
  <2>2. Commits(s) /\ UNCHANGED cash /\ Fresh(s)
    BY <1>0, <1>8, Writer DEF MarkHit
  <2>3. r \in ses[s].todo /\ price \in Int
    BY <1>0, <1>8, NextVisit, MarketAssumption DEF MarkHit
  <2> HIDE DEF r
  <2>4. OpenRows' = OpenRows \ {r} /\ OneOpenRow'
    BY <1>0, <2>1, <2>2, <2>3, ClosingStep
  <2>5. m.op = "credit" /\ m.seen = cash /\ m.todo \subseteq OpenRows'
    BY <1>ses, <2>2, <2>4 DEF Memory, Good
  <2> QED BY <1>0, <2>1, <2>2, <2>4, <2>5, WriteStep
<1>9. ASSUME NEW s \in Sessions, CloseRow(s)
      PROVE  Untainted'
  <2> DEFINE r == Min(ses[s].todo)
  <2>1. PICK price \in Prices \cup {rows[r].cur} :
          /\ rows' = [rows EXCEPT ![r] = ClosedAt(rows[r], price)]
          /\ Becomes(s, [ses[s] EXCEPT !.todo = @ \ {r}, !.seen = cash,
                                       !.avail = @ + Proceeds(r, price)])
    BY <1>9 DEF CloseRow
  <2> DEFINE m == [ses[s] EXCEPT !.todo = @ \ {r}, !.seen = cash, !.avail = @ + Proceeds(r, price)]
  <2>2. Commits(s) /\ UNCHANGED cash /\ Fresh(s) /\ ses[s].op = "close"
    BY <1>0, <1>9, Writer DEF CloseRow
  <2>3. r \in ses[s].todo /\ rows[r] \in Row
    BY <1>0, <1>9, NextVisit DEF CloseRow
  <2>6. price \in Int
    BY <2>3, MarketAssumption DEF Row
  <2> HIDE DEF r
  <2>4. OpenRows' = OpenRows \ {r} /\ OneOpenRow'
    BY <1>0, <2>1, <2>2, <2>3, <2>6, ClosingStep
  <2>5. m.op = "close" /\ m.seen = cash /\ m.todo \subseteq OpenRows'
    BY <1>ses, <2>2, <2>4 DEF Memory, Good
  <2> QED BY <1>0, <2>1, <2>2, <2>4, <2>5, WriteStep
<1>10. ASSUME NEW s \in Sessions, Create(s)
       PROVE  Untainted'
  <2> DEFINE m == [ses[s] EXCEPT !.op = "execute", !.pend = NoHolding, !.seen = cash,
                                 !.avail = @ - TotalCost(ses[s].pend)]
  <2>1. Commits(s) /\ UNCHANGED cash /\ Fresh(s) /\ Becomes(s, m)
    BY <1>0, <1>10, Writer DEF Create
  <2>2. OpenRows \subseteq OpenRows' /\ OneOpenRow'
    BY <1>0, <1>10, <2>1, OpeningStep
  <2>3. m.op = "execute" /\ m.seen = cash /\ m.todo \subseteq OpenRows'
    BY <1>ses, <2>1, <2>2 DEF Memory, Good
  <2> QED BY <1>0, <2>1, <2>2, <2>3, WriteStep
<1>11. ASSUME NEW s \in Sessions, MarkCredit(s)
       PROVE  Untainted'
  <2> DEFINE m == [ses[s] EXCEPT !.op = "mark", !.avail = 0, !.seen = cash']
  <2>1. Becomes(s, m) /\ Settles(s) /\ UNCHANGED rows
    BY <1>11 DEF MarkCredit
  <2>2. mode[s] = "dirty"
    BY <1>11, <1>ses DEF MarkCredit, Good
  <2>3. Fresh(s)
    BY <1>0, <2>2 DEF Untainted, OneWriter, Fresh
  <2>4. m.op = "mark" /\ m.todo \subseteq OpenRows
    BY <1>ses, <2>3 DEF Memory, Good
  <2> QED BY <1>0, <2>1, <2>2, <2>4, SettleStep
<1>12. ASSUME NEW s \in Sessions, EndMark(s) \/ UpdateBalances(s) \/ Crash(s)
       PROVE  Untainted'
  <2>1. Becomes(s, Idle) /\ Settles(s) /\ UNCHANGED rows
    BY <1>12 DEF EndMark, UpdateBalances, Crash
  <2>2. mode[s] # "dirty" => cash' = cash
    BY <1>12, <1>ses DEF EndMark, UpdateBalances, Crash, WriteCash, Good
  <2>3. Idle.op = "idle" /\ Idle.todo = {}
    BY DEF Idle
  <2> QED BY <1>0, <2>1, <2>2, <2>3, SettleStep
<1>13. CASE UNCHANGED vars
  BY <1>0, <1>13 DEF vars, Untainted, OneWriter, OneOpenRow, OpenRows, OpenOn, Good, Fresh
<1> QED BY <1>1, <1>2, <1>3, <1>4, <1>5, <1>6, <1>7, <1>8, <1>9, <1>10, <1>11, <1>12, <1>13
        DEF Next, Step

\* The inductive invariant of the untainted account.
THEOREM InvCorrect == Spec => []Inv
BY InitInv, InvStep, PTL DEF Spec

\* As long as every change of a position is made by an operation that began on
\* the account as it still is, no symbol has two open positions.
THEOREM UniqueOpenCorrect == Spec => []UniqueOpen
<1>1. Inv => UniqueOpen
  BY DEF Inv, OneOpenRow, UniqueOpen
<1> QED BY InvCorrect, <1>1, PTL

-----------------------------------------------------------------------------
(* Untainted steps are steps of the abstract ledger. *)

\* The cash the ledger sees is where the latest change of a position left it.
LEMMA FundsAre ==
  ASSUME OneWriter, NEW s \in Sessions
  PROVE  /\ mode[s] = "dirty" => Funds = ses[s].avail
         /\ (\A t \in Sessions : mode[t] # "dirty") => Funds = cash
<1>1. CASE mode[s] = "dirty"
  <2>1. s \in Dirty /\ \A t \in Dirty : t = s
    BY <1>1 DEF Dirty, OneWriter
  <2> QED BY <1>1, <2>1 DEF Funds
<1>2. CASE mode[s] # "dirty"
  BY <1>2 DEF Funds, Dirty
<1> QED BY <1>1, <1>2

\* An operation that is neither stale nor shares the account sees its real cash.
LEMMA FundsOfWriter ==
  ASSUME LedgerTypeOK, Untainted, NEW s \in Sessions, Fresh(s)
  PROVE  /\ ses[s].op \in {"close", "execute", "create"} => Funds = ses[s].avail
         /\ ses[s].op = "mark" => Funds = cash
<1>1. OneWriter /\ Good(s, ses[s])
  BY DEF Untainted
<1>2. CASE mode[s] = "dirty"
  BY <1>1, <1>2, FundsAre DEF Good
<1>3. CASE mode[s] # "dirty"
  <2>1. \A t \in Sessions : mode[t] # "dirty"
    BY <1>3 DEF Fresh
  <2>2. Funds = cash
    BY <1>1, <2>1, FundsAre
  <2> QED BY <1>1, <1>3, <2>2 DEF Good, Fresh
<1> QED BY <1>2, <1>3

\* What the ledger sees of a symbol with one open position.
LEMMA HeldIs ==
  ASSUME OneOpenRow, NEW sym \in Symbols
  PROVE  /\ OpenOn(sym) = {} => Held[sym] = NoHolding
         /\ \A r \in OpenOn(sym) : Held[sym] = HoldingOf(rows[r])
<1>1. ASSUME NEW r \in OpenOn(sym)
      PROVE  Held[sym] = HoldingOf(rows[r])
  <2>1. (CHOOSE i \in OpenOn(sym) : TRUE) = r
    BY <1>1 DEF OneOpenRow, OpenOn
  <2> QED BY <1>1, <2>1 DEF Held
<1> QED BY <1>1 DEF Held

\* The ledger does not see marks: only symbols, statuses and holdings count.
LEMMA SameHeld ==
  ASSUME OneOpenRow, OneOpenRow', OpenRows' = OpenRows,
         \A r \in OpenRows : rows'[r].sym = rows[r].sym /\ HoldingOf(rows'[r]) = HoldingOf(rows[r])
  PROVE  Held' = Held
<1>1. ASSUME NEW sym \in Symbols
      PROVE  Held'[sym] = Held[sym]
  <2>1. OpenOn(sym)' = OpenOn(sym)
    BY DEF OpenOn
  <2>2. CASE OpenOn(sym) = {}
    BY <2>1, <2>2 DEF Held
  <2>3. CASE OpenOn(sym) # {}
    <3>1. PICK r \in OpenOn(sym) : TRUE
      BY <2>3
    <3>2. \A i \in OpenOn(sym) : i = r
      BY DEF OneOpenRow, OpenOn
    <3> QED BY <2>1, <3>1, <3>2 DEF Held, OpenOn
  <2> QED BY <2>2, <2>3
<1> QED BY <1>1 DEF Held

\* The ledger computes with the same arithmetic.
LEMMA SameMath ==
  ASSUME NEW h
  PROVE  /\ Ledger!TotalCost(h) = TotalCost(h)
         /\ \A price : Ledger!NetRecovered(h, Ledger!ExitPrice(price, h.side))
                         = NetRecovered(h, ExitPrice(price, h.side))
<1>1. /\ \A n : Ledger!Fee(n) = Fee(n)
      /\ \A p : Ledger!Slippage(p) = Slippage(p)
      /\ \A side : Ledger!Sign(side) = Sign(side)
  BY DEF Ledger!Fee, Fee, Ledger!Slippage, Slippage, Ledger!Sign, Sign
<1>2. \A p, side : /\ Ledger!ExecutionPrice(p, side) = ExecutionPrice(p, side)
                   /\ Ledger!ExitPrice(p, side) = ExitPrice(p, side)
  BY <1>1 DEF Ledger!ExecutionPrice, ExecutionPrice, Ledger!ExitPrice, ExitPrice
<1>3. Ledger!Notional(h) = Notional(h)
  BY <1>2 DEF Ledger!Notional, Notional
<1>4. \A exit : Ledger!RawPnl(h, exit) = RawPnl(h, exit)
  BY <1>1 DEF Ledger!RawPnl, RawPnl
<1>5. Ledger!TotalCost(h) = TotalCost(h)
  BY <1>1, <1>3 DEF Ledger!TotalCost, TotalCost
<1>6. \A exit : Ledger!NetRecovered(h, exit) = NetRecovered(h, exit)
  BY <1>1, <1>4 DEF Ledger!NetRecovered, NetRecovered
<1> QED BY <1>2, <1>5, <1>6

\* Money depends on the holding a row is about only.
LEMMA SameHolding ==
  ASSUME NEW g, NEW h, HoldingOf(g) = HoldingOf(h)
  PROVE  /\ g.side = h.side
         /\ TotalCost(g) = TotalCost(h)
         /\ \A exit : NetRecovered(g, exit) = NetRecovered(h, exit)
<1>1. g.side = h.side /\ g.qty = h.qty /\ g.entry = h.entry
  BY DEF HoldingOf
<1> QED BY <1>1 DEF TotalCost, Notional, NetRecovered, RawPnl

\* What a row or an order was entered at is a holding of the ledger.
LEMMA HoldingsOfRows ==
  ASSUME NEW h, h.side \in Sides, h.qty \in Qtys, h.entry \in Prices
  PROVE  /\ HoldingOf(h) \in Ledger!Holdings
         /\ HoldingOf(HoldingOf(h)) = HoldingOf(h)
BY DEF HoldingOf, Ledger!Holdings, Ledger!Sides, Sides

\* Once a session has changed a row, the cash it carries is the funds of the ledger.
LEMMA FundsAfterWrite ==
  ASSUME LedgerTypeOK, Untainted, NEW s \in Sessions, NEW m, Becomes(s, m), Commits(s), ~tainted'
  PROVE  Funds' = m.avail
<1>1. ses'[s] = m
  BY DEF LedgerTypeOK, Becomes
<1>2. Dirty' = {s}
  BY Writer DEF Dirty
<1> QED BY <1>1, <1>2 DEF Funds

\* Closing a row and adding its proceeds to the carried cash is the ledger's Close.
LEMMA LedgerClose ==
  ASSUME LedgerTypeOK, Untainted, OneOpenRow, NEW s \in Sessions, Fresh(s),
         NEW price \in Prices, NEW r, r \in ses[s].todo,
         rows' = [rows EXCEPT ![r] = ClosedAt(rows[r], price)],
         Funds' = Funds + Proceeds(r, price)
  PROVE  Ledger!Next
<1> DEFINE sym == rows[r].sym
<1>1. /\ r \in OpenRows
      /\ OpenRows' = OpenRows \ {r}
      /\ \A i \in DOMAIN rows \ {r} : rows'[i] = rows[i]
      /\ rows[r] \in Row
      /\ OneOpenRow'
  <2>1. price \in Int
    BY MarketAssumption
  <2> QED BY <2>1, ClosingStep
<1>2. sym \in Symbols /\ r \in OpenOn(sym)
  BY <1>1 DEF Row, OpenOn
<1>3. rows[r].side \in Sides /\ rows[r].qty \in Qtys /\ rows[r].entry \in Prices
  BY <1>1 DEF Row
<1>4. Held[sym] = HoldingOf(rows[r])
  BY <1>2, HeldIs
<1>5. Held[sym] # NoHolding
  <2>1. Held[sym] \in Holdings
    BY <1>3, <1>4 DEF HoldingOf, Holdings
  <2> QED BY <2>1, BrokerAssumption
<1>6. Ledger!NetRecovered(Held[sym], Ledger!ExitPrice(price, Held[sym].side)) = Proceeds(r, price)
  <2>1. HoldingOf(Held[sym]) = HoldingOf(rows[r])
    BY <1>3, <1>4, HoldingsOfRows
  <2> QED BY <2>1, SameHolding, SameMath DEF Proceeds
<1>7. ASSUME NEW other \in Symbols
      PROVE  Held'[other] = IF other = sym THEN NoHolding ELSE Held[other]
  <2>1. OpenOn(other)' = OpenOn(other) \ {r}
    BY <1>1 DEF OpenOn, OpenRows
  <2>2. CASE other = sym
    <3>1. OpenOn(other) = {r}
      BY <1>2, <2>2 DEF OneOpenRow, OpenOn
    <3> QED BY <2>1, <2>2, <3>1 DEF Held
  <2>3. CASE other # sym
    <3>1. OpenOn(other)' = OpenOn(other) /\ \A i \in OpenOn(other) : rows'[i] = rows[i]
      BY <1>1, <1>2, <2>1, <2>3 DEF OpenOn, OpenRows
    <3>2. CASE OpenOn(other) = {}
      BY <2>3, <3>1, <3>2 DEF Held
    <3>3. CASE OpenOn(other) # {}
      <4>1. PICK i \in OpenOn(other) : TRUE
        BY <3>3
      <4>2. \A j \in OpenOn(other) : j = i
        BY DEF OneOpenRow, OpenOn
      <4> QED BY <2>3, <3>1, <4>1, <4>2 DEF Held
    <3> QED BY <3>2, <3>3
  <2> QED BY <2>2, <2>3
<1>8. Held' = [Held EXCEPT ![sym] = NoHolding]
  BY <1>7 DEF Held
<1> QED BY <1>2, <1>5, <1>6, <1>8 DEF Ledger!Next, Ledger!Close

\* Inserting a row and taking its cost from the carried cash is the ledger's Open.
LEMMA LedgerOpen ==
  ASSUME LedgerTypeOK, Untainted, OneOpenRow, NEW s \in Sessions, Fresh(s), Create(s),
         Funds' = Funds - TotalCost(ses[s].pend), TotalCost(ses[s].pend) <= Funds
  PROVE  Ledger!Next
<1> DEFINE order == ses[s].pend
           sym == order.sym
           new == Len(rows) + 1
<1>1. /\ OpenRows' = OpenRows \cup {new}
      /\ new \notin DOMAIN rows
      /\ \A i \in DOMAIN rows : rows'[i] = rows[i]
      /\ HoldingOf(rows'[new]) = HoldingOf(order)
      /\ rows'[new].sym = sym
      /\ OpenOn(sym) = {}
  BY OpeningStep
<1>2. order \in Orders
  BY DEF LedgerTypeOK, Create
<1>3. sym \in Symbols /\ order.side \in Sides /\ order.qty \in Qtys /\ order.entry \in Prices
  BY <1>2 DEF Orders
<1> DEFINE h == HoldingOf(order)
<1>4. h \in Ledger!Holdings /\ HoldingOf(h) = HoldingOf(order)
  BY <1>3, HoldingsOfRows
<1>5. Ledger!TotalCost(h) = TotalCost(order)
  BY <1>4, SameHolding, SameMath
<1>6. Held[sym] = NoHolding
  BY <1>1, <1>3, HeldIs
<1> HIDE DEF order, sym, new, h
<1>7. ASSUME NEW other \in Symbols
      PROVE  Held'[other] = IF other = sym THEN h ELSE Held[other]
  <2>1. OpenOn(other)' = OpenOn(other) \cup (IF other = sym THEN {new} ELSE {})
    BY <1>1 DEF OpenOn, OpenRows
  <2>2. CASE other = sym
    <3>1. OpenOn(other)' = {new}
      BY <1>1, <2>1, <2>2
    <3> QED BY <1>1, <2>2, <3>1 DEF Held, h
  <2>3. CASE other # sym
    <3>1. OpenOn(other)' = OpenOn(other) /\ \A i \in OpenOn(other) : rows'[i] = rows[i]
      BY <1>1, <2>1, <2>3 DEF OpenOn, OpenRows
    <3>2. CASE OpenOn(other) = {}
      BY <2>3, <3>1, <3>2 DEF Held
    <3>3. CASE OpenOn(other) # {}
      <4>1. PICK i \in OpenOn(other) : TRUE
        BY <3>3
      <4>2. \A j \in OpenOn(other) : j = i
        BY DEF OneOpenRow, OpenOn
      <4> QED BY <2>3, <3>1, <4>1, <4>2 DEF Held
    <3> QED BY <3>2, <3>3
  <2> QED BY <2>2, <2>3
<1>8. Held' = [Held EXCEPT ![sym] = h]
  BY <1>7 DEF Held
<1>9. Funds' = Funds - Ledger!TotalCost(h) /\ Ledger!TotalCost(h) <= Funds
  BY <1>5 DEF order
<1> QED BY <1>3, <1>4, <1>6, <1>8, <1>9 DEF Ledger!Next, Ledger!Open

\* A step that leaves the carried cash alone leaves the ledger's funds alone.
LEMMA FundsKept ==
  ASSUME LedgerTypeOK, OneWriter, NEW s \in Sessions, NEW m, Becomes(s, m),
         UNCHANGED <<cash, mode>>, mode[s] = "dirty" => m.avail = ses[s].avail
  PROVE  Funds' = Funds
<1>1. ses'[s] = m /\ \A t \in Sessions \ {s} : ses'[t] = ses[t]
  BY DEF LedgerTypeOK, Becomes
<1>2. Dirty' = Dirty
  BY DEF Dirty
<1>3. CASE Dirty = {}
  BY <1>2, <1>3 DEF Funds
<1>4. CASE Dirty # {}
  <2>1. PICK t \in Dirty : t = CHOOSE u \in Dirty : TRUE
    BY <1>4
  <2>2. t \in Sessions /\ mode[t] = "dirty"
    BY <2>1 DEF Dirty
  <2>3. ses'[t].avail = ses[t].avail
    BY <1>1, <2>2
  <2> QED BY <1>2, <1>4, <2>1, <2>3 DEF Funds
<1> QED BY <1>3, <1>4

\* So does writing the carried cash to the account.
LEMMA FundsSettled ==
  ASSUME LedgerTypeOK, Untainted, NEW s \in Sessions, NEW m, Becomes(s, m), Settles(s),
         mode[s] = "dirty" => cash' = ses[s].avail,
         mode[s] # "dirty" => cash' = cash
  PROVE  Funds' = Funds
<1>1. \A t \in Sessions \ {s} : ses'[t] = ses[t]
  BY DEF LedgerTypeOK, Becomes
<1>2. OneWriter
  BY DEF Untainted
<1>3. CASE mode[s] = "dirty"
  <2>1. Dirty' = {}
    BY <1>2, <1>3 DEF Dirty, Settles, OneWriter
  <2>2. Funds = ses[s].avail
    BY <1>2, <1>3, FundsAre
  <2> QED BY <1>3, <2>1, <2>2 DEF Funds
<1>4. CASE mode[s] # "dirty"
  <2>1. Dirty' = Dirty /\ s \notin Dirty /\ cash' = cash
    BY <1>4 DEF Dirty, Settles
  <2>2. CASE Dirty = {}
    BY <2>1, <2>2 DEF Funds
  <2>3. CASE Dirty # {}
    <3>1. PICK t \in Dirty : t = CHOOSE u \in Dirty : TRUE
      BY <2>3
    <3>2. ses'[t] = ses[t]
      BY <1>1, <2>1, <3>1 DEF Dirty
    <3> QED BY <2>1, <2>3, <3>1, <3>2 DEF Funds
  <2> QED BY <2>2, <2>3
<1> QED BY <1>3, <1>4

\* The ledger's holdings depend on the table only.
LEMMA HeldUnchanged ==
  ASSUME UNCHANGED rows
  PROVE  Held' = Held
BY DEF Held, OpenOn, OpenRows

\* The steps a session takes between the changes of positions do not show.
LEMMA QuietStep ==
  ASSUME LedgerTypeOK, Untainted, Untainted', NEW s \in Sessions, ~tainted',
         \/ BeginMark(s) \/ SkipMark(s) \/ Mark(s) \/ MarkCredit(s) \/ EndMark(s)
         \/ BeginClose(s) \/ Keep(s) \/ BeginExecute(s) \/ SkipTarget(s) \/ Decide(s)
         \/ UpdateBalances(s) \/ Crash(s)
  PROVE  Funds' = Funds /\ Held' = Held
<1>1. Good(s, ses[s]) /\ OneWriter /\ OneOpenRow /\ OneOpenRow' /\ ses[s] \in Memory
  BY DEF Untainted, LedgerTypeOK
<1>2. CASE BeginMark(s) \/ BeginClose(s) \/ BeginExecute(s)
  <2>1. mode[s] # "dirty" /\ UNCHANGED <<rows, cash, mode>>
    BY <1>1, <1>2 DEF BeginMark, BeginClose, BeginExecute, Good
  <2>2. PICK m : Becomes(s, m)
    BY <1>2 DEF BeginMark, BeginClose, BeginExecute
  <2> QED BY <1>1, <2>1, <2>2, FundsKept, HeldUnchanged
<1>3. CASE SkipMark(s) \/ Keep(s) \/ SkipTarget(s) \/ Decide(s)
  <2>1. UNCHANGED <<rows, cash, mode>>
    BY <1>3 DEF SkipMark, Keep, SkipTarget, Decide
  <2>2. Becomes(s, ses'[s]) /\ ses'[s].avail = ses[s].avail
    <3>1. CASE SkipMark(s) \/ Keep(s)
      BY <1>1, <3>1 DEF SkipMark, Keep, Memory, Becomes, LedgerTypeOK
    <3>2. CASE SkipTarget(s)
      BY <1>1, <3>2 DEF SkipTarget, Memory, Becomes, LedgerTypeOK
    <3>3. CASE Decide(s)
      <4>1. PICK sym, order :
              Becomes(s, [ses[s] EXCEPT !.op = "create", !.pend = order,
                                        !.want = [@ EXCEPT ![sym] = "FLAT"]])
        BY <3>3 DEF Decide
      <4> QED BY <1>1, <4>1 DEF Memory, Becomes, LedgerTypeOK
    <3> QED BY <1>3, <3>1, <3>2, <3>3
  <2> QED BY <1>1, <2>1, <2>2, FundsKept, HeldUnchanged
<1>4. CASE Mark(s)
  <2> DEFINE r == Min(ses[s].todo)
  <2>1. UNCHANGED <<cash, mode>>
    BY <1>4 DEF Mark
  <2>2. Becomes(s, ses'[s]) /\ ses'[s].avail = ses[s].avail
    BY <1>1, <1>4 DEF Mark, Memory, Becomes, LedgerTypeOK
  <2>3. Funds' = Funds
    BY <1>1, <2>1, <2>2, FundsKept
  <2>4. PICK price \in Prices : rows' = [rows EXCEPT ![r] = [rows[r] EXCEPT !.cur = price]]
    BY <1>4 DEF Mark
  <2>5. r \in DOMAIN rows /\ rows[r] \in Row
    BY <1>4, NextVisit DEF Mark
  <2> DEFINE row == [rows[r] EXCEPT !.cur = price]
  <2>6. row.sym = rows[r].sym /\ HoldingOf(row) = HoldingOf(rows[r]) /\ row.status = rows[r].status
    BY <2>5 DEF Row, HoldingOf
  <2>7. rows \in Seq(Row) /\ DOMAIN rows = 1..Len(rows)
    BY DEF LedgerTypeOK
  <2> HIDE DEF r, row
  <2>8. /\ DOMAIN rows' = DOMAIN rows
        /\ rows'[r] = row /\ \A i \in DOMAIN rows \ {r} : rows'[i] = rows[i]
    BY <2>4, <2>5, <2>7 DEF row
  <2>9. /\ OpenRows' = OpenRows
        /\ \A i \in OpenRows : /\ rows'[i].sym = rows[i].sym
                               /\ HoldingOf(rows'[i]) = HoldingOf(rows[i])
    BY <2>6, <2>8 DEF OpenRows
  <2> QED BY <1>1, <2>3, <2>9, SameHeld
<1>5. CASE MarkCredit(s) \/ UpdateBalances(s)
  <2>1. Settles(s) /\ WriteCash(s) /\ UNCHANGED rows
    BY <1>5 DEF MarkCredit, UpdateBalances
  <2>2. PICK m : Becomes(s, m)
    BY <1>5 DEF MarkCredit, UpdateBalances
  <2>3. /\ mode[s] # "stale" => ses[s].seen = cash
        /\ mode[s] # "dirty" => ses[s].avail = ses[s].seen
    BY <1>1, <1>5 DEF MarkCredit, UpdateBalances, Good
  <2> QED BY <2>1, <2>2, <2>3, FundsSettled, HeldUnchanged DEF WriteCash
<1>6. CASE EndMark(s) \/ Crash(s)
  <2>1. Settles(s) /\ Becomes(s, Idle) /\ UNCHANGED <<rows, cash>> /\ mode[s] # "dirty"
    BY <1>1, <1>6 DEF EndMark, Crash, Good
  <2> QED BY <2>1, FundsSettled, HeldUnchanged
<1> QED BY <1>2, <1>3, <1>4, <1>5, <1>6

\* What a session does between the changes of positions.
Quiet(s) ==
  \/ BeginMark(s) \/ SkipMark(s) \/ Mark(s) \/ MarkCredit(s) \/ EndMark(s)
  \/ BeginClose(s) \/ Keep(s) \/ BeginExecute(s) \/ SkipTarget(s) \/ Decide(s)
  \/ UpdateBalances(s) \/ Crash(s)

\* s closes the open row r at a price and carries its proceeds.
Closes(s, r, price) ==
  /\ r \in ses[s].todo /\ price \in Prices /\ Fresh(s)
  /\ rows' = [rows EXCEPT ![r] = ClosedAt(rows[r], price)]
  /\ Funds' = Funds + Proceeds(r, price)

\* s inserts the position it has decided to open and carries what is left.
Opens(s) ==
  /\ Create(s) /\ Fresh(s)
  /\ TotalCost(ses[s].pend) <= Funds
  /\ Funds' = Funds - TotalCost(ses[s].pend)

\* A step that does not taint starts from an account that was not.
LEMMA WasUntainted ==
  ASSUME Inv, NEW s \in Sessions, Step(s), ~tainted'
  PROVE  LedgerTypeOK /\ ~tainted /\ Untainted /\ OneOpenRow
<1>1. ~tainted
  BY DEF Step, BeginMark, SkipMark, Mark, MarkHit, MarkCredit, EndMark, BeginClose,
         Keep, CloseRow, BeginExecute, SkipTarget, Decide, Create, UpdateBalances,
         Crash, Commits
<1> QED BY <1>1, InvIs DEF Untainted

\* Such a step closes one open position, opens one or leaves the positions alone.
LEMMA MoneyStep ==
  ASSUME Inv, NEW s \in Sessions, Step(s), ~tainted'
  PROVE  \/ \E r \in ses[s].todo, price \in Prices : Closes(s, r, price)
         \/ Opens(s)
         \/ Quiet(s)
<1>0. LedgerTypeOK /\ ~tainted /\ Untainted /\ OneOpenRow
  BY WasUntainted
<1>m. ses[s] \in Memory
  BY <1>0 DEF LedgerTypeOK
<1>1. CASE MarkHit(s)
  <2> DEFINE r == Min(ses[s].todo)
  <2>1. PICK price \in Prices :
          /\ rows' = [rows EXCEPT ![r] = ClosedAt(rows[r], price)]
          /\ Becomes(s, [ses[s] EXCEPT !.op = "credit", !.todo = @ \ {r}, !.seen = cash,
                                       !.avail = cash + Proceeds(r, price)])
    BY <1>1 DEF MarkHit
  <2> DEFINE m == [ses[s] EXCEPT !.op = "credit", !.todo = @ \ {r}, !.seen = cash,
                                 !.avail = cash + Proceeds(r, price)]
  <2>2. r \in ses[s].todo
    BY <1>0, <1>1, NextVisit DEF MarkHit
  <2>3. Commits(s) /\ Fresh(s) /\ ses[s].op = "mark"
    BY <1>0, <1>1, Writer DEF MarkHit
  <2>4. Funds = cash
    BY <1>0, <2>3, FundsOfWriter
  <2>5. m.avail = cash + Proceeds(r, price)
    BY <1>m DEF Memory
  <2> HIDE DEF r, m
  <2>6. Funds' = Funds + Proceeds(r, price)
    BY <1>0, <2>1, <2>3, <2>4, <2>5, FundsAfterWrite DEF m
  <2>7. r \in ses[s].todo /\ price \in Prices /\ Closes(s, r, price)
    BY <1>0, <2>1, <2>2, <2>3, <2>6 DEF Closes
  <2> QED BY <2>7
<1>2. CASE CloseRow(s)
  <2> DEFINE r == Min(ses[s].todo)
  <2>1. PICK price \in Prices \cup {rows[r].cur} :
          /\ rows' = [rows EXCEPT ![r] = ClosedAt(rows[r], price)]
          /\ Becomes(s, [ses[s] EXCEPT !.todo = @ \ {r}, !.seen = cash,
                                       !.avail = @ + Proceeds(r, price)])
    BY <1>2 DEF CloseRow
  <2> DEFINE m == [ses[s] EXCEPT !.todo = @ \ {r}, !.seen = cash, !.avail = @ + Proceeds(r, price)]
  <2>2. r \in ses[s].todo
    BY <1>0, <1>2, NextVisit DEF CloseRow
  <2>3. Commits(s) /\ Fresh(s) /\ ses[s].op = "close"
    BY <1>0, <1>2, Writer DEF CloseRow
  <2>4. Funds = ses[s].avail
    BY <1>0, <2>3, FundsOfWriter
  <2>5. m.avail = ses[s].avail + Proceeds(r, price)
    BY <1>m DEF Memory
  <2> HIDE DEF r, m
  <2>6. Funds' = Funds + Proceeds(r, price)
    BY <1>0, <2>1, <2>3, <2>4, <2>5, FundsAfterWrite DEF m
  <2>7. price \in Prices
    <3>1. r \in OpenRows
      BY <1>0, <2>2, <2>3 DEF Untainted, Good
    <3> QED BY <1>0, <2>1, <3>1 DEF LedgerTypeOK
  <2>8. r \in ses[s].todo /\ price \in Prices /\ Closes(s, r, price)
    BY <1>0, <2>1, <2>2, <2>3, <2>6, <2>7 DEF Closes
  <2> QED BY <2>8
<1>3. CASE Create(s)
  <2> DEFINE order == ses[s].pend
             m == [ses[s] EXCEPT !.op = "execute", !.pend = NoHolding, !.seen = cash,
                                 !.avail = @ - TotalCost(order)]
  <2>1. Becomes(s, m) /\ Commits(s) /\ Fresh(s) /\ ses[s].op = "create"
    BY <1>0, <1>3, Writer DEF Create
  <2>2. Funds = ses[s].avail
    BY <1>0, <2>1, FundsOfWriter
  <2>3. TotalCost(order) <= Funds
    BY <1>0, <2>1, <2>2 DEF Untainted, Good
  <2>4. m.avail = ses[s].avail - TotalCost(order)
    BY <1>m DEF Memory
  <2> HIDE DEF m
  <2>5. Funds' = Funds - TotalCost(order)
    BY <1>0, <2>1, <2>2, <2>4, FundsAfterWrite
  <2> QED BY <1>3, <2>1, <2>3, <2>5 DEF Opens
<1> QED BY <1>1, <1>2, <1>3 DEF Step, Quiet

\* Every step that does not taint is a step of the ledger or changes nothing there.
LEMMA LedgerStep ==
  Inv /\ Inv' /\ [Next]_vars => (~tainted' => [Ledger!Next]_(Ledger!ledgerVars))
<1> SUFFICES ASSUME Inv, Inv', [Next]_vars, ~tainted'
             PROVE  Ledger!Next \/ (Funds' = Funds /\ Held' = Held)
  BY DEF Ledger!ledgerVars
<1>0. Untainted'
  BY DEF Inv, Untainted, Good, Phases, Balances, Plans
<1>1. ASSUME NEW s \in Sessions, Step(s)
      PROVE  Ledger!Next \/ (Funds' = Funds /\ Held' = Held)
  <2>0. LedgerTypeOK /\ Untainted /\ OneOpenRow
    BY <1>1, WasUntainted
  <2>1. ASSUME NEW r \in ses[s].todo, NEW price \in Prices, Closes(s, r, price)
        PROVE  Ledger!Next
    BY <2>0, <2>1, LedgerClose DEF Closes
  <2>2. CASE Opens(s)
    BY <2>0, <2>2, LedgerOpen DEF Opens
  <2>3. CASE Quiet(s)
    BY <1>0, <2>0, <2>3, QuietStep DEF Quiet
  <2> QED BY <1>1, <2>1, <2>2, <2>3, MoneyStep
<1>2. CASE UNCHANGED vars
  BY <1>2 DEF vars, Funds, Held, Dirty, OpenOn, OpenRows
<1> QED BY <1>1, <1>2 DEF Next

\* The broker departs from the abstract ledger only through a change of a position
\* by an operation that should have started over: every other step is one of the
\* ledger, or leaves funds and holdings as they are.
THEOREM UntaintedStepsCorrect == Spec => UntaintedStepsKeepTheLedger
<1>1. Spec => [][~tainted' => [Ledger!Next]_(Ledger!ledgerVars)]_vars
  BY InvCorrect, LedgerStep, PTL DEF Spec
<1> QED BY <1>1 DEF UntaintedStepsKeepTheLedger

-----------------------------------------------------------------------------
(* The books: the cash that the positions table accounts for. *)

\* The carried cash is what the table accounts for, as long as nothing is tainted.
FundsBooked == ~tainted => Funds = BookCash

\* A row accounts for a whole number of ticks.
LEMMA FlowType ==
  ASSUME NEW row \in Row
  PROVE  Flow(row) \in Int
<1>1. row.side \in Sides /\ row.qty \in Qtys /\ row.entry \in Prices /\ row.realized \in Int
  BY DEF Row
<1>2. row.qty * row.entry \in Int
  BY <1>1, MarketAssumption
<1>3. TotalCost(row) \in Int
  BY <1>1, CostType
<1> QED BY <1>1, <1>2, <1>3 DEF Flow

\* So the table is a finite table of whole numbers.
LEMMA FlowsType ==
  ASSUME NEW table \in Seq(Row)
  PROVE  /\ [r \in DOMAIN table |-> Flow(table[r])] \in [DOMAIN table -> Int]
         /\ IsFiniteSet(DOMAIN table)
<1>1. DOMAIN table = 1..Len(table) /\ Len(table) \in Nat
  OBVIOUS
<1>2. \A r \in DOMAIN table : table[r] \in Row
  BY ElementOfSeq, <1>1
<1>3. \A r \in DOMAIN table : Flow(table[r]) \in Int
  BY <1>2, FlowType
<1>4. IsFiniteSet(1..Len(table))
  BY <1>1, FS_Interval
<1> QED BY <1>1, <1>3, <1>4

\* A mark and what is kept in memory do not change what a row accounts for.
LEMMA FlowsKept ==
  ASSUME LedgerTypeOK, NEW s \in Sessions, Quiet(s)
  PROVE  DOMAIN rows' = DOMAIN rows /\ \A i \in DOMAIN rows : Flow(rows'[i]) = Flow(rows[i])
<1>1. CASE Mark(s)
  <2> DEFINE r == Min(ses[s].todo)
  <2>1. r \in DOMAIN rows /\ rows[r] \in Row
    BY <1>1, NextVisit DEF Mark
  <2>2. PICK price \in Prices : rows' = [rows EXCEPT ![r] = [rows[r] EXCEPT !.cur = price]]
    BY <1>1 DEF Mark
  <2> DEFINE row == [rows[r] EXCEPT !.cur = price]
  <2>3. /\ HoldingOf(row) = HoldingOf(rows[r])
        /\ row.status = rows[r].status /\ row.realized = rows[r].realized
        /\ row.qty = rows[r].qty /\ row.entry = rows[r].entry
    BY <2>1 DEF Row, HoldingOf
  <2> HIDE DEF r, row
  <2>4. Flow(row) = Flow(rows[r])
    BY <2>3, SameHolding DEF Flow
  <2>5. rows \in Seq(Row)
    BY DEF LedgerTypeOK
  <2>6. DOMAIN rows' = DOMAIN rows /\ \A i \in DOMAIN rows : Flow(rows'[i]) = Flow(rows[i])
    <3>1. /\ DOMAIN rows' = DOMAIN rows
          /\ rows'[r] = row /\ \A i \in DOMAIN rows \ {r} : rows'[i] = rows[i]
      BY <2>1, <2>2, <2>5 DEF row
    <3> QED BY <2>4, <3>1
  <2> QED BY <2>6
<1>2. CASE UNCHANGED rows
  BY <1>2
<1> QED BY <1>1, <1>2
        DEF Quiet, BeginMark, SkipMark, MarkCredit, EndMark, BeginClose, Keep, BeginExecute,
            SkipTarget, Decide, UpdateBalances, Crash

\* Nor do they touch the books.
LEMMA BooksKept ==
  ASSUME LedgerTypeOK, NEW s \in Sessions, Quiet(s)
  PROVE  BookCash' = BookCash
<1>1. [i \in DOMAIN rows' |-> Flow(rows'[i])] = [i \in DOMAIN rows |-> Flow(rows[i])]
  BY FlowsKept
<1> QED BY <1>1 DEF BookCash

\* What a closed row has brought back is its stake and its realized_pnl.
LEMMA ClosedRowFlow ==
  ASSUME NEW row, row.status = "CLOSED"
  PROVE  Flow(row) = (row.qty * row.entry + row.realized) - TotalCost(row)
<1>1. (IF row.status = "CLOSED" THEN row.qty * row.entry + row.realized ELSE 0)
        = row.qty * row.entry + row.realized
  OBVIOUS
<1> QED BY <1>1, Zenon DEF Flow

\* A closed row accounts for its proceeds on top of what it has cost.
LEMMA ClosedFlow ==
  ASSUME NEW row \in Row, row.status = "OPEN", NEW price \in Int
  PROVE  Flow(ClosedAt(row, price)) = Flow(row) + NetRecovered(row, ExitPrice(price, row.side))
<1> DEFINE exit == ExitPrice(price, row.side)
           stake == row.qty * row.entry
           pnl == RawPnl(row, exit)
           fee == Fee(row.qty * exit)
           closed == ClosedAt(row, price)
<1>1. row.side \in Sides /\ row.qty \in Qtys /\ row.entry \in Prices
  BY DEF Row
<1>2. exit \in Int
  BY <1>1, ExecutionType
<1>3. stake \in Int /\ pnl \in Int /\ fee \in Int /\ TotalCost(row) \in Int
  <2>1. row.qty \in Int /\ row.entry \in Int
    BY <1>1, MarketAssumption
  <2>2. row.qty * exit \in Int /\ stake \in Int
    BY <1>2, <2>1
  <2> QED BY <1>1, <1>2, <2>2, FeeType, PnlType, CostType
<1>4. closed.status = "CLOSED" /\ TotalCost(closed) = TotalCost(row)
  BY ClosedRow, SameHolding
<1>5. closed.qty = row.qty /\ closed.entry = row.entry
  BY ClosedRow DEF HoldingOf
<1>6. closed.realized = pnl - fee
  BY DEF ClosedAt, Row
<1>7. NetRecovered(row, exit) = stake + pnl - fee
  BY DEF NetRecovered
<1>8. Flow(row) = 0 - TotalCost(row)
  BY DEF Flow
<1>9. Flow(closed) = (stake + (pnl - fee)) - TotalCost(row)
  <2> HIDE DEF closed, pnl, fee
  <2>1. Flow(closed) = (closed.qty * closed.entry + closed.realized) - TotalCost(closed)
    BY <1>4, ClosedRowFlow
  <2>2. closed.qty * closed.entry = stake
    BY <1>5
  <2> HIDE DEF stake
  <2> QED BY <1>4, <1>6, <2>1, <2>2
<1> HIDE DEF exit, stake, pnl, fee, closed
<1>10. Flow(closed) = Flow(row) + NetRecovered(row, exit)
  BY <1>3, <1>7, <1>8, <1>9
<1> QED BY <1>10 DEF exit, closed

\* Closing an open row books its proceeds.
LEMMA BooksOfClose ==
  ASSUME LedgerTypeOK, NEW r \in OpenRows, NEW price \in Int,
         rows' = [rows EXCEPT ![r] = ClosedAt(rows[r], price)]
  PROVE  BookCash' = BookCash + Proceeds(r, price)
<1> DEFINE before == [i \in DOMAIN rows |-> Flow(rows[i])]
           after == [i \in DOMAIN rows' |-> Flow(rows'[i])]
<1>0. rows \in Seq(Row) /\ r \in DOMAIN rows /\ rows[r].status = "OPEN" /\ InitCash \in Int
  BY BrokerAssumption DEF LedgerTypeOK, OpenRows
<1>1. rows[r] \in Row
  BY <1>0, ElementOfSeq
<1>2. ClosedAt(rows[r], price) \in Row
  BY <1>1, ClosedRow
<1>3. /\ rows' \in Seq(Row)
      /\ DOMAIN rows' = DOMAIN rows
      /\ rows'[r] = ClosedAt(rows[r], price)
      /\ \A i \in DOMAIN rows \ {r} : rows'[i] = rows[i]
  BY <1>0, <1>2, ReplacedRow
<1>4. before \in [DOMAIN rows -> Int] /\ IsFiniteSet(DOMAIN rows)
  BY <1>0, FlowsType
<1>5. after \in [DOMAIN rows -> Int]
  BY <1>3, FlowsType
<1>6. \A i \in DOMAIN rows \ {r} : after[i] = before[i]
  BY <1>3
<1>7. after[r] = before[r] + Proceeds(r, price)
  BY <1>0, <1>1, <1>3, ClosedFlow DEF Proceeds
<1>8. Proceeds(r, price) \in Int
  BY <1>1, ExecutionType, ProceedsType DEF Row, Proceeds
<1>9. BookCash = InitCash + SumFunction(before) /\ BookCash' = InitCash + SumFunction(after)
  BY DEF BookCash
<1> HIDE DEF before, after
<1>10. SumFunction(after) = SumFunction(before) - before[r] + after[r]
  <2> DEFINE places == DOMAIN rows
  <2>1. /\ r \in places /\ IsFiniteSet(places)
        /\ before \in [places -> Int] /\ after \in [places -> Int]
        /\ \A i \in places \ {r} : after[i] = before[i]
    BY <1>0, <1>4, <1>5, <1>6
  <2> HIDE DEF places
  <2> QED BY ONLY <2>1, SumChanged
<1>11. SumFunction(before) \in Int /\ before[r] \in Int
  BY <1>0, <1>4, SumAll
<1> QED BY <1>0, <1>7, <1>8, <1>9, <1>10, <1>11

\* Inserting a position books its cost.
LEMMA BooksOfOpen ==
  ASSUME LedgerTypeOK, LedgerTypeOK', NEW s \in Sessions, Create(s)
  PROVE  BookCash' = BookCash - TotalCost(ses[s].pend)
<1> DEFINE before == [i \in DOMAIN rows |-> Flow(rows[i])]
           after == [i \in DOMAIN rows' |-> Flow(rows'[i])]
           order == ses[s].pend
           new == Len(rows) + 1
           row == [sym |-> order.sym, side |-> order.side, qty |-> order.qty,
                   entry |-> order.entry, cur |-> order.entry, realized |-> 0,
                   status |-> "OPEN"]
<1>0. rows \in Seq(Row) /\ rows' \in Seq(Row) /\ InitCash \in Int
  BY BrokerAssumption DEF LedgerTypeOK
<1>1. rows' = Append(rows, row) /\ order \in Orders
  BY DEF Create, LedgerTypeOK
<1>2. /\ DOMAIN rows' = DOMAIN rows \cup {new} /\ new \notin DOMAIN rows
      /\ rows'[new] = row /\ \A i \in DOMAIN rows : rows'[i] = rows[i]
  BY <1>0, <1>1
<1>3. before \in [DOMAIN rows -> Int] /\ IsFiniteSet(DOMAIN rows)
  BY <1>0, FlowsType
<1>4. after \in [DOMAIN rows \cup {new} -> Int]
  BY <1>0, <1>2, FlowsType
<1>5. \A i \in DOMAIN rows : after[i] = before[i]
  BY <1>2
<1>6. TotalCost(order) \in Int
  BY <1>1, CostType DEF Orders
<1>7. after[new] = 0 - TotalCost(order)
  <2>1. HoldingOf(row) = HoldingOf(order) /\ row.status = "OPEN"
    BY DEF HoldingOf
  <2>2. TotalCost(row) = TotalCost(order)
    BY <2>1, SameHolding
  <2>3. Flow(row) = 0 - TotalCost(row)
    BY <2>1 DEF Flow
  <2> QED BY <1>2, <2>2, <2>3
<1>8. BookCash = InitCash + SumFunction(before) /\ BookCash' = InitCash + SumFunction(after)
  BY DEF BookCash
<1> HIDE DEF before, after, order, row, new
<1>9. SumFunction(after) = SumFunction(before) + after[new]
  BY <1>2, <1>3, <1>4, <1>5, SumExtended
<1>10. SumFunction(before) \in Int
  BY <1>3, SumAll
<1>11. BookCash' = BookCash - TotalCost(order)
  BY <1>0, <1>6, <1>7, <1>8, <1>9, <1>10
<1> QED BY <1>11 DEF order

\* In the beginning the account holds its initial balance and the table is empty.
LEMMA InitBooked == Init => FundsBooked
<1> SUFFICES ASSUME Init
             PROVE  Funds = BookCash
  BY DEF FundsBooked
<1>1. Dirty = {} /\ cash = InitCash /\ rows = << >> /\ InitCash \in Int
  BY BrokerAssumption DEF Init, Dirty
<1> DEFINE flows == [i \in DOMAIN rows |-> Flow(rows[i])]
<1>2. flows \in [{} -> Int] /\ IsFiniteSet({}) /\ DOMAIN flows = {}
  BY <1>1, FS_EmptySet
<1>3. SumFunction(flows) = 0
  <2> HIDE DEF flows
  <2>1. SumFunctionOnSet(flows, {}) = 0
    BY <1>2, SumEmpty
  <2> QED BY <1>2, <2>1 DEF SumFunction
<1> QED BY <1>1, <1>3 DEF Funds, BookCash

\* Every step that does not taint books what it does to the carried cash.
LEMMA BookedStep == Inv /\ Inv' /\ FundsBooked /\ [Next]_vars => FundsBooked'
<1> SUFFICES ASSUME Inv, Inv', FundsBooked, [Next]_vars, ~tainted'
             PROVE  Funds' = BookCash'
  BY DEF FundsBooked
<1>0. Untainted' /\ LedgerTypeOK'
  BY DEF Inv, Untainted, Good, Phases, Balances, Plans
<1>1. ASSUME NEW s \in Sessions, Step(s)
      PROVE  Funds' = BookCash'
  <2>0. LedgerTypeOK /\ Untainted /\ OneOpenRow /\ Funds = BookCash
    BY <1>1, WasUntainted DEF FundsBooked
  <2>1. ASSUME NEW r \in ses[s].todo, NEW price \in Prices, Closes(s, r, price)
        PROVE  Funds' = BookCash'
    <3>1. r \in OpenRows /\ price \in Int
      BY <2>0, <2>1, MarketAssumption DEF Closes, Untainted, Good
    <3> QED BY <2>0, <2>1, <3>1, BooksOfClose DEF Closes
  <2>2. CASE Opens(s)
    BY <1>0, <2>0, <2>2, BooksOfOpen DEF Opens
  <2>3. CASE Quiet(s)
    <3>1. Funds' = Funds
      BY <1>0, <2>0, <2>3, QuietStep DEF Quiet
    <3> QED BY <2>0, <2>3, <3>1, BooksKept
  <2> QED BY <1>1, <2>1, <2>2, <2>3, MoneyStep
<1>2. CASE UNCHANGED vars
  BY <1>2 DEF vars, Funds, Dirty, BookCash, FundsBooked
<1> QED BY <1>1, <1>2 DEF Next

\* Whenever no change is on its way the account's cash is what the positions table
\* accounts for: every cost was paid once and every close paid its proceeds once.
THEOREM BalancedCorrect == Spec => []Balanced
<1>1. Spec => []FundsBooked
  BY InvCorrect, InitBooked, BookedStep, PTL DEF Spec
<1>2. FundsBooked => Balanced
  BY DEF FundsBooked, Balanced, Funds
<1> QED BY <1>1, <1>2, PTL

-----------------------------------------------------------------------------
(* The account that nothing has tainted stays solvent. *)

\* Neither the committed cash nor the cash that is carried is negative.
Solvent == ~tainted => cash >= 0 /\ Funds >= 0

\* What is committed as the account's cash is what was carried, or what was there.
LEMMA CashWritten ==
  ASSUME LedgerTypeOK, Untainted, NEW s \in Sessions, Step(s)
  PROVE  cash' = cash \/ cash' = Funds
<1>1. CASE MarkCredit(s) \/ UpdateBalances(s)
  <2>1. OneWriter /\ Good(s, ses[s])
    BY DEF Untainted
  <2>2. cash' = cash \/ (cash' = ses[s].avail /\ ses[s].avail # ses[s].seen)
    BY <1>1 DEF MarkCredit, UpdateBalances, WriteCash
  <2>3. ses[s].avail # ses[s].seen => mode[s] = "dirty"
    BY <1>1, <2>1 DEF MarkCredit, UpdateBalances, Good
  <2> QED BY <2>1, <2>2, <2>3, FundsAre
<1>2. CASE UNCHANGED cash
  BY <1>2
<1> QED BY <1>1, <1>2
        DEF Step, BeginMark, SkipMark, Mark, MarkHit, EndMark, BeginClose, Keep, CloseRow,
            BeginExecute, SkipTarget, Decide, Create, Crash

\* Positions are paid for before they are opened and no close costs money.
LEMMA SolventStep ==
  ASSUME NoDebt
  PROVE  Inv /\ Inv' /\ Solvent /\ [Next]_vars => Solvent'
<1> SUFFICES ASSUME Inv, Inv', Solvent, [Next]_vars, ~tainted'
             PROVE  cash' >= 0 /\ Funds' >= 0
  BY DEF Solvent
<1>0. Untainted'
  BY DEF Inv, Untainted, Good, Phases, Balances, Plans
<1>1. ASSUME NEW s \in Sessions, Step(s)
      PROVE  cash' >= 0 /\ Funds' >= 0
  <2>0. LedgerTypeOK /\ Untainted /\ OneOpenRow /\ cash >= 0 /\ Funds >= 0
    BY <1>1, WasUntainted DEF Solvent
  <2>i. Funds \in Int
    <3>1. cash \in Int /\ \A t \in Dirty : ses[t].avail \in Int
      BY <2>0 DEF LedgerTypeOK, Memory, Dirty
    <3> QED BY <3>1 DEF Funds
  <2>1. cash' >= 0
    BY <1>1, <2>0, CashWritten
  <2>2. ASSUME NEW r \in ses[s].todo, NEW price \in Prices, Closes(s, r, price)
        PROVE  Funds' >= 0
    <3>1. rows[r] \in Row
      BY <2>0, <2>2, ElementOfSeq DEF Closes, LedgerTypeOK
    <3>2. rows[r].side \in Sides /\ rows[r].qty \in Qtys /\ rows[r].entry \in Prices
      BY <3>1 DEF Row
    <3> DEFINE h == HoldingOf(rows[r])
    <3>3. h \in Holdings /\ HoldingOf(h) = HoldingOf(rows[r])
      BY <3>2 DEF HoldingOf, Holdings
    <3>4. NetRecovered(h, ExitPrice(price, h.side)) = Proceeds(r, price)
      BY <3>3, SameHolding DEF Proceeds
    <3> HIDE DEF h
    <3>5. Proceeds(r, price) >= 0
      BY <3>3, <3>4 DEF NoDebt
    <3>6. Proceeds(r, price) \in Int
      <4>1. price \in Int
        BY MarketAssumption
      <4> QED BY <3>2, <4>1, ExecutionType, ProceedsType DEF Proceeds
    <3> QED BY <2>0, <2>2, <2>i, <3>5, <3>6 DEF Closes
  <2>3. CASE Opens(s)
    <3>1. TotalCost(ses[s].pend) \in Int
      BY <2>0, <2>3, CostType DEF Opens, Create, LedgerTypeOK, Orders
    <3> QED BY <2>1, <2>3, <2>i, <3>1 DEF Opens
  <2>4. CASE Quiet(s)
    BY <1>0, <2>0, <2>1, <2>4, QuietStep DEF Quiet
  <2> QED BY <1>1, <2>1, <2>2, <2>3, <2>4, MoneyStep
<1>2. CASE UNCHANGED vars
  BY <1>2 DEF vars, Funds, Dirty, Solvent
<1> QED BY <1>1, <1>2 DEF Next

\* As long as nothing is tainted and no price turns a holding into a debt, the
\* account never goes into the red: neither as committed nor as carried.
THEOREM SolventCorrect ==
  ASSUME NoDebt
  PROVE  Spec => []Solvent
<1>1. Init => Solvent
  BY BrokerAssumption DEF Init, Solvent, Funds, Dirty
<1>2. Inv /\ Inv' /\ Solvent /\ [Next]_vars => Solvent'
  BY SolventStep
<1> QED BY InvCorrect, <1>1, <1>2, PTL DEF Spec

-----------------------------------------------------------------------------
(* A market that does not move earns nothing. *)

\* What is rounded down to a tick is not negative if it was not.
LEMMA RoundedDown ==
  ASSUME NEW n \in Nat, NEW rate \in Nat, NEW d \in Nat \ {0}
  PROVE  (n * rate) \div d \in Nat
<1>1. n * rate \in Nat
  OBVIOUS
<1> QED BY <1>1

\* A price is left at least where it is by the slippage of a buy, and not below zero by
\* that of a sale.
LEMMA SlippageOf ==
  ASSUME NEW p \in Nat
  PROVE  Slippage(p) \in Nat /\ Slippage(p) <= p
<1>1. Slippage(p) \in Nat
  BY RatesAssumption, RoundedDown DEF Slippage
<1>2. Slippage(p) <= p
  <2> DEFINE n == SlipNum
             d == SlipDen
             s == (p * n) \div d
  <2>1. n \in Nat /\ d \in Nat \ {0} /\ n < d
    BY RatesAssumption
  <2> HIDE DEF n, d
  <2>2. p * n <= p * d
    BY <2>1
  <2>3. s * d <= p * n /\ s \in Nat
    BY <2>1
  <2> HIDE DEF s
  <2>4. s * d <= p * d
    BY <2>1, <2>2, <2>3
  <2>5. s <= p
    BY <2>1, <2>3, <2>4
  <2> QED BY <2>5 DEF s, n, d, Slippage
<1> QED BY <1>1, <1>2

\* A position that is closed at the market price it was opened at brings back no more than
\* it has cost: slippage and fees are against it both times, on either side.
LEMMA RoundTrip ==
  ASSUME NEW h, h.side \in Sides, h.qty \in Qtys, h.entry \in Prices
  PROVE  NetRecovered(h, ExitPrice(h.entry, h.side)) <= TotalCost(h)
<1> DEFINE q == h.qty
           p == h.entry
           slip == Slippage(p)
           exit == ExitPrice(p, h.side)
           entry == ExecutionPrice(p, h.side)
<1>1. q \in Nat /\ p \in Nat
  BY MarketAssumption
<1>2. slip \in Nat /\ slip <= p
  BY <1>1, SlippageOf
<1>3. h.side = "LONG" \/ h.side = "SHORT"
  BY DEF Sides
<1>4. /\ h.side = "LONG" => entry = p + slip /\ exit = p - slip
      /\ h.side = "SHORT" => entry = p - slip /\ exit = p + slip
  <2> HIDE DEF q, p
  <2>1. slip \in Int /\ p \in Int
    BY <1>1, <1>2
  <2> QED BY <2>1 DEF ExecutionPrice, ExitPrice, Sign
<1>5. /\ h.side = "LONG" => RawPnl(h, exit) = (exit - p) * q
      /\ h.side = "SHORT" => RawPnl(h, exit) = (p - exit) * q
  <2>1. exit \in Int
    BY <1>1, ExecutionType
  <2> HIDE DEF exit
  <2>2. h.entry \in Int /\ h.qty \in Int
    BY <1>1
  <2> QED BY <2>1, <2>2 DEF RawPnl, Sign
<1>6. entry \in Nat /\ exit \in Nat
  <2> HIDE DEF entry, exit, slip, p
  <2> QED BY <1>1, <1>2, <1>3, <1>4
<1>7. Fee(q * exit) \in Nat /\ Fee(q * entry) \in Nat
  <2> HIDE DEF entry, exit, q
  <2>1. q * exit \in Nat /\ q * entry \in Nat
    BY <1>1, <1>6
  <2> QED BY <2>1, RatesAssumption, RoundedDown DEF Fee
<1>8. NetRecovered(h, exit) = q * p + RawPnl(h, exit) - Fee(q * exit)
  BY DEF NetRecovered
<1>9. TotalCost(h) = q * entry + Fee(q * entry)
  BY DEF TotalCost, Notional
<1> HIDE DEF q, p, slip, exit, entry
<1>10. q * p + RawPnl(h, exit) <= q * entry
  <2>1. CASE h.side = "LONG"
    <3>1. q * p + RawPnl(h, exit) = q * exit /\ exit <= entry
      BY <1>1, <1>2, <1>4, <1>5, <1>6, <2>1
    <3>2. q * exit <= q * entry
      BY <1>1, <1>6, <3>1
    <3> QED BY <3>1, <3>2
  <2>2. CASE h.side = "SHORT"
    <3>1. p - exit = 0 - slip /\ entry = p - slip
      BY <1>1, <1>2, <1>4, <2>2
    <3>2. RawPnl(h, exit) = (0 - slip) * q
      BY <1>5, <2>2, <3>1
    <3> QED BY <1>1, <1>2, <3>1, <3>2
  <2> QED BY <1>3, <2>1, <2>2
<1>11. RawPnl(h, exit) \in Int /\ q * p \in Int /\ q * entry \in Int
  <2>1. exit \in Int
    BY <1>6
  <2> QED BY <1>1, <1>6, <2>1, PnlType
<1>12. NetRecovered(h, exit) <= TotalCost(h)
  <2> DEFINE back == q * p
             paid == q * entry
             pnl == RawPnl(h, exit)
             feeOut == Fee(q * exit)
             feeIn == Fee(q * entry)
  <2>1. /\ back \in Int /\ paid \in Int /\ pnl \in Int /\ feeOut \in Nat /\ feeIn \in Nat
        /\ back + pnl <= paid
    BY <1>7, <1>10, <1>11
  <2> HIDE DEF back, paid, pnl, feeOut, feeIn
  <2>2. back + pnl - feeOut <= paid + feeIn
    BY <2>1
  <2> QED BY <1>8, <1>9, <2>2 DEF back, paid, pnl, feeOut, feeIn
<1> QED BY <1>12 DEF exit, p

\* No row has brought in more than it has cost.
NoneGains == ~tainted => \A r \in DOMAIN rows : Flow(rows[r]) <= 0

\* The account has no more than it began with, as committed and as carried.
NothingGained == ~tainted => cash <= InitCash /\ Funds <= InitCash

\* At a price that does not move every close brings back no more than its row has cost.
LEMMA NoneGainsStep ==
  ASSUME NEW calm, Prices = {calm}
  PROVE  Inv /\ Inv' /\ NoneGains /\ [Next]_vars => NoneGains'
<1> SUFFICES ASSUME Inv, Inv', NoneGains, [Next]_vars, ~tainted'
             PROVE  \A i \in DOMAIN rows' : Flow(rows'[i]) <= 0
  BY DEF NoneGains
<1>1. ASSUME NEW s \in Sessions, Step(s)
      PROVE  \A i \in DOMAIN rows' : Flow(rows'[i]) <= 0
  <2>0. LedgerTypeOK /\ LedgerTypeOK' /\ Untainted /\ \A i \in DOMAIN rows : Flow(rows[i]) <= 0
    BY <1>1, WasUntainted DEF NoneGains, Inv
  <2>t. rows \in Seq(Row)
    BY <2>0 DEF LedgerTypeOK
  <2>1. ASSUME NEW r \in ses[s].todo, NEW price \in Prices, Closes(s, r, price)
        PROVE  \A i \in DOMAIN rows' : Flow(rows'[i]) <= 0
    <3>1. r \in DOMAIN rows /\ rows[r].status = "OPEN" /\ price \in Int
      BY <2>0, <2>1, MarketAssumption DEF Closes, Untainted, Good, OpenRows
    <3>2. rows[r] \in Row
      BY <2>t, <3>1, ElementOfSeq
    <3>3. rows[r].side \in Sides /\ rows[r].qty \in Qtys /\ rows[r].entry \in Prices
      BY <3>2 DEF Row
    <3>4. ClosedAt(rows[r], price) \in Row
      BY <3>1, <3>2, ClosedRow
    <3>5. /\ DOMAIN rows' = DOMAIN rows
          /\ rows'[r] = ClosedAt(rows[r], price)
          /\ \A i \in DOMAIN rows \ {r} : rows'[i] = rows[i]
      BY <2>1, <2>t, <3>1, <3>4, ReplacedRow DEF Closes
    <3>6. Flow(rows'[r]) = Flow(rows[r]) + NetRecovered(rows[r], ExitPrice(price, rows[r].side))
      BY <3>1, <3>2, <3>5, ClosedFlow
    <3>7. Flow(rows[r]) = 0 - TotalCost(rows[r])
      BY <3>1 DEF Flow
    <3>8. NetRecovered(rows[r], ExitPrice(price, rows[r].side)) <= TotalCost(rows[r])
      <4>1. price = rows[r].entry
        BY <3>3
      <4> QED BY <3>3, <4>1, RoundTrip
    <3>9. /\ TotalCost(rows[r]) \in Int
          /\ NetRecovered(rows[r], ExitPrice(price, rows[r].side)) \in Int
      BY <3>1, <3>3, CostType, ExecutionType, ProceedsType
    <3>10. Flow(rows'[r]) <= 0
      BY <3>6, <3>7, <3>8, <3>9
    <3> QED BY <2>0, <3>5, <3>10
  <2>2. CASE Opens(s)
    <3> DEFINE order == ses[s].pend
               row == [sym |-> order.sym, side |-> order.side, qty |-> order.qty,
                       entry |-> order.entry, cur |-> order.entry, realized |-> 0,
                       status |-> "OPEN"]
    <3>1. rows' = Append(rows, row) /\ order \in Orders
      BY <2>0, <2>2 DEF Opens, Create, LedgerTypeOK
    <3>2. Flow(row) = 0 - TotalCost(row)
      BY DEF Flow
    <3>3. row.side \in Sides /\ row.qty \in Qtys /\ row.entry \in Prices
      BY <3>1 DEF Orders
    <3> HIDE DEF row
    <3>4. TotalCost(row) \in Nat
      <4>1. Notional(row) \in Nat
        <5>1. row.qty \in Nat /\ row.entry \in Nat
          BY <3>3, MarketAssumption
        <5>2. ExecutionPrice(row.entry, row.side) \in Nat
          <6>1. Slippage(row.entry) \in Nat /\ Slippage(row.entry) <= row.entry
            BY <5>1, SlippageOf
          <6> QED BY <3>3, <5>1, <6>1 DEF ExecutionPrice, Sign, Sides
        <5> QED BY <5>1, <5>2 DEF Notional
      <4>2. Fee(Notional(row)) \in Nat
        BY <4>1, RatesAssumption, RoundedDown DEF Fee
      <4> QED BY <4>1, <4>2 DEF TotalCost
    <3>5. \A i \in DOMAIN rows' : (i \in DOMAIN rows /\ rows'[i] = rows[i]) \/ rows'[i] = row
      BY <2>t, <3>1
    <3>6. Flow(row) <= 0
      BY <3>2, <3>4
    <3> QED BY <2>0, <3>5, <3>6
  <2>3. CASE Quiet(s)
    BY <2>0, <2>3, FlowsKept
  <2> QED BY <1>1, <2>1, <2>2, <2>3, MoneyStep
<1>2. CASE UNCHANGED vars
  BY <1>2 DEF vars, NoneGains
<1> QED BY <1>1, <1>2 DEF Next

\* If no row gains, neither does the table.
LEMMA BooksGainNothing ==
  ASSUME LedgerTypeOK, \A r \in DOMAIN rows : Flow(rows[r]) <= 0
  PROVE  BookCash <= InitCash
<1> DEFINE places == DOMAIN rows
           flows == [r \in DOMAIN rows |-> Flow(rows[r])]
           none == [r \in places |-> 0]
<1>1. flows \in [places -> Int] /\ IsFiniteSet(places)
  <2>1. rows \in Seq(Row)
    BY DEF LedgerTypeOK
  <2> QED BY <2>1, FlowsType
<1>2. none \in [places -> Int]
  OBVIOUS
<1>3. \A r \in places : flows[r] * 1 <= none[r] * 0
  <2>1. \A r \in places : flows[r] <= 0 /\ flows[r] \in Int /\ none[r] = 0
    BY <1>1
  <2> HIDE DEF flows, none, places
  <2> QED BY <2>1
<1>4. BookCash = InitCash + SumFunction(flows)
  BY DEF BookCash
<1> HIDE DEF flows, none, places
<1>5. SumFunction(flows) * 1 <= SumFunction(none) * 0
  <2>1. 0 \in Nat /\ 1 \in Nat
    OBVIOUS
  <2> QED BY ONLY <1>1, <1>2, <1>3, <2>1, SumScaled
<1>6. SumFunction(flows) \in Int /\ SumFunction(none) \in Int
  BY <1>1, <1>2, SumAll
<1> QED BY <1>4, <1>5, <1>6, BrokerAssumption

\* In a market that does not move the paper account earns nothing: whatever is opened,
\* marked and closed in whatever order, as long as nothing is tainted there is never more
\* cash than in the beginning (a close that is paid twice is the way to more).
THEOREM CalmMarketCorrect ==
  ASSUME NEW calm, Prices = {calm}
  PROVE  Spec => []NothingGained
<1>1. Spec => []FundsBooked
  BY InvCorrect, InitBooked, BookedStep, PTL DEF Spec
<1>2. Init => NoneGains /\ cash <= InitCash
  BY BrokerAssumption DEF Init, NoneGains
<1>3. Inv /\ Inv' /\ NoneGains /\ [Next]_vars => NoneGains'
  BY NoneGainsStep
<1>4. Inv /\ FundsBooked /\ NoneGains => (~tainted => Funds <= InitCash)
  BY BooksGainNothing DEF Inv, FundsBooked, NoneGains
<1>5. /\ Inv /\ (~tainted => Funds <= InitCash) /\ (~tainted => cash <= InitCash)
      /\ [Next]_vars
      => (~tainted => cash <= InitCash)'
  <2> SUFFICES ASSUME Inv, ~tainted => Funds <= InitCash, ~tainted => cash <= InitCash,
                      [Next]_vars, ~tainted'
               PROVE  cash' <= InitCash
    BY BrokerAssumption
  <2>1. ASSUME NEW s \in Sessions, Step(s)
        PROVE  cash' <= InitCash
    <3>1. LedgerTypeOK /\ ~tainted /\ Untainted
      BY <2>1, WasUntainted
    <3> QED BY <2>1, <3>1, CashWritten
  <2>2. CASE UNCHANGED vars
    BY <2>2 DEF vars
  <2> QED BY <2>1, <2>2 DEF Next
<1>6. (~tainted => Funds <= InitCash) /\ (~tainted => cash <= InitCash) => NothingGained
  BY DEF NothingGained
<1> QED BY InvCorrect, <1>1, <1>2, <1>3, <1>4, <1>5, <1>6, PTL DEF Spec

-----------------------------------------------------------------------------
(* A position is closed for good. *)

\* What a step may do to a row that is in the table.
RowKept(r) ==
  /\ r \in DOMAIN rows'
  /\ HoldingOf(rows'[r]) = HoldingOf(rows[r])
  /\ rows[r].status = "CLOSED" =>
       /\ rows'[r].status = "CLOSED"
       /\ ~tainted' => rows'[r].realized = rows[r].realized

\* Closing a listed row that another session has closed meanwhile taints.
LEMMA ClosingKeepsRows ==
  ASSUME Inv, NEW s \in Sessions, NEW listed \in ses[s].todo, NEW price \in Int,
         rows' = [rows EXCEPT ![listed] = ClosedAt(rows[listed], price)],
         Step(s), Commits(s)
  PROVE  \A r \in DOMAIN rows : RowKept(r)
<1>0. rows \in Seq(Row) /\ listed \in DOMAIN rows
  BY DEF Inv, LedgerTypeOK
<1>1. rows[listed] \in Row
  BY <1>0, ElementOfSeq
<1>2. /\ ClosedAt(rows[listed], price) \in Row
      /\ ClosedAt(rows[listed], price).status = "CLOSED"
      /\ HoldingOf(ClosedAt(rows[listed], price)) = HoldingOf(rows[listed])
  BY <1>1, ClosedRow
<1>3. /\ DOMAIN rows' = DOMAIN rows
      /\ rows'[listed] = ClosedAt(rows[listed], price)
      /\ \A i \in DOMAIN rows \ {listed} : rows'[i] = rows[i]
  BY <1>0, <1>2, ReplacedRow
<1>4. ~tainted' => rows[listed].status = "OPEN"
  <2> SUFFICES ASSUME ~tainted'
               PROVE  rows[listed].status = "OPEN"
    OBVIOUS
  <2>1. LedgerTypeOK /\ Untainted
    BY WasUntainted
  <2>2. Fresh(s)
    BY <2>1, Writer
  <2> QED BY <2>1, <2>2 DEF Untainted, Good, OpenRows
<1>5. RowKept(listed)
  BY <1>0, <1>2, <1>3, <1>4 DEF RowKept
<1>6. \A i \in DOMAIN rows \ {listed} : RowKept(i)
  BY <1>3 DEF RowKept
<1> QED BY <1>5, <1>6

\* No step reopens a row, changes what it was entered at or, untainted, repays it.
LEMMA RowsKept == Inv /\ [Next]_vars => \A r \in DOMAIN rows : RowKept(r)
<1> SUFFICES ASSUME Inv, [Next]_vars
             PROVE  \A r \in DOMAIN rows : RowKept(r)
  OBVIOUS
<1>0. rows \in Seq(Row) /\ LedgerTypeOK
  BY DEF Inv, LedgerTypeOK
<1>1. ASSUME NEW s \in Sessions, Step(s)
      PROVE  \A r \in DOMAIN rows : RowKept(r)
  <2>1. CASE MarkHit(s)
    <3>1. Min(ses[s].todo) \in ses[s].todo /\ Commits(s)
      BY <1>0, <2>1, NextVisit DEF MarkHit
    <3>2. PICK price \in Prices :
            rows' = [rows EXCEPT ![Min(ses[s].todo)] = ClosedAt(rows[Min(ses[s].todo)], price)]
      BY <2>1 DEF MarkHit
    <3>3. price \in Int
      BY MarketAssumption
    <3> QED BY <1>1, <3>1, <3>2, <3>3, ClosingKeepsRows
  <2>2. CASE CloseRow(s)
    <3>1. /\ Min(ses[s].todo) \in ses[s].todo /\ Commits(s)
          /\ rows[Min(ses[s].todo)] \in Row
      BY <1>0, <2>2, NextVisit DEF CloseRow
    <3>2. PICK price \in Prices \cup {rows[Min(ses[s].todo)].cur} :
            rows' = [rows EXCEPT ![Min(ses[s].todo)] = ClosedAt(rows[Min(ses[s].todo)], price)]
      BY <2>2 DEF CloseRow
    <3>3. price \in Int
      BY <3>1, MarketAssumption DEF Row
    <3> QED BY <1>1, <3>1, <3>2, <3>3, ClosingKeepsRows
  <2>3. CASE Mark(s)
    <3> DEFINE listed == Min(ses[s].todo)
    <3>1. listed \in DOMAIN rows /\ rows[listed] \in Row
      BY <1>0, <2>3, NextVisit DEF Mark
    <3>2. PICK price \in Prices :
            rows' = [rows EXCEPT ![listed] = [rows[listed] EXCEPT !.cur = price]]
      BY <2>3 DEF Mark
    <3> DEFINE row == [rows[listed] EXCEPT !.cur = price]
    <3>3. /\ HoldingOf(row) = HoldingOf(rows[listed])
          /\ row.status = rows[listed].status /\ row.realized = rows[listed].realized
      BY <3>1 DEF Row, HoldingOf
    <3> HIDE DEF listed, row
    <3>4. /\ DOMAIN rows' = DOMAIN rows
          /\ rows'[listed] = row /\ \A i \in DOMAIN rows \ {listed} : rows'[i] = rows[i]
      BY <1>0, <3>1, <3>2 DEF row
    <3> QED BY <3>3, <3>4 DEF RowKept
  <2>4. CASE Create(s)
    <3>1. PICK row : rows' = Append(rows, row)
      BY <2>4 DEF Create
    <3>2. DOMAIN rows \subseteq DOMAIN rows' /\ \A i \in DOMAIN rows : rows'[i] = rows[i]
      BY <1>0, <3>1
    <3> QED BY <3>2 DEF RowKept
  <2>5. CASE UNCHANGED rows
    BY <2>5 DEF RowKept
  <2> QED BY <1>1, <2>1, <2>2, <2>3, <2>4, <2>5
        DEF Step, BeginMark, SkipMark, MarkCredit, EndMark, BeginClose, Keep, BeginExecute,
            SkipTarget, Decide, UpdateBalances, Crash
<1>2. CASE UNCHANGED vars
  BY <1>2 DEF vars, RowKept
<1> QED BY <1>1, <1>2 DEF Next

\* A position is closed for good and pays back once: no operation reopens it or
\* changes what it was entered at, and none closes it a second time unless the
\* account changed under that operation.
THEOREM ClosedOnceCorrect == Spec => ClosedOnce
<1>1. Inv /\ [Next]_vars =>
        [\A r \in DOMAIN rows :
           /\ r \in DOMAIN rows'
           /\ HoldingOf(rows'[r]) = HoldingOf(rows[r])
           /\ rows[r].status = "CLOSED" =>
                /\ rows'[r].status = "CLOSED"
                /\ ~tainted' => rows'[r].realized = rows[r].realized]_vars
  BY RowsKept DEF RowKept
<1>2. Spec => [][\A r \in DOMAIN rows :
           /\ r \in DOMAIN rows'
           /\ HoldingOf(rows'[r]) = HoldingOf(rows[r])
           /\ rows[r].status = "CLOSED" =>
                /\ rows'[r].status = "CLOSED"
                /\ ~tainted' => rows'[r].realized = rows[r].realized]_vars
  BY InvCorrect, <1>1, PTL DEF Spec
<1> QED BY <1>2 DEF ClosedOnce

-----------------------------------------------------------------------------
(* Whatever is tainted, the account is never overdrawn. *)

\* The first close starts from a market price, each later one from a price before it.
LEMMA DriftIs ==
  ASSUME IsFiniteSet(Sessions)
  PROVE  /\ \A side \in Sides : Drift[0][side] = Prices
         /\ \A k \in 1 .. Cardinality(Sessions), side \in Sides :
              Drift[k][side] =
                Drift[k - 1][side] \cup {ExitPrice(price, side) : price \in Drift[k - 1][side]}
<1> DEFINE n == Cardinality(Sessions)
           After(before) ==
             [side \in Sides |-> before[side] \cup {ExitPrice(price, side) : price \in before[side]}]
           Markets == [side \in Sides |-> Prices]
           X == [Sides -> SUBSET Int]
           step == [k \in 1 .. n |-> [before \in X |-> After(before)]]
           Sets(f) == f = [k \in 0 .. n |-> [side \in Sides |->
                             IF k = 0 THEN Prices
                             ELSE f[k - 1][side] \cup
                                    {ExitPrice(price, side) : price \in f[k - 1][side]}]]
<1>1. n \in Nat
  BY FS_CardinalityType
<1> HIDE DEF n
<1>2. Markets \in X
  BY MarketAssumption
<1>3. ASSUME NEW before \in X
      PROVE  After(before) \in X
  <2>1. ASSUME NEW side \in Sides
        PROVE  before[side] \cup {ExitPrice(price, side) : price \in before[side]} \in SUBSET Int
    <3>1. before[side] \in SUBSET Int
      OBVIOUS
    <3>2. \A price \in before[side] : ExitPrice(price, side) \in Int
      BY <3>1, ExecutionType
    <3> QED BY <3>1, <3>2
  <2> QED BY <2>1
<1> HIDE DEF After, Markets
<1>4. step \in [1 .. n -> [X -> X]]
  BY <1>3
<1>5. PICK f \in [0 .. n -> X] : Runs(f, n, Markets, step)
  <2> HIDE DEF step, X
  <2> QED BY <1>1, <1>2, <1>4, LoopRuns
<1>6. Sets(f)
  <2>1. f = [k \in 0 .. n |-> IF k = 0 THEN Markets ELSE step[k][f[k - 1]]]
    BY <1>5 DEF Runs
  <2>2. ASSUME NEW k \in 0 .. n
        PROVE  f[k] = [side \in Sides |->
                         IF k = 0 THEN Prices
                         ELSE f[k - 1][side] \cup
                                {ExitPrice(price, side) : price \in f[k - 1][side]}]
    <3>1. CASE k = 0
      <4>1. f[k] = Markets
        BY <2>1, <3>1
      <4> QED BY <3>1, <4>1 DEF Markets
    <3>2. CASE k # 0
      <4>1. k \in 1 .. n /\ k - 1 \in 0 .. n
        BY <1>1, <3>2
      <4>2. f[k - 1] \in X
        BY <4>1
      <4>3. step[k][f[k - 1]] = After(f[k - 1])
        BY <4>1, <4>2
      <4> HIDE DEF step, X
      <4>4. f[k] = After(f[k - 1])
        BY <2>1, <3>2, <4>3
      <4> QED BY <3>2, <4>4 DEF After
    <3> QED BY <3>1, <3>2
  <2>3. f = [k \in 0 .. n |-> f[k]]
    BY <2>1
  <2> QED BY <2>2, <2>3
<1>7. Sets(Drift)
  <2>1. Drift = CHOOSE g : Sets(g)
    BY DEF Drift, n
  <2> HIDE DEF Sets
  <2> QED BY <1>6, <2>1
<1>8. ASSUME NEW k \in 0 .. n, NEW side \in Sides
      PROVE  Drift[k][side] =
               IF k = 0 THEN Prices
               ELSE Drift[k - 1][side] \cup {ExitPrice(price, side) : price \in Drift[k - 1][side]}
  <2> DEFINE g == Drift
             marks(j, long) == IF j = 0 THEN Prices
                               ELSE g[j - 1][long]
                                      \cup {ExitPrice(price, long) : price \in g[j - 1][long]}
  <2>1. g = [j \in 0 .. n |-> [long \in Sides |-> marks(j, long)]]
    BY <1>7
  <2> HIDE DEF g, marks
  <2>2. g[k] = [long \in Sides |-> marks(k, long)]
    BY <2>1
  <2>3. g[k][side] = marks(k, side)
    BY <2>2
  <2> QED BY <2>3 DEF g, marks
<1> HIDE DEF Sets
<1>9. 0 \in 0 .. n /\ \A k \in 1 .. n : k \in 0 .. n /\ k # 0
  BY <1>1
<1> QED BY <1>8, <1>9 DEF n

\* A market price may be the mark of any row.
LEMMA MarketMarks ==
  ASSUME IsFiniteSet(Sessions), NEW side \in Sides, NEW k \in 0 .. Cardinality(Sessions)
  PROVE  Prices \subseteq Drift[k][side]
<1> DEFINE n == Cardinality(Sessions)
           good == {i \in 0 .. n : Prices \subseteq Drift[i][side]}
<1>1. n \in Nat
  BY FS_CardinalityType
<1>2. Drift[0][side] = Prices /\ \A i \in 1 .. n : Drift[i - 1][side] \subseteq Drift[i][side]
  BY DriftIs
<1> HIDE DEF n
<1>3. 0 \in good
  BY <1>1, <1>2
<1>4. \A i \in 1 .. n : i - 1 \in good => i \in good
  BY <1>1, <1>2
<1>5. \A i \in 0 .. n : i \in good
  <2> HIDE DEF good
  <2> QED BY <1>1, <1>3, <1>4, Rounds
<1>6. k \in 0 .. n
  BY DEF n
<1> QED BY <1>5, <1>6

\* Sessions that will not visit r any more, or never meant to.
Unlisted(r) == {s \in Sessions : r \notin ses[s].todo}

\* Each session closes a row at most once after it is closed: then it is not listed again.
MarksKept ==
  \A r \in DOMAIN rows : rows[r].cur \in Drift[Cardinality(Unlisted(r))][rows[r].side]

\* What session s does to the rows and its list: a row gets a market price, or keeps its
\* mark and is listed only if it was, or it leaves the list, closed at a price it has had.
RowMarked(s, r) ==
  \/ rows'[r].cur \in Prices
  \/ /\ r \in DOMAIN rows
     /\ rows'[r].cur = rows[r].cur
     /\ r \in ses'[s].todo => r \in ses[s].todo
  \/ /\ r \in ses[s].todo /\ r \notin ses'[s].todo
     /\ \E price \in Prices \cup {rows[r].cur} : rows'[r].cur = ExitPrice(price, rows[r].side)

\* The next price of a row is one that the sessions that may have closed it account for.
LEMMA DriftStep ==
  ASSUME IsFiniteSet(Sessions), LedgerTypeOK, LedgerTypeOK', MarksKept, NEW s \in Sessions,
         \A t \in Sessions \ {s} : ses'[t] = ses[t],
         NEW r \in DOMAIN rows', RowMarked(s, r),
         r \in DOMAIN rows => rows'[r].side = rows[r].side
  PROVE  rows'[r].cur \in Drift[Cardinality(Unlisted(r)')][rows'[r].side]
<1> DEFINE n == Cardinality(Sessions)
           side == rows'[r].side
           was == Unlisted(r)
           is == Unlisted(r)'
<1>1. n \in Nat /\ is \in SUBSET Sessions /\ was \in SUBSET Sessions
  BY FS_CardinalityType DEF Unlisted
<1>2. IsFiniteSet(is) /\ Cardinality(is) \in 0 .. n /\ IsFiniteSet(was) /\ Cardinality(was) \in 0 .. n
  <2> HIDE DEF is, was
  <2>1. IsFiniteSet(is) /\ IsFiniteSet(was) /\ Cardinality(is) <= n /\ Cardinality(was) <= n
    BY <1>1, FS_Subset
  <2> QED BY <1>1, <2>1, FS_CardinalityType
<1>3. rows'[r] \in Row /\ side \in Sides
  <2>1. rows' \in Seq(Row)
    BY DEF LedgerTypeOK
  <2>2. rows'[r] \in Row
    BY <2>1, ElementOfSeq
  <2> QED BY <2>2 DEF Row
<1>4. CASE rows'[r].cur \in Prices
  BY <1>2, <1>3, <1>4, MarketMarks
<1>5. CASE /\ r \in DOMAIN rows
           /\ rows'[r].cur = rows[r].cur
           /\ r \in ses'[s].todo => r \in ses[s].todo
  <2>1. rows[r].cur \in Drift[Cardinality(was)][side]
    BY <1>5 DEF MarksKept
  <2>2. is = was \/ (is = was \cup {s} /\ s \notin was)
    BY <1>5 DEF Unlisted
  <2>3. Cardinality(is) = Cardinality(was) \/ Cardinality(is) = Cardinality(was) + 1
    <3> HIDE DEF is, was
    <3> QED BY <1>2, <2>2, FS_AddElement
  <2>4. Cardinality(is) = Cardinality(was) + 1 =>
          Drift[Cardinality(was)][side] \subseteq Drift[Cardinality(is)][side]
    <3> SUFFICES ASSUME Cardinality(is) = Cardinality(was) + 1
                 PROVE  Drift[Cardinality(was)][side] \subseteq Drift[Cardinality(is)][side]
      OBVIOUS
    <3> HIDE DEF is, was, side
    <3>1. Cardinality(is) \in 1 .. n /\ Cardinality(is) - 1 = Cardinality(was)
      BY <1>1, <1>2
    <3> QED BY <1>3, <3>1, DriftIs
  <2> HIDE DEF is, was, side
  <2>5. rows'[r].cur \in Drift[Cardinality(is)][side]
    BY <1>5, <2>1, <2>3, <2>4
  <2> QED BY <2>5 DEF is, side
<1>6. CASE /\ r \in ses[s].todo /\ r \notin ses'[s].todo
           /\ \E price \in Prices \cup {rows[r].cur} : rows'[r].cur = ExitPrice(price, rows[r].side)
  <2>0. r \in DOMAIN rows
    BY <1>6 DEF LedgerTypeOK
  <2>1. rows[r].cur \in Drift[Cardinality(was)][side] /\ rows[r].side = side
    BY <2>0 DEF MarksKept
  <2>2. is = was \cup {s} /\ s \notin was
    BY <1>6 DEF Unlisted
  <2> HIDE DEF is, was, side
  <2>3. Cardinality(is) = Cardinality(was) + 1
    BY <1>2, <2>2, FS_AddElement
  <2>4. Cardinality(is) \in 1 .. n /\ Cardinality(is) - 1 = Cardinality(was)
    BY <1>1, <1>2, <2>3
  <2>5. Drift[Cardinality(is)][side] =
          Drift[Cardinality(was)][side]
            \cup {ExitPrice(price, side) : price \in Drift[Cardinality(was)][side]}
    BY <1>3, <2>4, DriftIs
  <2>6. Prices \subseteq Drift[Cardinality(was)][side]
    BY <1>2, <1>3, MarketMarks
  <2>7. PICK price \in Prices \cup {rows[r].cur} : rows'[r].cur = ExitPrice(price, side)
    BY <1>6, <2>1
  <2>8. rows'[r].cur \in Drift[Cardinality(is)][side]
    BY <2>1, <2>5, <2>6, <2>7
  <2> QED BY <2>8 DEF is, side
<1> QED BY <1>4, <1>5, <1>6 DEF RowMarked

\* Every step treats each row in one of these ways and touches one session's memory.
LEMMA RowsMarked ==
  ASSUME Inv, NEW s \in Sessions, Step(s)
  PROVE  /\ \A t \in Sessions \ {s} : ses'[t] = ses[t]
         /\ \A r \in DOMAIN rows' : RowMarked(s, r)
<1>0. /\ LedgerTypeOK /\ rows \in Seq(Row) /\ ses \in [Sessions -> Memory]
      /\ \A r \in OpenRows : rows[r].cur \in Prices
  BY DEF Inv, LedgerTypeOK
<1>1. ASSUME NEW m, Becomes(s, m)
      PROVE  ses'[s] = m /\ \A t \in Sessions \ {s} : ses'[t] = ses[t]
  BY <1>0, <1>1 DEF Becomes
<1>2. \A t \in Sessions \ {s} : ses'[t] = ses[t]
  BY <1>1
     DEF Step, BeginMark, SkipMark, Mark, MarkHit, MarkCredit, EndMark, BeginClose, Keep,
         CloseRow, BeginExecute, SkipTarget, Decide, Create, UpdateBalances, Crash
<1> SUFFICES \A r \in DOMAIN rows' : RowMarked(s, r)
  BY <1>2
<1>todo. ASSUME UNCHANGED rows,
                \A r \in ses'[s].todo : r \in ses[s].todo \/ r \in OpenRows
         PROVE  \A r \in DOMAIN rows' : RowMarked(s, r)
  BY <1>0, <1>todo DEF RowMarked
<1>kept. ASSUME UNCHANGED rows, ses'[s].todo \subseteq ses[s].todo
         PROVE  \A r \in DOMAIN rows' : RowMarked(s, r)
  BY <1>kept DEF RowMarked
<1>replaced. ASSUME NEW listed \in DOMAIN rows, NEW row \in Row,
                    rows' = [rows EXCEPT ![listed] = row], RowMarked(s, listed),
                    ses'[s].todo \subseteq ses[s].todo
             PROVE  \A r \in DOMAIN rows' : RowMarked(s, r)
  <2>1. DOMAIN rows' = DOMAIN rows /\ \A i \in DOMAIN rows \ {listed} : rows'[i] = rows[i]
    BY <1>0, <1>replaced, ReplacedRow
  <2> QED BY <1>replaced, <2>1 DEF RowMarked
<1>3. CASE BeginMark(s) \/ BeginClose(s)
  <2>1. UNCHANGED rows
    BY <1>3 DEF BeginMark, BeginClose
  <2>2. ses'[s].todo = OpenRows
    <3>1. PICK m : Becomes(s, m) /\ m.todo = OpenRows
      <4>1. CASE BeginMark(s)
        <5> DEFINE m == [ses[s] EXCEPT !.op = "mark", !.todo = OpenRows, !.seen = cash]
        <5>1. m.todo = OpenRows
          BY <1>0 DEF Memory
        <5> QED BY <4>1, <5>1 DEF BeginMark
      <4>2. CASE BeginClose(s)
        <5>1. PICK target \in Targets :
                Becomes(s, [ses[s] EXCEPT !.op = "close", !.want = target, !.todo = OpenRows,
                                          !.avail = cash, !.seen = cash])
          BY <4>2 DEF BeginClose
        <5> DEFINE m == [ses[s] EXCEPT !.op = "close", !.want = target, !.todo = OpenRows,
                                       !.avail = cash, !.seen = cash]
        <5>2. m.todo = OpenRows
          BY <1>0 DEF Memory
        <5> QED BY <5>1, <5>2
      <4> QED BY <1>3, <4>1, <4>2
    <3> QED BY <1>1, <3>1
  <2> QED BY <1>todo, <2>1, <2>2
<1>4. CASE SkipMark(s) \/ Keep(s)
  <2>1. ses'[s] = [ses[s] EXCEPT !.todo = @ \ {Min(@)}] /\ UNCHANGED rows
    BY <1>1, <1>4 DEF SkipMark, Keep
  <2>2. ses'[s].todo = ses[s].todo \ {Min(ses[s].todo)}
    BY <1>0, <2>1 DEF Memory
  <2> QED BY <1>kept, <2>1, <2>2
<1>5. CASE Mark(s)
  <2> DEFINE r == Min(ses[s].todo)
  <2>1. r \in DOMAIN rows /\ rows[r] \in Row
    BY <1>0, <1>5, NextVisit DEF Mark
  <2>2. PICK price \in Prices : rows' = [rows EXCEPT ![r] = [rows[r] EXCEPT !.cur = price]]
    BY <1>5 DEF Mark
  <2> DEFINE row == [rows[r] EXCEPT !.cur = price]
  <2>3. row \in Row /\ row.cur = price
    BY <2>1, MarketAssumption DEF Row
  <2>4. ses'[s] = [ses[s] EXCEPT !.todo = @ \ {Min(@)}, !.seen = cash]
    BY <1>1, <1>5 DEF Mark
  <2>5. ses'[s].todo = ses[s].todo \ {r}
    BY <1>0, <2>4 DEF Memory
  <2> HIDE DEF r, row
  <2>6. rows'[r] = row
    BY <1>0, <2>1, <2>2, <2>3, ReplacedRow DEF row
  <2>7. RowMarked(s, r)
    BY <2>3, <2>6 DEF RowMarked
  <2> QED BY <1>replaced, <2>1, <2>2, <2>3, <2>5, <2>7 DEF row
<1>6. ASSUME NEW r \in ses[s].todo, NEW price \in Prices \cup {rows[r].cur},
             rows' = [rows EXCEPT ![r] = ClosedAt(rows[r], price)],
             ses'[s].todo = ses[s].todo \ {r}
      PROVE  \A i \in DOMAIN rows' : RowMarked(s, i)
  <2>1. r \in DOMAIN rows /\ rows[r] \in Row
    BY <1>0, ElementOfSeq DEF LedgerTypeOK
  <2>2. price \in Int
    BY <2>1, MarketAssumption DEF Row
  <2>3. ClosedAt(rows[r], price) \in Row
    BY <2>1, <2>2, ClosedRow
  <2>4. ClosedAt(rows[r], price).cur = ExitPrice(price, rows[r].side)
    BY <2>1 DEF ClosedAt, Row
  <2>5. rows'[r] = ClosedAt(rows[r], price)
    BY <1>0, <1>6, <2>1, <2>3, ReplacedRow
  <2>6. RowMarked(s, r)
    BY <1>6, <2>4, <2>5 DEF RowMarked
  <2> QED BY <1>6, <1>replaced, <2>1, <2>3, <2>6
<1>7. CASE MarkHit(s) \/ CloseRow(s)
  <2> DEFINE r == Min(ses[s].todo)
  <2>1. r \in ses[s].todo
    BY <1>0, <1>7, NextVisit DEF MarkHit, CloseRow
  <2>2. PICK price \in Prices \cup {rows[r].cur} : rows' = [rows EXCEPT ![r] = ClosedAt(rows[r], price)]
    BY <1>7 DEF MarkHit, CloseRow
  <2>3. ses'[s].todo = ses[s].todo \ {r}
    <3>1. CASE MarkHit(s)
      <4>1. PICK cost \in Prices :
              Becomes(s, [ses[s] EXCEPT !.op = "credit", !.todo = @ \ {r}, !.seen = cash,
                                        !.avail = cash + Proceeds(r, cost)])
        BY <3>1 DEF MarkHit
      <4> DEFINE m == [ses[s] EXCEPT !.op = "credit", !.todo = @ \ {r}, !.seen = cash,
                                     !.avail = cash + Proceeds(r, cost)]
      <4>2. m.todo = ses[s].todo \ {r}
        BY <1>0 DEF Memory
      <4>3. ses'[s] = m
        BY <1>1, <4>1
      <4> HIDE DEF m
      <4> QED BY <4>2, <4>3
    <3>2. CASE CloseRow(s)
      <4>1. PICK cost \in Prices \cup {rows[r].cur} :
              Becomes(s, [ses[s] EXCEPT !.todo = @ \ {r}, !.seen = cash,
                                        !.avail = @ + Proceeds(r, cost)])
        BY <3>2 DEF CloseRow
      <4> DEFINE m == [ses[s] EXCEPT !.todo = @ \ {r}, !.seen = cash,
                                     !.avail = @ + Proceeds(r, cost)]
      <4>2. m.todo = ses[s].todo \ {r}
        BY <1>0 DEF Memory
      <4>3. ses'[s] = m
        BY <1>1, <4>1
      <4> HIDE DEF m
      <4> QED BY <4>2, <4>3
    <3> QED BY <1>7, <3>1, <3>2
  <2> QED BY <1>6, <2>1, <2>2, <2>3
<1>8. CASE Create(s)
  <2> DEFINE order == ses[s].pend
             row == [sym |-> order.sym, side |-> order.side, qty |-> order.qty,
                     entry |-> order.entry, cur |-> order.entry, realized |-> 0,
                     status |-> "OPEN"]
  <2>1. rows' = Append(rows, row) /\ row.cur \in Prices
    BY <1>0, <1>8 DEF Create, LedgerTypeOK, Orders
  <2>2. ses'[s] = [ses[s] EXCEPT !.op = "execute", !.pend = NoHolding, !.seen = cash,
                                 !.avail = @ - TotalCost(order)]
    BY <1>1, <1>8 DEF Create
  <2>3. ses'[s].todo = ses[s].todo
    BY <1>0, <2>2 DEF Memory
  <2> HIDE DEF row
  <2>4. \A i \in DOMAIN rows' : (i \in DOMAIN rows /\ rows'[i] = rows[i]) \/ rows'[i] = row
    BY <1>0, <2>1
  <2> QED BY <2>1, <2>3, <2>4 DEF RowMarked
<1>9. CASE MarkCredit(s) \/ BeginExecute(s) \/ SkipTarget(s) \/ Decide(s)
  <2>1. UNCHANGED rows
    BY <1>9 DEF MarkCredit, BeginExecute, SkipTarget, Decide
  <2>2. ses'[s].todo = ses[s].todo
    <3>1. CASE MarkCredit(s)
      <4> DEFINE m == [ses[s] EXCEPT !.op = "mark", !.avail = 0, !.seen = cash']
      <4>1. m.todo = ses[s].todo
        BY <1>0 DEF Memory
      <4>2. ses'[s] = m
        BY <1>1, <3>1 DEF MarkCredit
      <4> HIDE DEF m
      <4> QED BY <4>1, <4>2
    <3>2. CASE BeginExecute(s)
      <4>1. PICK target \in Targets :
              Becomes(s, [ses[s] EXCEPT !.op = "execute", !.want = target,
                                        !.avail = cash, !.seen = cash])
        BY <3>2 DEF BeginExecute
      <4> DEFINE m == [ses[s] EXCEPT !.op = "execute", !.want = target,
                                     !.avail = cash, !.seen = cash]
      <4>2. m.todo = ses[s].todo
        BY <1>0 DEF Memory
      <4>3. ses'[s] = m
        BY <1>1, <4>1
      <4> HIDE DEF m
      <4> QED BY <4>2, <4>3
    <3>3. CASE SkipTarget(s)
      BY <1>0, <1>1, <3>3 DEF SkipTarget, Memory
    <3>4. CASE Decide(s)
      <4>1. PICK order, sym :
              Becomes(s, [ses[s] EXCEPT !.op = "create", !.pend = order,
                                        !.want = [@ EXCEPT ![sym] = "FLAT"]])
        BY <3>4 DEF Decide
      <4> DEFINE m == [ses[s] EXCEPT !.op = "create", !.pend = order,
                                     !.want = [@ EXCEPT ![sym] = "FLAT"]]
      <4>2. m.todo = ses[s].todo
        BY <1>0 DEF Memory
      <4>3. ses'[s] = m
        BY <1>1, <4>1
      <4> HIDE DEF m
      <4> QED BY <4>2, <4>3
    <3> QED BY <1>9, <3>1, <3>2, <3>3, <3>4
  <2> QED BY <1>kept, <2>1, <2>2
<1>10. CASE EndMark(s) \/ UpdateBalances(s) \/ Crash(s)
  <2>1. UNCHANGED rows /\ Becomes(s, Idle)
    BY <1>10 DEF EndMark, UpdateBalances, Crash
  <2>2. ses'[s].todo = {}
    BY <1>1, <2>1 DEF Idle
  <2> QED BY <1>kept, <2>1, <2>2
<1> QED BY <1>3, <1>4, <1>5, <1>7, <1>8, <1>9, <1>10 DEF Step

\* The marks stay within what the sessions account for.
LEMMA MarksStep ==
  ASSUME IsFiniteSet(Sessions), Inv, Inv', MarksKept, NEW s \in Sessions, Step(s)
  PROVE  MarksKept'
<1>1. LedgerTypeOK /\ LedgerTypeOK'
  BY DEF Inv
<1>2. \A r \in DOMAIN rows : rows'[r].side = rows[r].side
  <2>1. \A r \in DOMAIN rows : HoldingOf(rows'[r]) = HoldingOf(rows[r])
    BY RowsKept DEF RowKept, Next
  <2> QED BY <2>1 DEF HoldingOf
<1>3. ASSUME NEW r \in DOMAIN rows'
      PROVE  rows'[r].cur \in Drift[Cardinality(Unlisted(r)')][rows'[r].side]
  BY <1>1, <1>2, RowsMarked, DriftStep
<1>4. \A r \in DOMAIN rows' : Unlisted(r)' = {t \in Sessions : r \notin ses'[t].todo}
  BY DEF Unlisted
<1> QED BY <1>3, <1>4 DEF MarksKept, Unlisted

\* Where no price leaves a debt, a session that closes a row is paid, not charged.
LEMMA NeverCharged ==
  ASSUME IsFiniteSet(Sessions), NoDebtHoweverOften, LedgerTypeOK, MarksKept,
         NEW s \in Sessions, NEW r \in ses[s].todo, NEW price \in Prices \cup {rows[r].cur}
  PROVE  Proceeds(r, price) \in Int /\ Proceeds(r, price) >= 0
<1> DEFINE was == Unlisted(r)
           k == Cardinality(was) + 1
<1>1. r \in DOMAIN rows /\ rows[r] \in Row
  BY ElementOfSeq DEF LedgerTypeOK
<1>2. rows[r].side \in Sides /\ rows[r].qty \in Qtys /\ rows[r].entry \in Prices /\ price \in Int
  BY <1>1, MarketAssumption DEF Row
<1>3. Cardinality(was) \in 0 .. Cardinality(Sessions) /\ k \in 1 .. Cardinality(Sessions)
  <2>1. was \in SUBSET Sessions /\ s \notin was
    BY DEF Unlisted
  <2> HIDE DEF was
  <2>2. was # Sessions /\ IsFiniteSet(was)
    BY <2>1, FS_Subset
  <2>3. Cardinality(was) <= Cardinality(Sessions) /\ Cardinality(Sessions) # Cardinality(was)
    BY <2>1, <2>2, FS_Subset
  <2> QED BY <2>2, <2>3, FS_CardinalityType
<1>4. price \in Drift[k - 1][rows[r].side]
  <2>1. k - 1 = Cardinality(was)
    BY <1>3
  <2>2. Prices \subseteq Drift[Cardinality(was)][rows[r].side]
    BY <1>2, <1>3, MarketMarks
  <2> QED BY <1>1, <2>1, <2>2 DEF MarksKept
<1> DEFINE h == HoldingOf(rows[r])
<1>5. h \in Holdings /\ HoldingOf(h) = HoldingOf(rows[r]) /\ h.side = rows[r].side
  BY <1>2 DEF HoldingOf, Holdings
<1>6. NetRecovered(h, ExitPrice(price, h.side)) = Proceeds(r, price)
  BY <1>5, SameHolding DEF Proceeds
<1>7. Proceeds(r, price) \in Int
  BY <1>2, ExecutionType, ProceedsType DEF Proceeds
<1> HIDE DEF h, k
<1> QED BY <1>3, <1>4, <1>5, <1>6, <1>7 DEF NoDebtHoweverOften

\* Neither the account nor a session's copy of its balance is negative, and an order that
\* is about to be inserted is one the copy pays for.
Paid ==
  /\ cash >= 0
  /\ \A s \in Sessions : /\ ses[s].avail >= 0
                         /\ ses[s].op = "create" => TotalCost(ses[s].pend) <= ses[s].avail

\* Balances are read non-negative, grow with closes and pay for what is opened, and
\* whichever session writes its own over another's writes one of them.
LEMMA PaidStep ==
  ASSUME IsFiniteSet(Sessions), NoDebtHoweverOften, Inv, MarksKept, Paid, NEW s \in Sessions, Step(s)
  PROVE  Paid'
<1>0. /\ LedgerTypeOK /\ ses \in [Sessions -> Memory] /\ cash \in Int /\ cash >= 0
      /\ ses[s] \in Memory /\ ses[s].avail \in Int /\ ses[s].avail >= 0
      /\ ses[s].op = "create" => /\ ses[s].pend \in Orders
                                 /\ TotalCost(ses[s].pend) <= ses[s].avail
  BY DEF Inv, LedgerTypeOK, Memory, Paid
<1> DEFINE Covered(m) ==
             m.avail >= 0 /\ (m.op = "create" => TotalCost(m.pend) <= m.avail)
<1>1. ASSUME NEW m, Becomes(s, m)
      PROVE  ses'[s] = m
  BY <1>0, <1>1 DEF Becomes
<1>2. cash' = cash \/ cash' = ses[s].avail
  BY DEF Step, BeginMark, SkipMark, Mark, MarkHit, MarkCredit, EndMark, BeginClose, Keep,
         CloseRow, BeginExecute, SkipTarget, Decide, Create, UpdateBalances, Crash, WriteCash
<1> SUFFICES Covered(ses'[s])
  BY <1>0, <1>2, RowsMarked DEF Paid
<1> HIDE DEF Covered
<1>same. ASSUME NEW m, m.avail = ses[s].avail, m.op # "create"
         PROVE  Covered(m)
  BY <1>0, <1>same DEF Covered
<1>3. CASE BeginMark(s) \/ SkipMark(s) \/ Mark(s) \/ Keep(s)
  <2>1. PICK m : Becomes(s, m) /\ m.avail = ses[s].avail /\ m.op # "create"
    <3>1. CASE BeginMark(s)
      <4> DEFINE m == [ses[s] EXCEPT !.op = "mark", !.todo = OpenRows, !.seen = cash]
      <4>1. m.avail = ses[s].avail /\ m.op = "mark"
        BY <1>0 DEF Memory
      <4>2. Becomes(s, m)
        BY <3>1 DEF BeginMark
      <4> HIDE DEF m
      <4> QED BY <4>1, <4>2
    <3>2. CASE SkipMark(s) \/ Keep(s)
      <4> DEFINE m == [ses[s] EXCEPT !.todo = @ \ {Min(@)}]
      <4>1. m.avail = ses[s].avail /\ m.op = ses[s].op
        BY <1>0 DEF Memory
      <4>2. Becomes(s, m) /\ ses[s].op # "create"
        BY <3>2 DEF SkipMark, Keep
      <4> HIDE DEF m
      <4> QED BY <4>1, <4>2
    <3>3. CASE Mark(s)
      <4> DEFINE m == [ses[s] EXCEPT !.todo = @ \ {Min(@)}, !.seen = cash]
      <4>1. m.avail = ses[s].avail /\ m.op = ses[s].op
        BY <1>0 DEF Memory
      <4>2. Becomes(s, m) /\ ses[s].op # "create"
        BY <3>3 DEF Mark
      <4> HIDE DEF m
      <4> QED BY <4>1, <4>2
    <3> QED BY <1>3, <3>1, <3>2, <3>3
  <2> QED BY <1>1, <1>same, <2>1
<1>4. CASE MarkHit(s)
  <2> DEFINE r == Min(ses[s].todo)
  <2>1. r \in ses[s].todo
    BY <1>0, <1>4, NextVisit DEF MarkHit
  <2>2. PICK price \in Prices :
          Becomes(s, [ses[s] EXCEPT !.op = "credit", !.todo = @ \ {r}, !.seen = cash,
                                    !.avail = cash + Proceeds(r, price)])
    BY <1>4 DEF MarkHit
  <2> DEFINE avail == cash + Proceeds(r, price)
             m == [ses[s] EXCEPT !.op = "credit", !.todo = @ \ {r}, !.seen = cash, !.avail = avail]
  <2>3. avail >= 0
    <3> HIDE DEF r
    <3>1. Proceeds(r, price) \in Int /\ Proceeds(r, price) >= 0
      BY <1>0, <2>1, NeverCharged
    <3> QED BY <1>0, <3>1
  <2>4. Becomes(s, m)
    BY <2>2
  <2> HIDE DEF avail
  <2>5. m.avail = avail /\ m.op = "credit"
    BY <1>0 DEF Memory
  <2> HIDE DEF m
  <2> QED BY <1>1, <2>3, <2>4, <2>5 DEF Covered
<1>5. CASE CloseRow(s)
  <2> DEFINE r == Min(ses[s].todo)
  <2>1. r \in ses[s].todo /\ ses[s].op = "close"
    BY <1>0, <1>5, NextVisit DEF CloseRow
  <2>2. PICK price \in Prices \cup {rows[r].cur} :
          Becomes(s, [ses[s] EXCEPT !.todo = @ \ {r}, !.seen = cash,
                                    !.avail = @ + Proceeds(r, price)])
    BY <1>5 DEF CloseRow
  <2> DEFINE avail == ses[s].avail + Proceeds(r, price)
             m == [ses[s] EXCEPT !.todo = @ \ {r}, !.seen = cash, !.avail = avail]
  <2>3. avail >= 0
    <3> HIDE DEF r
    <3>1. Proceeds(r, price) \in Int /\ Proceeds(r, price) >= 0
      BY <1>0, <2>1, NeverCharged
    <3> QED BY <1>0, <3>1
  <2>4. Becomes(s, m)
    BY <2>2
  <2> HIDE DEF avail
  <2>5. m.avail = avail /\ m.op = "close"
    BY <1>0, <2>1 DEF Memory
  <2> HIDE DEF m
  <2> QED BY <1>1, <2>3, <2>4, <2>5 DEF Covered
<1>6. CASE BeginClose(s) \/ BeginExecute(s)
  <2>1. PICK m : Becomes(s, m) /\ m.avail = cash /\ m.op \in {"close", "execute"}
    <3>1. CASE BeginClose(s)
      <4>1. PICK target \in Targets :
              Becomes(s, [ses[s] EXCEPT !.op = "close", !.want = target, !.todo = OpenRows,
                                        !.avail = cash, !.seen = cash])
        BY <3>1 DEF BeginClose
      <4> DEFINE m == [ses[s] EXCEPT !.op = "close", !.want = target, !.todo = OpenRows,
                                     !.avail = cash, !.seen = cash]
      <4>2. m.avail = cash /\ m.op = "close"
        BY <1>0 DEF Memory
      <4>3. Becomes(s, m)
        BY <4>1
      <4> HIDE DEF m
      <4> QED BY <4>2, <4>3
    <3>2. CASE BeginExecute(s)
      <4>1. PICK target \in Targets :
              Becomes(s, [ses[s] EXCEPT !.op = "execute", !.want = target,
                                        !.avail = cash, !.seen = cash])
        BY <3>2 DEF BeginExecute
      <4> DEFINE m == [ses[s] EXCEPT !.op = "execute", !.want = target,
                                     !.avail = cash, !.seen = cash]
      <4>2. m.avail = cash /\ m.op = "execute"
        BY <1>0 DEF Memory
      <4>3. Becomes(s, m)
        BY <4>1
      <4> HIDE DEF m
      <4> QED BY <4>2, <4>3
    <3> QED BY <1>6, <3>1, <3>2
  <2>2. ses'[s] = m
    BY <1>1, <2>1
  <2> QED BY <1>0, <2>1, <2>2 DEF Covered
<1>7. CASE SkipTarget(s)
  <2>1. PICK sym : Becomes(s, [ses[s] EXCEPT !.want = [@ EXCEPT ![sym] = "FLAT"]])
    BY <1>7 DEF SkipTarget
  <2> DEFINE m == [ses[s] EXCEPT !.want = [@ EXCEPT ![sym] = "FLAT"]]
  <2>2. m.avail = ses[s].avail /\ m.op = ses[s].op /\ ses[s].op = "execute"
    BY <1>0, <1>7 DEF Memory, SkipTarget
  <2>3. ses'[s] = m
    BY <1>1, <2>1
  <2> HIDE DEF m
  <2> QED BY <1>same, <2>2, <2>3
<1>8. CASE Decide(s)
  <2>1. PICK order, sym :
          /\ Accepts(s, order)
          /\ Becomes(s, [ses[s] EXCEPT !.op = "create", !.pend = order,
                                       !.want = [@ EXCEPT ![sym] = "FLAT"]])
    BY <1>8 DEF Decide
  <2> DEFINE m == [ses[s] EXCEPT !.op = "create", !.pend = order,
                                 !.want = [@ EXCEPT ![sym] = "FLAT"]]
  <2>2. m.avail = ses[s].avail /\ m.pend = order
    BY <1>0 DEF Memory
  <2>3. ses'[s] = m
    BY <1>1, <2>1
  <2>4. TotalCost(order) <= ses[s].avail
    BY <2>1 DEF Accepts
  <2> HIDE DEF m
  <2> QED BY <1>0, <2>2, <2>3, <2>4 DEF Covered
<1>9. CASE Create(s)
  <2> DEFINE order == ses[s].pend
             avail == ses[s].avail - TotalCost(order)
             m == [ses[s] EXCEPT !.op = "execute", !.pend = NoHolding, !.seen = cash,
                                 !.avail = avail]
  <2>1. avail >= 0
    <3>1. order \in Orders /\ TotalCost(order) <= ses[s].avail
      BY <1>0, <1>9 DEF Create
    <3>2. TotalCost(order) \in Int
      BY <3>1, CostType DEF Orders
    <3> HIDE DEF order
    <3> QED BY <1>0, <3>1, <3>2
  <2>2. Becomes(s, m)
    BY <1>9 DEF Create
  <2> HIDE DEF avail
  <2>3. m.avail = avail /\ m.op = "execute"
    BY <1>0 DEF Memory
  <2> HIDE DEF m
  <2> QED BY <1>1, <2>1, <2>2, <2>3 DEF Covered
<1>10. CASE MarkCredit(s)
  <2> DEFINE m == [ses[s] EXCEPT !.op = "mark", !.avail = 0, !.seen = cash']
  <2>1. m.avail = 0 /\ m.op = "mark"
    BY <1>0 DEF Memory
  <2>2. ses'[s] = m
    BY <1>1, <1>10 DEF MarkCredit
  <2> HIDE DEF m
  <2> QED BY <2>1, <2>2 DEF Covered
<1>11. CASE EndMark(s) \/ UpdateBalances(s) \/ Crash(s)
  <2>1. ses'[s] = Idle
    BY <1>1, <1>11 DEF EndMark, UpdateBalances, Crash
  <2> QED BY <2>1 DEF Covered, Idle
<1> QED BY <1>3, <1>4, <1>5, <1>6, <1>7, <1>8, <1>9, <1>10, <1>11 DEF Step

\* Whatever operations overlap, fail or overwrite each other's balances, tainted or not:
\* where neither a market price nor the exit prices of sessions that close the same
\* position one after another turn a holding into a debt, the committed cash is never
\* negative.
THEOREM NoOverdraftCorrect ==
  ASSUME IsFiniteSet(Sessions), NoDebtHoweverOften
  PROVE  Spec => []NoOverdraft
<1>1. Init => MarksKept /\ Paid
  <2> SUFFICES ASSUME Init
               PROVE  MarksKept /\ Paid
    OBVIOUS
  <2>1. DOMAIN rows = {}
    BY DEF Init
  <2>2. \A s \in Sessions : ses[s].avail = 0 /\ ses[s].op = "idle"
    BY DEF Init, Idle
  <2>3. cash >= 0
    BY BrokerAssumption DEF Init
  <2> QED BY <2>1, <2>2, <2>3 DEF MarksKept, Paid
<1>2. Inv /\ Inv' /\ MarksKept /\ Paid /\ [Next]_vars => MarksKept' /\ Paid'
  <2> SUFFICES ASSUME Inv, Inv', MarksKept, Paid, [Next]_vars
               PROVE  MarksKept' /\ Paid'
    OBVIOUS
  <2>1. CASE UNCHANGED vars
    BY <2>1 DEF vars, MarksKept, Unlisted, Paid
  <2>2. CASE Next
    BY <2>2, MarksStep, PaidStep DEF Next
  <2> QED BY <2>1, <2>2
<1>3. Paid => NoOverdraft
  BY DEF Paid, NoOverdraft
<1> QED BY InvCorrect, <1>1, <1>2, <1>3, PTL DEF Spec

-----------------------------------------------------------------------------
(* The rest of the type invariant: the size of the table and the equity. *)

\* Sessions that have decided to insert a row.
Creating == {s \in Sessions : ses[s].op = "create"}

\* Rows there are and rows there will be fit the bound; equities are whole ticks.
Rest ==
  /\ IsFiniteSet(Creating)
  /\ Len(rows) + Cardinality(Creating) <= MaxRows
  /\ equity \in Int
  /\ sizing \in [Sessions -> Int]

\* The open positions are worth a whole number of ticks.
LEMMA OpenValueType ==
  ASSUME NEW table \in Seq(Row)
  PROVE  OpenValue(table) \in Int
<1> DEFINE worth == [r \in DOMAIN table |-> Worth(table[r])]
<1>1. DOMAIN table = 1..Len(table) /\ Len(table) \in Nat
  OBVIOUS
<1>2. ASSUME NEW r \in DOMAIN table
      PROVE  Worth(table[r]) \in Int
  <2> DEFINE row == table[r]
  <2>1. row \in Row
    BY <1>1, ElementOfSeq
  <2>2. row.side \in Sides /\ row.qty \in Qtys /\ row.entry \in Prices /\ row.cur \in Int
    BY <2>1 DEF Row
  <2> HIDE DEF row
  <2>3. RawPnl(row, row.cur) \in Int
    BY <2>2, PnlType
  <2>4. row.qty * row.entry \in Int
    BY <2>2, MarketAssumption
  <2>5. MarkValue(row, row.cur) \in Int
    BY <2>3, <2>4 DEF MarkValue
  <2>6. Worth(row) \in Int
    BY <2>5 DEF Worth
  <2> QED BY <2>6 DEF row
<1>3. worth \in [DOMAIN table -> Int] /\ IsFiniteSet(DOMAIN table)
  BY <1>1, <1>2, FS_Interval
<1>4. OpenValue(table) = SumFunction(worth)
  BY DEF OpenValue
<1> HIDE DEF worth
<1> QED BY <1>3, <1>4, SumAll

\* As long as no row is added and nobody else decides to add one, the table fits.
LEMMA TableFits ==
  ASSUME Rest, Creating' \subseteq Creating, Len(rows') = Len(rows), rows \in Seq(Row)
  PROVE  IsFiniteSet(Creating') /\ Len(rows') + Cardinality(Creating') <= MaxRows
<1>1. IsFiniteSet(Creating') /\ Cardinality(Creating') <= Cardinality(Creating)
  BY FS_Subset DEF Rest
<1>2. Cardinality(Creating') \in Nat /\ Cardinality(Creating) \in Nat
  BY <1>1, FS_CardinalityType DEF Rest
<1>3. Len(rows) \in Nat /\ MaxRows \in Nat
  BY BrokerAssumption
<1> QED BY <1>1, <1>2, <1>3 DEF Rest

\* Only Decide adds to the sessions that are about to insert a row.
LEMMA NobodyElseCreates ==
  ASSUME LedgerTypeOK, NEW s \in Sessions, NEW m, Becomes(s, m), m.op # "create"
  PROVE  Creating' = Creating \ {s}
<1>1. ses'[s] = m /\ \A t \in Sessions \ {s} : ses'[t] = ses[t]
  BY DEF LedgerTypeOK, Becomes
<1> QED BY <1>1 DEF Creating

\* Every step of a session keeps the bound and the types.
LEMMA RestStep == LedgerTypeOK /\ LedgerTypeOK' /\ Rest /\ [Next]_vars => Rest'
<1> SUFFICES ASSUME LedgerTypeOK, LedgerTypeOK', Rest, [Next]_vars
             PROVE  Rest'
  OBVIOUS
<1>0. rows \in Seq(Row) /\ rows' \in Seq(Row) /\ cash \in Int
  BY DEF LedgerTypeOK
<1>1. ASSUME NEW s \in Sessions, Step(s)
      PROVE  Rest'
  <2>m. ses[s] \in Memory /\ ses[s].seen \in Int /\ ses[s].avail \in Int
    BY DEF LedgerTypeOK, Memory
  <2>v. OpenValue(rows) \in Int
    BY <1>0, OpenValueType
  <2>1. equity' \in Int
    <3>1. CASE EndMark(s) \/ UpdateBalances(s)
      BY <2>m, <2>v, <3>1 DEF EndMark, UpdateBalances, UpdateEquity
    <3>2. CASE UNCHANGED equity
      BY <3>2 DEF Rest
    <3> QED BY <1>1, <3>1, <3>2
          DEF Step, BeginMark, SkipMark, Mark, MarkHit, MarkCredit, BeginClose, Keep,
              CloseRow, BeginExecute, SkipTarget, Decide, Create, Crash
  <2>2. sizing' \in [Sessions -> Int]
    <3>1. CASE BeginExecute(s) \/ UpdateBalances(s) \/ Crash(s)
      <4>1. PICK size \in Int : sizing' = [sizing EXCEPT ![s] = size]
        <5>1. CASE BeginExecute(s)
          BY <5>1 DEF Rest, BeginExecute
        <5>2. CASE UpdateBalances(s) \/ Crash(s)
          <6>1. sizing' = [sizing EXCEPT ![s] = 0] /\ 0 \in Int
            BY <5>2 DEF UpdateBalances, Crash
          <6> QED BY <6>1
        <5> QED BY <3>1, <5>1, <5>2
      <4> QED BY <4>1 DEF Rest
    <3>2. CASE UNCHANGED sizing
      BY <3>2 DEF Rest
    <3> QED BY <1>1, <3>1, <3>2
          DEF Step, BeginMark, SkipMark, Mark, MarkHit, MarkCredit, EndMark, BeginClose,
              Keep, CloseRow, SkipTarget, Decide, Create
  <2>3. IsFiniteSet(Creating') /\ Len(rows') + Cardinality(Creating') <= MaxRows
    <3>1. CASE Decide(s)
      <4>1. PICK sym, order :
              Becomes(s, [ses[s] EXCEPT !.op = "create", !.pend = order,
                                        !.want = [@ EXCEPT ![sym] = "FLAT"]])
        BY <3>1 DEF Decide
      <4>2. ses'[s].op = "create" /\ \A t \in Sessions \ {s} : ses'[t] = ses[t]
        BY <2>m, <4>1 DEF LedgerTypeOK, Becomes, Memory
      <4>3. /\ ses[s].op = "execute" /\ UNCHANGED rows
            /\ Len(rows) + Cardinality(Creating) < MaxRows
        BY <3>1 DEF Decide, Creating
      <4>4. Creating' = Creating \cup {s} /\ s \notin Creating
        BY <4>2, <4>3 DEF Creating
      <4>5. IsFiniteSet(Creating') /\ Cardinality(Creating') = Cardinality(Creating) + 1
        BY <4>4, FS_AddElement DEF Rest
      <4>6. Cardinality(Creating) \in Nat /\ Len(rows) \in Nat /\ MaxRows \in Nat
        BY <1>0, FS_CardinalityType, BrokerAssumption DEF Rest
      <4> QED BY <4>3, <4>5, <4>6
    <3>2. CASE Create(s)
      <4>1. PICK row, m : rows' = Append(rows, row) /\ Becomes(s, m) /\ m.op = "execute"
        <5> DEFINE m == [ses[s] EXCEPT !.op = "execute", !.pend = NoHolding, !.seen = cash,
                                       !.avail = @ - TotalCost(ses[s].pend)]
        <5>1. m.op = "execute"
          BY <2>m DEF Memory
        <5> QED BY <3>2, <5>1 DEF Create
      <4>2. Creating' = Creating \ {s} /\ s \in Creating
        BY <3>2, <4>1, NobodyElseCreates DEF Creating, Create
      <4>3. IsFiniteSet(Creating') /\ Cardinality(Creating') = Cardinality(Creating) - 1
        BY <4>2, FS_RemoveElement DEF Rest
      <4>4. Len(rows') = Len(rows) + 1
        BY <1>0, <4>1
      <4>5. Cardinality(Creating) \in Nat /\ Len(rows) \in Nat /\ MaxRows \in Nat
        BY <1>0, FS_CardinalityType, BrokerAssumption DEF Rest
      <4> QED BY <4>3, <4>4, <4>5 DEF Rest
    <3>3. CASE ~Decide(s) /\ ~Create(s)
      <4>1. Len(rows') = Len(rows)
        <5>1. CASE Mark(s) \/ MarkHit(s) \/ CloseRow(s)
          <6>1. PICK r, row : rows' = [rows EXCEPT ![r] = row]
            <7>1. CASE Mark(s)
              BY <7>1 DEF Mark
            <7>2. CASE MarkHit(s)
              BY <7>2 DEF MarkHit
            <7>3. CASE CloseRow(s)
              BY <7>3 DEF CloseRow
            <7> QED BY <5>1, <7>1, <7>2, <7>3
          <6> QED BY <1>0, <6>1
        <5>2. CASE UNCHANGED rows
          BY <5>2
        <5> QED BY <1>1, <3>3, <5>1, <5>2 DEF Step, BeginMark, SkipMark, MarkCredit, EndMark,
              BeginClose, Keep, BeginExecute, SkipTarget, UpdateBalances, Crash
      <4>2. PICK m : Becomes(s, m) /\ m.op # "create"
        <5>1. CASE EndMark(s) \/ UpdateBalances(s) \/ Crash(s)
          <6>1. Idle.op # "create"
            BY DEF Idle
          <6> QED BY <5>1, <6>1 DEF EndMark, UpdateBalances, Crash
        <5>2. CASE BeginMark(s) \/ BeginClose(s) \/ BeginExecute(s)
          <6> DEFINE marking == [ses[s] EXCEPT !.op = "mark", !.todo = OpenRows, !.seen = cash]
                     closing(target) == [ses[s] EXCEPT !.op = "close", !.want = target,
                                           !.todo = OpenRows, !.avail = cash, !.seen = cash]
                     executing(target) == [ses[s] EXCEPT !.op = "execute", !.want = target,
                                             !.avail = cash, !.seen = cash]
          <6>1. /\ marking.op = "mark"
                /\ \A target : closing(target).op = "close" /\ executing(target).op = "execute"
            BY <2>m DEF Memory
          <6>2. CASE BeginMark(s)
            <7>1. Becomes(s, marking)
              BY <6>2 DEF BeginMark
            <7> HIDE DEF marking
            <7> QED BY <6>1, <7>1
          <6>3. CASE BeginClose(s)
            <7>1. PICK target : Becomes(s, closing(target))
              BY <6>3 DEF BeginClose
            <7> HIDE DEF closing
            <7> QED BY <6>1, <7>1
          <6>4. CASE BeginExecute(s)
            <7>1. PICK target : Becomes(s, executing(target))
              BY <6>4 DEF BeginExecute
            <7> HIDE DEF executing
            <7> QED BY <6>1, <7>1
          <6> QED BY <5>2, <6>2, <6>3, <6>4
        <5>3. CASE MarkHit(s) \/ MarkCredit(s)
          <6> DEFINE hit(price) == [ses[s] EXCEPT !.op = "credit",
                                       !.todo = @ \ {Min(ses[s].todo)}, !.seen = cash,
                                       !.avail = cash + Proceeds(Min(ses[s].todo), price)]
                     paid == [ses[s] EXCEPT !.op = "mark", !.avail = 0, !.seen = cash']
          <6>1. (\A price : hit(price).op = "credit") /\ paid.op = "mark"
            BY <2>m DEF Memory
          <6>2. CASE MarkHit(s)
            <7>1. PICK price : Becomes(s, hit(price))
              BY <6>2 DEF MarkHit
            <7> HIDE DEF hit
            <7> QED BY <6>1, <7>1
          <6>3. CASE MarkCredit(s)
            <7>1. Becomes(s, paid)
              BY <6>3 DEF MarkCredit
            <7> HIDE DEF paid
            <7> QED BY <6>1, <7>1
          <6> QED BY <5>3, <6>2, <6>3
        <5>4. CASE SkipMark(s) \/ Mark(s) \/ Keep(s)
          <6> DEFINE passed == [ses[s] EXCEPT !.todo = @ \ {Min(@)}]
                     marked == [ses[s] EXCEPT !.todo = @ \ {Min(@)}, !.seen = cash]
          <6>1. passed.op = ses[s].op /\ marked.op = ses[s].op
            BY <2>m DEF Memory
          <6>2. Becomes(s, passed) \/ Becomes(s, marked)
            BY <5>4 DEF SkipMark, Mark, Keep
          <6>3. ses[s].op # "create"
            BY <5>4 DEF SkipMark, Mark, Keep
          <6> HIDE DEF passed, marked
          <6> QED BY <6>1, <6>2, <6>3
        <5>5. CASE CloseRow(s)
          <6> DEFINE closed(price) == [ses[s] EXCEPT !.todo = @ \ {Min(ses[s].todo)},
                                         !.seen = cash,
                                         !.avail = @ + Proceeds(Min(ses[s].todo), price)]
          <6>1. \A price : closed(price).op = ses[s].op
            BY <2>m DEF Memory
          <6>2. PICK price : Becomes(s, closed(price)) /\ ses[s].op = "close"
            BY <5>5 DEF CloseRow
          <6> HIDE DEF closed
          <6> QED BY <6>1, <6>2
        <5>6. CASE SkipTarget(s)
          <6>1. PICK sym : Becomes(s, [ses[s] EXCEPT !.want = [@ EXCEPT ![sym] = "FLAT"]])
            BY <5>6 DEF SkipTarget
          <6>2. [ses[s] EXCEPT !.want = [@ EXCEPT ![sym] = "FLAT"]].op = "execute"
            BY <2>m, <5>6 DEF SkipTarget, Memory
          <6> QED BY <6>1, <6>2
        <5> QED BY <1>1, <3>3, <5>1, <5>2, <5>3, <5>4, <5>5, <5>6 DEF Step
      <4>3. Creating' \subseteq Creating
        BY <4>2, NobodyElseCreates
      <4> QED BY <1>0, <4>1, <4>3, TableFits
    <3> QED BY <3>1, <3>2, <3>3
  <2> QED BY <2>1, <2>2, <2>3 DEF Rest
<1>2. CASE UNCHANGED vars
  BY <1>2 DEF vars, Rest, Creating
<1> QED BY <1>1, <1>2 DEF Next

\* The bound and the types hold in the beginning.
LEMMA InitRest == Init => Rest
<1> SUFFICES ASSUME Init
             PROVE  Rest
  OBVIOUS
<1>1. Creating = {} /\ Len(rows) = 0 /\ InitCash \in Int /\ MaxRows \in Nat
  BY BrokerAssumption DEF Init, Creating, Idle
<1>2. IsFiniteSet({}) /\ Cardinality({}) = 0
  BY FS_EmptySet
<1> QED BY <1>1, <1>2 DEF Init, Rest

\* Whatever sessions do and wherever they fail, every variable keeps its type: the
\* table never exceeds its bound and an open position carries a market price.
THEOREM TypeCorrect == Spec => []TypeOK
<1>1. Spec => []Rest
  BY LedgerTypeCorrect, InitRest, RestStep, PTL DEF Spec
<1>2. LedgerTypeOK /\ Rest => TypeOK
  <2> SUFFICES ASSUME LedgerTypeOK, Rest
               PROVE  Len(rows) <= MaxRows
    BY DEF TypeOK, Rest
  <2>1. Cardinality(Creating) \in Nat /\ Len(rows) \in Nat /\ MaxRows \in Nat
    BY FS_CardinalityType, BrokerAssumption DEF Rest, LedgerTypeOK
  <2> QED BY <2>1 DEF Rest
<1> QED BY LedgerTypeCorrect, <1>1, <1>2, PTL

-----------------------------------------------------------------------------
(* Operations that run one at a time and to their end. *)

\* The broker begins as the ledger does: the initial balance and no holdings.
LEMMA InitLedger == Init => Ledger!Init
<1> SUFFICES ASSUME Init
             PROVE  Funds = InitCash /\ Held = [sym \in Symbols |-> NoHolding]
  BY DEF Ledger!Init
<1>1. Dirty = {} /\ cash = InitCash
  BY DEF Init, Dirty
<1>2. \A sym : OpenOn(sym) = {}
  BY DEF Init, OpenOn, OpenRows
<1> QED BY <1>1, <1>2 DEF Funds, Held

Alone == ~tainted /\ \A s \in Sessions : mode[s] # "stale"

\* A session that runs alone and does not fail taints nothing.
LEMMA AloneStep ==
  ASSUME \A s, t \in Sessions : s = t, ~MayCrash
  PROVE  Inv /\ Alone /\ [Next]_vars => Alone'
<1> SUFFICES ASSUME Inv, Alone, [Next]_vars
             PROVE  Alone'
  OBVIOUS
<1>1. ASSUME NEW s \in Sessions, Step(s)
      PROVE  Alone'
  <2>1. mode \in [Sessions -> {"clean", "dirty", "stale"}] /\ mode[s] # "stale" /\ ~tainted
    BY DEF Inv, LedgerTypeOK, Alone
  <2>2. CASE UNCHANGED <<mode, tainted>>
    BY <2>2 DEF Alone
  <2>3. CASE Commits(s)
    BY <2>1, <2>3 DEF Commits, Alone
  <2>4. CASE Settles(s) /\ UNCHANGED tainted
    BY <2>1, <2>4 DEF Settles, Alone
  <2> QED BY <1>1, <2>2, <2>3, <2>4
        DEF Step, BeginMark, SkipMark, Mark, MarkHit, MarkCredit, EndMark, BeginClose, Keep,
            CloseRow, BeginExecute, SkipTarget, Decide, Create, UpdateBalances, Crash
<1>2. CASE UNCHANGED vars
  BY <1>2 DEF vars, Alone
<1> QED BY <1>1, <1>2 DEF Next

\* With one session at a time and no failures the broker implements the ledger:
\* no operation order, target, price or fee makes it create, lose or repay money.
THEOREM SerialCorrect ==
  ASSUME \A s, t \in Sessions : s = t, ~MayCrash
  PROVE  Spec => KeepsTheLedger
<1>1. Init => Alone
  BY DEF Init, Alone
<1>2. Inv /\ Alone /\ [Next]_vars => Alone'
  BY AloneStep
<1>3. Alone' => ~tainted'
  BY DEF Alone
<1>4. Spec => Ledger!Init /\ [][Ledger!Next]_(Ledger!ledgerVars)
  BY InitLedger, InvCorrect, LedgerStep, <1>1, <1>2, <1>3, PTL DEF Spec
<1> QED BY <1>4 DEF KeepsTheLedger, Ledger!Spec
===============================================================================
