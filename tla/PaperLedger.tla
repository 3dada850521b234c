----------------------------- MODULE PaperLedger -----------------------------
(***************************************************************************)
(* What a paper account promises, without sessions, commits or loops: one  *)
(* pot of money and at most one holding per symbol.  A holding takes its   *)
(* total cost out of the pot exactly when it appears, only if the pot can  *)
(* pay, and returns its proceeds exactly when it disappears, once.         *)
(* PaperBroker is the program; it is shown to keep this promise as long as *)
(* no operation works on an account that another one has changed under it. *)
(***************************************************************************)
EXTENDS PaperMath

CONSTANTS
  Symbols,
  InitCash,   \* initial_balance of the account
  NoHolding   \* the value of a symbol without an open position

VARIABLES
  funds,   \* the cash the account really has
  held     \* the holding of every symbol, or NoHolding

ledgerVars == <<funds, held>>

Init ==
  /\ funds = InitCash
  /\ held = [sym \in Symbols |-> NoHolding]

Open(sym) ==
  \E h \in Holdings :
    /\ held[sym] = NoHolding
    /\ TotalCost(h) <= funds
    /\ funds' = funds - TotalCost(h)
    /\ held' = [held EXCEPT ![sym] = h]

Close(sym) ==
  \E price \in Prices :
    /\ held[sym] # NoHolding
    /\ funds' = funds + NetRecovered(held[sym], ExitPrice(price, held[sym].side))
    /\ held' = [held EXCEPT ![sym] = NoHolding]

Next == \E sym \in Symbols : Open(sym) \/ Close(sym)

Spec == Init /\ [][Next]_ledgerVars
==============================================================================
