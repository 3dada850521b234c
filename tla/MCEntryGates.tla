---------------------------- MODULE MCEntryGates ----------------------------
(* Instances of EntryGates for TLC. *)
EXTENDS EntryGates

\* The snapshots around every threshold of the strategies, and one of the warm-up.
MCSnapshots ==
  [known : {TRUE}, history : {1, 5},
   close : {960, 990, 1004, 1020, 1035}, ema50 : {970, 1000, 1030},
   adx : {20, 30}, rsi : {20, 38, 52, 77, 90}, stoch : {10, 90}, rvol : {8, 20},
   hist : {-4, 4}, roc : {-5, 5}, score : {30, 60}, flow : {"none"}, atr : {10},
   lower : {990}, upper : {1030},
   before : [close : {-1, 1}, hist : {-5, 0, 5}, spread : {0}, rsi : {30}]]
  \cup
  [known : BOOLEAN, history : {5}, close : {990, 1010}, ema50 : {970, 1000, 1030},
   adx : {30}, rsi : {20, 38, 70, 77}, stoch : {10, 90}, rvol : {8}, hist : {-4, 4},
   roc : {-5, 5}, score : {30, 60}, flow : {"none", "buy", "sell"}, atr : {10, 90},
   lower : {700, 980, 995}, upper : {1000, 1040},
   before : [close : {-1}, hist : {0}, spread : {-1, 1}, rsi : {15, 60}]]
=============================================================================
