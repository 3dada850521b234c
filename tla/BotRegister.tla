----------------------------- MODULE BotRegister -----------------------------
(***************************************************************************)
(* What the scheduler promises about polling bots, without files, streams, *)
(* cycles and the event-driven bots beside them: a bot that is started is  *)
(* registered, one that is stopped is not, and whenever the program comes  *)
(* up those that are registered run, as they were started. A bot that runs *)
(* can be changed; what it is changed to lasts until the program goes      *)
(* down. BotScheduler is the program; it is shown to keep this promise     *)
(* unless writing or starting fails.                                       *)
(***************************************************************************)
EXTENDS Functions

CONSTANTS
  Bots,
  Asked   \* Asked[bot]: what users ask of a bot, with its symbols and risk

VARIABLES
  saved,    \* the registered bots, and what they were started with
  polling,  \* the bots that run, and what they run with
  up        \* bots that are started begin to run

registerVars == <<saved, polling, up>>

Nobody == [bot \in {} |-> {}]

Put(table, bot, params) ==
  [b \in DOMAIN table \cup {bot} |-> IF b = bot THEN params ELSE table[b]]

Drop(table, bot) == Restrict(table, DOMAIN table \ {bot})

Init ==
  /\ saved = Nobody
  /\ polling = Nobody
  /\ up = TRUE

Start(bot) ==
  /\ bot \notin DOMAIN polling
  /\ \E params \in Asked[bot] :
       /\ saved' = Put(saved, bot, params)
       /\ polling' = IF up THEN Put(polling, bot, params) ELSE polling
  /\ UNCHANGED up

Stop(bot) ==
  /\ saved' = Drop(saved, bot)
  /\ polling' = Drop(polling, bot)
  /\ UNCHANGED up

Change(bot) ==
  /\ bot \in DOMAIN polling
  /\ \E params \in Asked[bot] :
       \/ polling' = [polling EXCEPT ![bot].symbols = params.symbols]
       \/ polling' = [polling EXCEPT ![bot].risk = params.risk]
  /\ UNCHANGED <<saved, up>>

ShutDown ==
  /\ up
  /\ up' = FALSE
  /\ polling' = Nobody
  /\ UNCHANGED saved

\* The program is started, or started again.
Boot ==
  /\ up' = TRUE
  /\ polling' = saved
  /\ UNCHANGED saved

Next == ShutDown \/ Boot \/ \E bot \in Bots : Start(bot) \/ Stop(bot) \/ Change(bot)

Spec == Init /\ [][Next]_registerVars
==============================================================================
