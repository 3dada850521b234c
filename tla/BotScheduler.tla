---------------------------- MODULE BotScheduler ----------------------------
(***************************************************************************)
(* Bots are started, changed and stopped (SchedulerService), either as     *)
(* polling jobs or, scalping with fixed symbols, as event-driven bots      *)
(* (EventDrivenService). Polling bots are kept in active_bots.json and     *)
(* started again with the process. All of them share one stream client,    *)
(* which does not count who wants a stream. The requests are handled in    *)
(* the event loop without an await: each is one step. Cycles wait for the  *)
(* market's lists in between.                                              *)
(***************************************************************************)
EXTENDS StreamClient, Naturals, Functions

CONSTANTS
  Bots,
  Symbols,
  Lists,        \* AUTO_GAINERS and HIDDEN_GEMS, given in place of symbols
  Asked,        \* Asked[bot]: what users ask of a bot, [symbols, mode, risk]
  Failures,     \* what may fail: sets of "write" (of active_bots.json, or it is cut by a
                \* crash) and "start" (start_bot raises, for the database is down)
  MaxBoots,     \* bound on restarts
  MaxOutbox     \* bound on requests waiting when a user's request arrives

Params == [symbols : SUBSET (Symbols \cup Lists), mode : {"scalping", "swing"}, risk : Nat]

ASSUME SchedulerAssumption ==
  /\ Symbols \cap Lists = {}
  /\ \A bot \in Bots : Asked[bot] \subseteq Params
  /\ Failures \subseteq SUBSET {"write", "start"}
  /\ MaxBoots \in Nat /\ MaxOutbox \in Nat

VARIABLES
  jobs,       \* polling bots: the arguments of their jobs
  eventBots,  \* event-driven bots: their parameters
  file,       \* active_bots.json: readable, and the parameters of the bots in it
  halted,     \* the scheduler has been shut down in a running process
  fetching,   \* bots whose cycle waits for a market list
  boots,      \* restarts so far
  fetched,    \* auxiliary: what cycles subscribed to from market lists
  dismissed,  \* auxiliary: bots whose last request was to stop
  failing     \* what may fail in this behaviour

schedVars == <<client, jobs, eventBots, file, halted, fetching, boots, fetched, dismissed,
               failing>>

\* Parameters for some of the bots.
IsTable(table) == DOMAIN table \subseteq Bots /\ table \in [DOMAIN table -> Params]

NoBots == [bot \in {} |-> {}]

Without(table, bot) == Restrict(table, DOMAIN table \ {bot})

With(table, bot, params) ==
  [b \in DOMAIN table \cup {bot} |-> IF b = bot THEN params ELSE table[b]]

RunningAsJob(bot) == ~halted /\ bot \in DOMAIN jobs  \* mutant: is_bot_running without the event service

IsRunning(bot) == ~halted /\ bot \in DOMAIN jobs \cup DOMAIN eventBots

EventDriven(params) == params.mode = "scalping" /\ params.symbols \cap Lists = {}

WrittenOver(old, bots) ==  \* mutant: a write that is cut leaves the old text behind
  {[readable |-> TRUE, bots |-> bots]} \cup
  (IF "write" \in failing THEN {old, [readable |-> FALSE, bots |-> old.bots]} ELSE {})

\* What the file may hold after a program that read old writes bots to it: open
\* truncates it, so that a failing write or a crash leaves nothing to be read.
Written(old, bots) ==
  {[readable |-> TRUE, bots |-> bots]} \cup
  (IF "write" \in failing THEN {old, [readable |-> FALSE, bots |-> NoBots]} ELSE {})

\* An unreadable file is taken for an empty one.
Saved(bot, params) == Written(file, With(file.bots, bot, params))

NothingErased(bot) == {file}  \* mutant: stopped bots stay in the file

\* An unreadable file is left as it is.
Erased(bot) ==
  IF bot \in DOMAIN file.bots THEN Written(file, Without(file.bots, bot)) ELSE {file}

Init ==
  /\ client = NewClient
  /\ jobs = NoBots
  /\ eventBots = NoBots
  /\ file = [readable |-> TRUE, bots |-> NoBots]
  /\ halted = FALSE
  /\ fetching = {}
  /\ boots = 0
  /\ fetched = {}
  /\ dismissed = {}
  /\ failing \in Failures

StartUnsaved(bot, params) ==  \* mutant: the bot is not saved
  /\ jobs' = IF halted THEN jobs ELSE With(jobs, bot, params)
  /\ client' = Added(client, params.symbols \ Lists)
  /\ UNCHANGED <<eventBots, file>>

\* A scheduler that is shut down takes the job, but never runs it.
StartPolling(bot, params) ==
  /\ jobs' = IF halted THEN jobs ELSE With(jobs, bot, params)
  /\ file' \in Saved(bot, params)
  /\ client' = Added(client, params.symbols \ Lists)
  /\ UNCHANGED eventBots

\* Event-driven bots are not saved. The event service does not know that the
\* scheduler is shut down, and keeps the bots it has.
StartEventDriven(bot, params) ==
  /\ IF bot \in DOMAIN eventBots
     THEN UNCHANGED <<eventBots, client>>
     ELSE /\ eventBots' = With(eventBots, bot, params)
          /\ client' = Added(client, params.symbols \ Lists)
  /\ UNCHANGED <<jobs, file>>

StartBot(bot) ==
  /\ ~IsRunning(bot)
  /\ \E params \in Asked[bot] :
       IF EventDriven(params) THEN StartEventDriven(bot, params) ELSE StartPolling(bot, params)
  /\ dismissed' = dismissed \ {bot}
  /\ UNCHANGED <<halted, fetching, boots, fetched>>

\* The parameters of a running bot; the event service is asked first.
Running(bot) == IF bot \in DOMAIN eventBots THEN eventBots[bot] ELSE jobs[bot]

\* Its streams go with it, whoever else wants them.
Stopped(bot) ==
  /\ eventBots' = Without(eventBots, bot)
  /\ jobs' = IF bot \in DOMAIN eventBots THEN jobs ELSE Without(jobs, bot)
  /\ client' = Removed(client, Running(bot).symbols)

StopBot(bot) ==
  /\ file' \in Erased(bot)
  /\ IF IsRunning(bot) THEN Stopped(bot) ELSE UNCHANGED <<jobs, eventBots, client>>
  /\ dismissed' = dismissed \cup {bot}
  /\ UNCHANGED <<halted, fetching, boots, fetched>>

\* The file keeps what the bot was started with.
Change(bot, params) ==
  /\ IF bot \in DOMAIN eventBots
     THEN /\ eventBots' = [eventBots EXCEPT ![bot] = params]
          /\ UNCHANGED jobs
     ELSE /\ jobs' = [jobs EXCEPT ![bot] = params]
          /\ UNCHANGED eventBots
  /\ UNCHANGED <<file, halted, fetching, boots, fetched, dismissed>>

AddedOnly(bot, symbols) ==  \* mutant: dropped symbols stay subscribed
  Added(client, symbols \ Running(bot).symbols)

\* The client after the update; the names of market lists are subscribed to as well.
Resubscribed(bot, symbols) ==
  Added(Removed(client, Running(bot).symbols \ symbols), symbols \ Running(bot).symbols)

UpdateSymbols(bot) ==
  /\ IsRunning(bot)
  /\ \E params \in Asked[bot] :
       /\ Change(bot, [Running(bot) EXCEPT !.symbols = params.symbols])
       /\ client' = Resubscribed(bot, params.symbols)

UpdateRisk(bot) ==
  /\ IsRunning(bot)
  /\ \E params \in Asked[bot] : Change(bot, [Running(bot) EXCEPT !.risk = params.risk])
  /\ UNCHANGED client

\* /panic shuts the scheduler down, with its jobs and their cycles, and stops
\* the client. The file and the event-driven bots' table stay as they are.
Panic ==
  /\ ~halted
  /\ halted' = TRUE
  /\ jobs' = NoBots
  /\ fetching' = {}
  /\ UNCHANGED <<client, eventBots, file, boots, fetched, dismissed>>

\* A job runs one cycle at a time, with the arguments it has when it begins.
BeginFetch(bot) ==
  /\ bot \in DOMAIN jobs \ fetching
  /\ jobs[bot].symbols \cap Lists # {}
  /\ fetching' = fetching \cup {bot}
  /\ UNCHANGED <<client, jobs, eventBots, file, halted, boots, fetched, dismissed>>

\* The list has come, or is empty or failed. The bot may have been stopped since.
EndFetch(bot) ==
  /\ bot \in fetching
  /\ fetching' = fetching \ {bot}
  /\ \E found \in SUBSET Symbols :
       /\ client' = Added(client, found)
       /\ fetched' = fetched \cup found
  /\ UNCHANGED <<jobs, eventBots, file, halted, boots, dismissed>>

ResumedSilently(bots) ==  \* mutant: the streams of resumed bots are not asked for
  /\ jobs' = Restrict(file.bots, bots)
  /\ client' = NewClient

\* start_bot for each of bots, with what the file says.
Resumed(bots) ==
  /\ jobs' = Restrict(file.bots, bots)
  /\ client' = Added(NewClient, (UNION {file.bots[bot].symbols : bot \in bots}) \ Lists)

\* start_bot saves each of them again. A write that fails may leave nothing to be read, and
\* only the bots that are saved after it.
Rewritten(bots) ==
  {file} \cup
  (IF "write" \in failing /\ bots # {}
   THEN {[readable |-> FALSE, bots |-> NoBots]} \cup
        {[readable |-> TRUE, bots |-> Restrict(file.bots, some)] :
           some \in SUBSET bots \ {{}, bots}}
   ELSE {})

\* The process goes down and comes up. The first start_bot to raise ends the
\* resumption: some of the bots of the file are left out, which ones is open
\* here. An unreadable file resumes nothing.
Restart ==
  /\ boots < MaxBoots
  /\ boots' = boots + 1
  /\ eventBots' = NoBots
  /\ halted' = FALSE
  /\ fetching' = {}
  /\ fetched' = {}
  /\ \E bots \in IF "start" \in failing THEN SUBSET DOMAIN file.bots ELSE {DOMAIN file.bots} :
       Resumed(bots) /\ file' \in Rewritten(bots)
  /\ UNCHANGED dismissed

\* The process goes down while it writes the file for a bot.
CrashWriting ==
  /\ "write" \in failing
  /\ boots < MaxBoots
  /\ \E bot \in Bots : ~IsRunning(bot) \/ bot \in DOMAIN file.bots
  /\ boots' = boots + 1
  /\ file' = [readable |-> FALSE, bots |-> NoBots]
  /\ jobs' = NoBots
  /\ eventBots' = NoBots
  /\ client' = NewClient
  /\ halted' = FALSE
  /\ fetching' = {}
  /\ fetched' = {}
  /\ UNCHANGED dismissed

Request(bot) == StartBot(bot) \/ StopBot(bot) \/ UpdateSymbols(bot) \/ UpdateRisk(bot)

Step ==
  \/ \E bot \in Bots : Len(client.outbox) < MaxOutbox /\ Request(bot)
  \/ \E bot \in Bots : Len(client.outbox) < MaxOutbox /\ (BeginFetch(bot) \/ EndFetch(bot))
  \/ Panic
  \/ Restart
  \/ CrashWriting
  \/ /\ Send \/ Lose \/ (~halted /\ Connect)
     /\ UNCHANGED <<jobs, eventBots, file, halted, fetching, boots, fetched, dismissed>>

Next == Step /\ UNCHANGED failing

Spec == Init /\ [][Next]_schedVars

-----------------------------------------------------------------------------

Wanted == UNION {Running(bot).symbols : bot \in DOMAIN jobs \cup DOMAIN eventBots}

\* Tables of bots' parameters, and streams of symbols or of lists taken for symbols.
TypeOK ==
  /\ IsTable(jobs) /\ IsTable(eventBots) /\ IsTable(file.bots)
  /\ file.readable \in BOOLEAN
  /\ file.readable \/ file.bots = NoBots
  /\ halted \in BOOLEAN
  /\ fetching \subseteq Bots /\ dismissed \subseteq Bots
  /\ fetched \subseteq Symbols
  /\ client.subs \subseteq Symbols \cup Lists /\ client.wire \subseteq Symbols \cup Lists
  /\ client.open \in BOOLEAN

\* A bot does not run as a job and event-driven at once, over starts, stops
\* and resumptions: it would trade its account twice.
NotTwice == DOMAIN jobs \cap DOMAIN eventBots = {}

\* Once all requests are sent, the exchange sends exactly the streams that the
\* program wants, whatever was added and removed while the connection came and went.
WireMatches == client.open /\ client.outbox = << >> => client.wire = client.subs

\* Symbols that no other bot is ever asked to trade.
Own(bot) == Symbols \ UNION UNION {{params.symbols : params \in Asked[b]} : b \in Bots \ {bot}}

\* The symbols of a running bot are subscribed to, over starts, updates, panics and
\* restarts, unless another bot may trade them too: it would take the stream away as it
\* stops or drops the symbol.
Fed ==
  \A bot \in DOMAIN jobs \cup DOMAIN eventBots :
    Running(bot).symbols \cap Own(bot) \subseteq client.subs

\* What is subscribed to is a running bot's or came from a market list: stops
\* and updates leave nothing behind, lists do (they are never unsubscribed), and
\* so do requests to a scheduler that is shut down.
NoLeftovers == ~halted => client.subs \subseteq Wanted \cup fetched

\* As long as writes do not fail, a bot that was stopped does not run again by itself,
\* after any number of restarts (stop_bot erases it from the file it is resumed from).
StoppedStayStopped == "write" \notin failing => \A bot \in dismissed : ~IsRunning(bot)

Register == INSTANCE BotRegister WITH saved <- file.bots, polling <- jobs, up <- ~halted

\* As long as nothing fails, every step is one of the register of polling bots or does not
\* show there: whatever is started, changed, stopped, shut down and started again, the file
\* has the bots that run, and a restart brings them back as they were started.
KeepsTheRegister ==
  [][failing = {} => [Register!Next]_(Register!registerVars)]_schedVars
=============================================================================
