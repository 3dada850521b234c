------------------------ MODULE BotScheduler_proofs ------------------------
(***************************************************************************)
(* For any bots, symbols, requests and number of restarts: a bot never     *)
(* runs as a job and event-driven at once, whatever fails. If the writes   *)
(* of active_bots.json do not fail, a stopped bot stays stopped; if        *)
(* start_bot does not raise either, the polling bots survive a restart.    *)
(* These rest on what the file says of the running bots. The exchange      *)
(* sends what the program wants, for the requests that wait agree with     *)
(* it; running bots have their own symbols and nothing else is left        *)
(* behind, for a request takes no more than was asked of its bot. Where    *)
(* nothing fails all of it implements the register of polling bots.        *)
(***************************************************************************)
EXTENDS BotScheduler, TLAPS

\* The tables' operators change which bots there are as their names say.
LEMMA DomainWith ==
  \A table, bot, params : DOMAIN With(table, bot, params) = DOMAIN table \cup {bot}
BY DEF With

\* Taking a bot out of a table (del, pop) takes it out of its domain.
LEMMA DomainWithout ==
  \A table, bot : DOMAIN Without(table, bot) = DOMAIN table \ {bot}
BY DEF Without, Restrict

\* A resumption has the bots it is restricted to.
LEMMA DomainRestrict ==
  \A table, some : DOMAIN Restrict(table, some) = some
BY DEF Restrict

\* The empty table has no bots.
LEMMA DomainNoBots == DOMAIN NoBots = {}
BY DEF NoBots

\* A change of parameters does not change which bots there are.
LEMMA Changed ==
  ASSUME NEW bot, UpdateSymbols(bot) \/ UpdateRisk(bot)
  PROVE  /\ DOMAIN jobs' = DOMAIN jobs
         /\ DOMAIN eventBots' = DOMAIN eventBots
         /\ UNCHANGED <<file, halted, dismissed, boots>>
<1>1. ASSUME NEW params, Change(bot, params)
      PROVE  /\ DOMAIN jobs' = DOMAIN jobs
             /\ DOMAIN eventBots' = DOMAIN eventBots
             /\ UNCHANGED <<file, halted, dismissed, boots>>
  BY <1>1 DEF Change
<1>2. \E params : Change(bot, params)
  BY DEF UpdateSymbols, UpdateRisk
<1> QED
  BY <1>1, <1>2

\* start_bot puts a bot that does not run into one of the tables, or into none
\* if the scheduler is shut down.
LEMMA IntoTables ==
  ASSUME NEW bot, StartBot(bot)
  PROVE  /\ ~IsRunning(bot)
         /\ dismissed' = dismissed \ {bot}
         /\ UNCHANGED halted
         /\ \/ /\ DOMAIN eventBots' = DOMAIN eventBots \cup {bot}
               /\ UNCHANGED <<jobs, file>>
            \/ /\ DOMAIN jobs' = IF halted THEN DOMAIN jobs ELSE DOMAIN jobs \cup {bot}
               /\ UNCHANGED eventBots
               /\ \E params : file' \in Saved(bot, params)
<1> PICK params \in Asked[bot] :
      IF EventDriven(params) THEN StartEventDriven(bot, params) ELSE StartPolling(bot, params)
  BY DEF StartBot
<1>1. CASE StartEventDriven(bot, params)
  <2>1. /\ \/ eventBots' = With(eventBots, bot, params)
           \/ bot \in DOMAIN eventBots /\ UNCHANGED eventBots
        /\ UNCHANGED <<jobs, file>>
    BY <1>1 DEF StartEventDriven
  <2>2. DOMAIN eventBots' = DOMAIN eventBots \cup {bot}
    BY <2>1, DomainWith
  <2> QED
    BY <2>1, <2>2 DEF StartBot
<1>2. CASE StartPolling(bot, params)
  <2>1. /\ jobs' = IF halted THEN jobs ELSE With(jobs, bot, params)
        /\ UNCHANGED eventBots
        /\ file' \in Saved(bot, params)
    BY <1>2 DEF StartPolling
  <2> QED
    BY <2>1, DomainWith DEF StartBot
<1> QED
  BY <1>1, <1>2

\* A write that does not fail leaves the table it was given.
LEMMA WrittenThrough ==
  ASSUME "write" \notin failing, NEW old, NEW bots, NEW new \in Written(old, bots)
  PROVE  new.bots = bots
BY DEF Written

\* stop_bot takes the bot out of the tables, and no other.
LEMMA OutOfTables ==
  ASSUME NEW bot, StopBot(bot)
  PROVE  /\ DOMAIN jobs' \subseteq DOMAIN jobs
         /\ DOMAIN eventBots' \subseteq DOMAIN eventBots
         /\ bot \in DOMAIN jobs' => halted \/ bot \in DOMAIN jobs \cap DOMAIN eventBots
         /\ bot \in DOMAIN eventBots' => halted
         /\ UNCHANGED halted
         /\ dismissed' = dismissed \cup {bot}
<1>1. CASE IsRunning(bot)
  <2>1. /\ eventBots' = Without(eventBots, bot)
        /\ jobs' = IF bot \in DOMAIN eventBots THEN jobs ELSE Without(jobs, bot)
    BY <1>1 DEF StopBot, Stopped
  <2> QED
    BY <1>1, <2>1, DomainWithout DEF StopBot, IsRunning
<1>2. CASE ~IsRunning(bot)
  BY <1>2 DEF StopBot, IsRunning
<1> QED
  BY <1>1, <1>2

\* What makes NotTwice inductive: a scheduler that is shut down has no jobs, so
\* that the bots of the event service, which go on, are not among them.
TablesApart ==
  /\ NotTwice
  /\ halted => DOMAIN jobs = {}

\* TablesApart holds all along.
LEMMA TablesApartCorrect == Spec => []TablesApart
<1>1. Init => TablesApart
  BY DomainNoBots DEF Init, TablesApart, NotTwice
<1>2. TablesApart /\ [Next]_schedVars => TablesApart'
  <2> SUFFICES ASSUME TablesApart, [Next]_schedVars PROVE TablesApart'
    OBVIOUS
  <2> USE DEF TablesApart, NotTwice
  <2>1. ASSUME NEW bot \in Bots, StartBot(bot) PROVE TablesApart'
    BY <2>1, IntoTables DEF IsRunning
  <2>2. ASSUME NEW bot \in Bots, StopBot(bot) PROVE TablesApart'
    BY <2>2, OutOfTables
  <2>3. ASSUME NEW bot \in Bots, UpdateSymbols(bot) \/ UpdateRisk(bot) PROVE TablesApart'
    BY <2>3, Changed
  <2>4. ASSUME NEW bot \in Bots, BeginFetch(bot) \/ EndFetch(bot) PROVE TablesApart'
    BY <2>4 DEF BeginFetch, EndFetch
  <2>5. CASE Panic
    BY <2>5, DomainNoBots DEF Panic
  <2>6. CASE Restart
    BY <2>6, DomainNoBots DEF Restart
  <2>7. CASE CrashWriting
    BY <2>7, DomainNoBots DEF CrashWriting
  <2>8. CASE UNCHANGED <<jobs, eventBots, halted>>
    BY <2>8
  <2> QED
    BY <2>1, <2>2, <2>3, <2>4, <2>5, <2>6, <2>7, <2>8 DEF Next, Step, Request, schedVars
<1> QED
  BY <1>1, <1>2, PTL DEF Spec

\* No bot runs as a job and event-driven at once (is_bot_running asks both).
THEOREM NotTwiceCorrect == Spec => []NotTwice
<1>1. TablesApart => NotTwice
  BY DEF TablesApart
<1> QED
  BY <1>1, TablesApartCorrect, PTL

\* No bot runs that was stopped last.
Obedient == \A bot \in dismissed : ~IsRunning(bot)

\* The file says what runs: all jobs, and no bot that was stopped.
FileMatches ==
  /\ DOMAIN jobs \subseteq DOMAIN file.bots
  /\ dismissed \cap DOMAIN file.bots = {}
  /\ Obedient

\* It does as long as writes do not fail.
FileSays == "write" \notin failing => FileMatches

\* FileSays holds all along.
LEMMA FileSaysCorrect == Spec => []FileSays
<1>1. Init => FileSays
  BY DomainNoBots DEF Init, FileSays, FileMatches, Obedient
<1>2. TablesApart /\ FileSays /\ [Next]_schedVars => FileSays'
  <2> SUFFICES ASSUME TablesApart, FileMatches, [Next]_schedVars, "write" \notin failing
               PROVE  FileMatches'
    BY DEF FileSays, Next, schedVars
  <2>1. ASSUME NEW bot \in Bots, StartBot(bot) PROVE FileMatches'
    <3>0. Obedient'
      <4> SUFFICES ASSUME NEW other \in dismissed' PROVE ~IsRunning(other)'
        BY DEF Obedient
      <4>1. other \in dismissed /\ other # bot
        BY <2>1, IntoTables
      <4>2. ~IsRunning(other)
        BY <4>1 DEF FileMatches, Obedient
      <4> QED
        BY <2>1, <4>1, <4>2, IntoTables DEF IsRunning
    <3>1. CASE DOMAIN eventBots' = DOMAIN eventBots \cup {bot} /\ UNCHANGED <<jobs, file>>
      BY <2>1, <3>0, <3>1, IntoTables DEF FileMatches
    <3>2. ASSUME DOMAIN jobs' = IF halted THEN DOMAIN jobs ELSE DOMAIN jobs \cup {bot},
                 UNCHANGED eventBots,
                 NEW params, file' \in Saved(bot, params)
          PROVE  FileMatches'
      <4>1. file'.bots = With(file.bots, bot, params)
        BY <3>2, WrittenThrough DEF Saved
      <4>2. DOMAIN file'.bots = DOMAIN file.bots \cup {bot}
        BY <4>1, DomainWith
      <4> QED
        <5>1. dismissed' \cap DOMAIN file'.bots = {}
          BY <2>1, <4>2, IntoTables DEF FileMatches
        <5>2. DOMAIN jobs' \subseteq DOMAIN file'.bots
          BY <3>2, <4>2 DEF FileMatches
        <5> QED
          BY <3>0, <5>1, <5>2 DEF FileMatches
    <3> QED
      BY <2>1, <3>1, <3>2, IntoTables
  <2>2. ASSUME NEW bot \in Bots, StopBot(bot) PROVE FileMatches'
    <3>1. DOMAIN file'.bots = DOMAIN file.bots \ {bot}
      <4>1. file' \in Erased(bot)
        BY <2>2 DEF StopBot
      <4>2. CASE bot \in DOMAIN file.bots
        <5>1. file'.bots = Without(file.bots, bot)
          BY <4>1, <4>2, WrittenThrough DEF Erased
        <5> QED
          BY <5>1, DomainWithout
      <4>3. CASE bot \notin DOMAIN file.bots
        BY <4>1, <4>3 DEF Erased
      <4> QED
        BY <4>2, <4>3
    <3> QED
      BY <2>2, <3>1, OutOfTables DEF FileMatches, Obedient, IsRunning, TablesApart, NotTwice
  <2>3. ASSUME NEW bot \in Bots, UpdateSymbols(bot) \/ UpdateRisk(bot) PROVE FileMatches'
    BY <2>3, Changed DEF FileMatches, Obedient, IsRunning
  <2>4. ASSUME NEW bot \in Bots, BeginFetch(bot) \/ EndFetch(bot) PROVE FileMatches'
    BY <2>4 DEF BeginFetch, EndFetch, FileMatches, Obedient, IsRunning
  <2>5. CASE Panic
    BY <2>5, DomainNoBots DEF FileMatches, Obedient, IsRunning, Panic
  <2>6. CASE Restart
    <3> PICK bots \in SUBSET DOMAIN file.bots : Resumed(bots)
      BY <2>6 DEF Restart
    <3>1. DOMAIN jobs' = bots
      BY DomainRestrict DEF Resumed
    <3>2. file' = file
      BY <2>6 DEF Restart, Rewritten
    <3> QED
      BY <2>6, <3>1, <3>2, DomainNoBots DEF FileMatches, Obedient, IsRunning, Restart
  <2>7. ~CrashWriting
    BY DEF CrashWriting
  <2>8. CASE UNCHANGED <<jobs, eventBots, file, halted, dismissed>>
    BY <2>8 DEF FileMatches, Obedient, IsRunning
  <2> QED
    BY <2>1, <2>2, <2>3, <2>4, <2>5, <2>6, <2>7, <2>8 DEF Next, Step, Request, schedVars
<1> QED
  BY <1>1, <1>2, TablesApartCorrect, PTL DEF Spec

\* A stopped bot does not run again by itself, unless a write of the file
\* fails: stop_bot erases it from the file as it takes it from the tables.
THEOREM StoppedCorrect == Spec => []StoppedStayStopped
<1>1. FileSays => StoppedStayStopped
  BY DEF FileSays, FileMatches, Obedient, StoppedStayStopped
<1> QED
  BY <1>1, FileSaysCorrect, PTL

\* As long as nothing fails, all polling bots come back with a restart, with the mode and
\* kind of list they were started with (resume_active_bots starts the bots of the file).
PollingResumed ==
  [][boots' # boots /\ failing = {} => DOMAIN jobs \subseteq DOMAIN jobs']_schedVars

\* A restart brings all polling bots back, unless a write of the file or a
\* start fails: resume_active_bots starts the bots of the file.
THEOREM PollingResumedCorrect == Spec => PollingResumed
<1>1. FileSays /\ [Next]_schedVars =>
        [boots' # boots /\ failing = {} => DOMAIN jobs \subseteq DOMAIN jobs']_schedVars
  <2> SUFFICES ASSUME FileSays, Next, boots' # boots, failing = {}
               PROVE  DOMAIN jobs \subseteq DOMAIN jobs'
    BY DEF schedVars
  <2>1. CASE Restart
    <3>1. Resumed(DOMAIN file.bots)
      BY <2>1 DEF Restart
    <3> QED
      BY <3>1, DomainRestrict DEF Resumed, FileSays, FileMatches
  <2>2. ASSUME NEW bot \in Bots, Request(bot) \/ BeginFetch(bot) \/ EndFetch(bot) PROVE FALSE
    BY <2>2, Changed DEF Request, StartBot, StopBot, BeginFetch, EndFetch
  <2> QED
    BY <2>1, <2>2 DEF Next, Step, CrashWriting, Panic
<1> QED
  BY <1>1, FileSaysCorrect, PTL DEF Spec, PollingResumed

-----------------------------------------------------------------------------
(***************************************************************************)
(* The types, the requests and what they do to the client. The tables      *)
(* hold symbols that users asked of the bot they belong to.                *)
(***************************************************************************)

Streams == Symbols \cup Lists

Payloads == [method : {"SUBSCRIBE", "UNSUBSCRIBE"}, streams : SUBSET Streams]

Clients == [open : BOOLEAN, subs : SUBSET Streams, outbox : Seq(Payloads),
            wire : SUBSET Streams]

\* The symbols that users ask of a bot.
Wishes(bot) == {params.symbols : params \in Asked[bot]}

\* A table of parameters whose symbols were asked of their bots.
IsAsked(table) == IsTable(table) /\ \A bot \in DOMAIN table : table[bot].symbols \in Wishes(bot)

\* A file that cannot be read counts as empty.
FileTyped == file.readable \in BOOLEAN /\ (file.readable \/ file.bots = NoBots)
             /\ IsAsked(file.bots)

\* What makes TypeOK inductive, and what Fed needs of the tables.
Typed ==
  /\ client \in Clients
  /\ IsAsked(jobs) /\ IsAsked(eventBots) /\ FileTyped
  /\ halted \in BOOLEAN
  /\ fetching \subseteq Bots /\ dismissed \subseteq Bots
  /\ fetched \subseteq Symbols

\* The last request that mentions a stream says what the program wants of it;
\* without one, the exchange does as the program wants.
Settled(cl, x) ==
  \/ /\ \A i \in 1..Len(cl.outbox) : x \notin cl.outbox[i].streams
     /\ x \in cl.wire <=> x \in cl.subs
  \/ \E i \in 1..Len(cl.outbox) :
       /\ x \in cl.outbox[i].streams
       /\ \A j \in 1..Len(cl.outbox) : j > i => x \notin cl.outbox[j].streams
       /\ cl.outbox[i].method = "SUBSCRIBE" <=> x \in cl.subs

\* What makes WireMatches inductive.
InSync(cl) == cl.open => \A x \in Streams : Settled(cl, x)

\* What a request for a payload does to the client (_send_payload).
LEMMA PostedClient ==
  ASSUME NEW cl \in Clients, NEW payload \in Payloads
  PROVE  /\ Posted(cl, payload) \in Clients
         /\ Posted(cl, payload).open = cl.open
         /\ Posted(cl, payload).subs = cl.subs
         /\ Posted(cl, payload).wire = cl.wire
         /\ Posted(cl, payload).outbox =
              IF cl.open /\ payload.streams # {} THEN Append(cl.outbox, payload) ELSE cl.outbox
<1>1. cl.outbox \in Seq(Payloads) /\ Append(cl.outbox, payload) \in Seq(Payloads)
  BY DEF Clients
<1> QED
  BY <1>1 DEF Posted, Clients

\* add_symbols subscribes to what is new and asks for it.
LEMMA AddedClient ==
  ASSUME NEW cl \in Clients, NEW streams \in SUBSET Streams
  PROVE  /\ Added(cl, streams) \in Clients
         /\ Added(cl, streams).open = cl.open
         /\ Added(cl, streams).subs = cl.subs \cup streams
<1> DEFINE new == streams \ cl.subs
           before == [cl EXCEPT !.subs = @ \cup new]
           payload == Payload("SUBSCRIBE", new)
<1>1. before \in Clients /\ before.open = cl.open /\ before.subs = cl.subs \cup streams
  BY DEF Clients
<1>2. payload \in Payloads
  BY DEF Payloads, Payload, Clients
<1>3. Added(cl, streams) = Posted(before, payload)
  BY DEF Added
<1> HIDE DEF before, payload
<1> QED
  BY <1>1, <1>2, <1>3, PostedClient

\* remove_symbols forgets what is subscribed to and asks for its end.
LEMMA RemovedClient ==
  ASSUME NEW cl \in Clients, NEW streams \in SUBSET Streams
  PROVE  /\ Removed(cl, streams) \in Clients
         /\ Removed(cl, streams).open = cl.open
         /\ Removed(cl, streams).subs = cl.subs \ streams
<1> DEFINE gone == streams \cap cl.subs
           before == [cl EXCEPT !.subs = @ \ gone]
           payload == Payload("UNSUBSCRIBE", gone)
<1>1. before \in Clients /\ before.open = cl.open /\ before.subs = cl.subs \ streams
  BY DEF Clients
<1>2. payload \in Payloads
  BY DEF Payloads, Payload, Clients
<1>3. Removed(cl, streams) = Posted(before, payload)
  BY DEF Removed
<1> HIDE DEF before, payload
<1> QED
  BY <1>1, <1>2, <1>3, PostedClient

\* A subscription changed together with a request that says so: the stream
\* settles on the request, all other streams stay as they are.
LEMMA SettledByRequest ==
  ASSUME NEW cl \in Clients, NEW after \in Clients, NEW payload \in Payloads,
         NEW x \in Streams, Settled(cl, x),
         after.wire = cl.wire,
         after.outbox = Append(cl.outbox, payload),
         x \in payload.streams => (payload.method = "SUBSCRIBE" <=> x \in after.subs),
         x \notin payload.streams => (x \in cl.subs <=> x \in after.subs)
  PROVE  Settled(after, x)
<1> DEFINE n == Len(cl.outbox)
<1>0. /\ cl.outbox \in Seq(Payloads) /\ n \in Nat
      /\ Len(after.outbox) = n + 1
      /\ after.outbox[n + 1] = payload
      /\ \A i \in 1..n : after.outbox[i] = cl.outbox[i]
  BY DEF Clients
<1> HIDE DEF n
<1>1. CASE x \in payload.streams
  BY <1>0, <1>1 DEF Settled
<1>2. CASE x \notin payload.streams
  <2>1. CASE (\A i \in 1..n : x \notin cl.outbox[i].streams) /\ (x \in cl.wire <=> x \in cl.subs)
    <3>1. \A i \in 1..(n + 1) : x \notin after.outbox[i].streams
      BY <1>0, <1>2, <2>1
    <3> QED
      BY <1>0, <1>2, <2>1, <3>1 DEF Settled
  <2>2. CASE \E i \in 1..n :
               /\ x \in cl.outbox[i].streams
               /\ \A j \in 1..n : j > i => x \notin cl.outbox[j].streams
               /\ cl.outbox[i].method = "SUBSCRIBE" <=> x \in cl.subs
    <3> PICK i \in 1..n :
               /\ x \in cl.outbox[i].streams
               /\ \A j \in 1..n : j > i => x \notin cl.outbox[j].streams
               /\ cl.outbox[i].method = "SUBSCRIBE" <=> x \in cl.subs
      BY <2>2
    <3>1. i \in 1..(n + 1) /\ after.outbox[i] = cl.outbox[i]
      BY <1>0
    <3>2. \A j \in 1..(n + 1) : j > i => x \notin after.outbox[j].streams
      BY <1>0, <1>2
    <3> QED
      BY <1>0, <1>2, <3>1, <3>2 DEF Settled
  <2> QED
    BY <2>1, <2>2 DEF Settled, n
<1> QED
  BY <1>1, <1>2

\* Nothing is asked for: a stream that stays wanted or unwanted stays settled.
LEMMA SettledWithout ==
  ASSUME NEW cl \in Clients, NEW after \in Clients, NEW x \in Streams, Settled(cl, x),
         after.wire = cl.wire, after.outbox = cl.outbox, x \in cl.subs <=> x \in after.subs
  PROVE  Settled(after, x)
BY DEF Settled

\* Subscribing and unsubscribing keep the requests in step with what is wanted.
LEMMA InSyncKept ==
  ASSUME NEW cl \in Clients, InSync(cl), NEW streams \in SUBSET Streams
  PROVE  InSync(Added(cl, streams)) /\ InSync(Removed(cl, streams))
<1>1. ASSUME NEW before \in Clients, NEW payload \in Payloads, cl.open,
             before.open = cl.open, before.wire = cl.wire, before.outbox = cl.outbox,
             before.subs = IF payload.method = "SUBSCRIBE" THEN cl.subs \cup payload.streams
                           ELSE cl.subs \ payload.streams
      PROVE  InSync(Posted(before, payload))
  <2> SUFFICES ASSUME NEW x \in Streams PROVE Settled(Posted(before, payload), x)
    BY DEF InSync
  <2> DEFINE after == Posted(before, payload)
  <2>1. /\ after \in Clients /\ after.wire = cl.wire /\ after.subs = before.subs
        /\ after.outbox =
             IF payload.streams # {} THEN Append(cl.outbox, payload) ELSE cl.outbox
    <3>1. /\ after \in Clients /\ after.open = before.open /\ after.subs = before.subs
          /\ after.wire = before.wire
          /\ after.outbox = IF before.open /\ payload.streams # {}
                            THEN Append(before.outbox, payload) ELSE before.outbox
      BY PostedClient
    <3> HIDE DEF after
    <3> QED
      BY <1>1, <3>1
  <2>2. Settled(cl, x)
    BY <1>1 DEF InSync
  <2> HIDE DEF after
  <2>3. x \in payload.streams => (payload.method = "SUBSCRIBE" <=> x \in after.subs)
    BY <1>1, <2>1 DEF Clients, Payloads
  <2>4. x \notin payload.streams => (x \in cl.subs <=> x \in after.subs)
    BY <1>1, <2>1
  <2>5. payload.streams # {} => Settled(after, x)
    BY <2>1, <2>2, <2>3, <2>4, SettledByRequest
  <2>6. payload.streams = {} => Settled(after, x)
    BY <2>1, <2>2, <2>4, SettledWithout
  <2> QED
    BY <2>5, <2>6 DEF after
<1>2. CASE ~cl.open
  BY <1>2, AddedClient, RemovedClient DEF InSync
<1>3. CASE cl.open
  <2>1. InSync(Added(cl, streams))
    <3> DEFINE new == streams \ cl.subs
               before == [cl EXCEPT !.subs = @ \cup new]
               payload == Payload("SUBSCRIBE", new)
    <3>1. /\ before \in Clients /\ payload \in Payloads
          /\ before.open = cl.open /\ before.wire = cl.wire /\ before.outbox = cl.outbox
          /\ before.subs = cl.subs \cup payload.streams /\ payload.method = "SUBSCRIBE"
      BY DEF Clients, Payloads, Payload
    <3>2. Added(cl, streams) = Posted(before, payload)
      BY DEF Added
    <3> HIDE DEF before, payload
    <3> QED
      BY <1>1, <1>3, <3>1, <3>2
  <2>2. InSync(Removed(cl, streams))
    <3> DEFINE gone == streams \cap cl.subs
               before == [cl EXCEPT !.subs = @ \ gone]
               payload == Payload("UNSUBSCRIBE", gone)
    <3>1. /\ before \in Clients /\ payload \in Payloads
          /\ before.open = cl.open /\ before.wire = cl.wire /\ before.outbox = cl.outbox
          /\ before.subs = cl.subs \ payload.streams /\ payload.method # "SUBSCRIBE"
      BY DEF Clients, Payloads, Payload
    <3>2. Removed(cl, streams) = Posted(before, payload)
      BY DEF Removed
    <3> HIDE DEF before, payload
    <3> QED
      BY <1>1, <1>3, <3>1, <3>2
  <2> QED
    BY <2>1, <2>2
<1> QED
  BY <1>2, <1>3

\* The steps of the client by itself keep its types and the requests in step.
LEMMA ClientSteps ==
  ASSUME client \in Clients, InSync(client), Send \/ Lose \/ Connect
  PROVE  /\ client' \in Clients /\ client'.subs = client.subs
         /\ InSync(client')
<1>1. CASE Connect
  <2>1. /\ client' \in Clients /\ client'.subs = client.subs /\ client'.wire = client.subs
        /\ client'.outbox = << >>
    BY <1>1 DEF Connect, Clients
  <2> QED
    BY <2>1 DEF InSync, Settled
<1>2. CASE Lose
  BY <1>2 DEF Lose, Clients, InSync
<1>3. CASE Send
  <2> DEFINE n == Len(client.outbox)
             head == client.outbox[1]
  <2>1. /\ client.outbox \in Seq(Payloads) /\ client.outbox # << >>
        /\ n \in Nat \ {0} /\ head \in Payloads /\ Head(client.outbox) = head
        /\ Tail(client.outbox) \in Seq(Payloads) /\ Len(Tail(client.outbox)) = n - 1
        /\ \A i \in 1..(n - 1) : Tail(client.outbox)[i] = client.outbox[i + 1]
    BY <1>3 DEF Send, Clients
  <2>2. /\ client' \in Clients /\ client'.subs = client.subs /\ client'.open = client.open
        /\ client'.outbox = Tail(client.outbox)
    <3> DEFINE rest == [client EXCEPT !.outbox = Tail(@)]
    <3>1. /\ rest \in Clients /\ rest.subs = client.subs /\ rest.open = client.open
          /\ rest.outbox = Tail(client.outbox)
      BY <2>1 DEF Clients
    <3>2. \/ client' = rest
          \/ \E streams \in SUBSET Streams : client' = [rest EXCEPT !.wire = @ \cup streams]
          \/ \E streams \in SUBSET Streams : client' = [rest EXCEPT !.wire = @ \ streams]
      BY <1>3, <2>1 DEF Send, Payloads
    <3> HIDE DEF rest
    <3> QED
      BY <3>1, <3>2 DEF Clients
  <2>3. client.open => client'.wire = IF head.method = "SUBSCRIBE"
                                      THEN client.wire \cup head.streams
                                      ELSE client.wire \ head.streams
    BY <1>3, <2>1 DEF Send, Clients
  <2>4. ASSUME client.open, NEW x \in Streams PROVE Settled(client', x)
    <3>0. Settled(client, x)
      BY <2>4 DEF InSync
    <3> HIDE DEF n, head
    <3>1. CASE (\A i \in 1..n : x \notin client.outbox[i].streams)
               /\ (x \in client.wire <=> x \in client.subs)
      <4>1. \A i \in 1..(n - 1) : x \notin client'.outbox[i].streams
        BY <2>1, <2>2, <3>1
      <4>2. x \notin head.streams
        BY <2>1, <3>1 DEF head
      <4>3. x \in client'.wire <=> x \in client'.subs
        BY <2>2, <2>3, <2>4, <3>1, <4>2
      <4> QED
        BY <2>1, <2>2, <4>1, <4>3 DEF Settled
    <3>2. ASSUME NEW i \in 1..n,
                 x \in client.outbox[i].streams,
                 \A j \in 1..n : j > i => x \notin client.outbox[j].streams,
                 client.outbox[i].method = "SUBSCRIBE" <=> x \in client.subs
          PROVE  Settled(client', x)
      <4>1. CASE i = 1
        <5>1. \A j \in 1..(n - 1) : x \notin client'.outbox[j].streams
          BY <2>1, <2>2, <3>2, <4>1
        <5>2. x \in client'.wire <=> x \in client'.subs
          BY <2>2, <2>3, <2>4, <3>2, <4>1 DEF head
        <5> QED
          BY <2>1, <2>2, <5>1, <5>2 DEF Settled
      <4>2. CASE i # 1
        <5>1. i - 1 \in 1..(n - 1) /\ client'.outbox[i - 1] = client.outbox[i]
          BY <2>1, <2>2, <4>2
        <5>2. \A j \in 1..(n - 1) : j > i - 1 => x \notin client'.outbox[j].streams
          BY <2>1, <2>2, <3>2
        <5> QED
          BY <2>1, <2>2, <3>2, <5>1, <5>2 DEF Settled
      <4> QED
        BY <4>1, <4>2
    <3> QED
      BY <3>0, <3>1, <3>2 DEF Settled, n
  <2> QED
    BY <2>2, <2>4 DEF InSync
<1> QED
  BY <1>1, <1>2, <1>3

\* The tables' operators give tables of what was asked.
LEMMA AskedTables ==
  /\ IsAsked(NoBots)
  /\ \A table : \A bot \in Bots : \A params \in Params :
       IsAsked(table) /\ params.symbols \in Wishes(bot) => IsAsked(With(table, bot, params))
  /\ \A table, bot : IsAsked(table) => IsAsked(Without(table, bot))
  /\ \A table : \A some \in SUBSET DOMAIN table : IsAsked(table) => IsAsked(Restrict(table, some))
<1> USE DEF IsAsked, IsTable
<1>1. IsAsked(NoBots)
  BY DEF NoBots
<1>2. ASSUME NEW table, IsAsked(table), NEW bot \in Bots, NEW params \in Params,
             params.symbols \in Wishes(bot)
      PROVE  IsAsked(With(table, bot, params))
  BY <1>2 DEF With
<1>3. ASSUME NEW table, IsAsked(table), NEW some \in SUBSET DOMAIN table
      PROVE  IsAsked(Restrict(table, some))
  BY <1>3 DEF Restrict
<1>4. ASSUME NEW table, IsAsked(table), NEW bot
      PROVE  IsAsked(Without(table, bot))
  <2>1. DOMAIN table \ {bot} \in SUBSET DOMAIN table
    OBVIOUS
  <2> QED
    BY <1>3, <1>4, <2>1 DEF Without
<1> HIDE DEF IsAsked
<1> QED
  BY <1>1, <1>2, <1>3, <1>4
\* The parameters of a running bot were asked of it.
LEMMA RunningAsked ==
  ASSUME IsAsked(jobs), IsAsked(eventBots), NEW bot \in DOMAIN jobs \cup DOMAIN eventBots
  PROVE  /\ bot \in Bots /\ Running(bot) \in Params
         /\ Running(bot).symbols \in Wishes(bot)
         /\ Running(bot).symbols \in SUBSET Streams
BY DEF IsAsked, IsTable, Running, Params, Streams

\* A file that was written, or not, holds what was asked of its bots.
LEMMA WrittenTyped ==
  ASSUME FileTyped, NEW bots, IsAsked(bots), file' \in Written(file, bots)
  PROVE  FileTyped'
<1>1. IsAsked(NoBots)
  BY AskedTables
<1>2. \/ file' = [readable |-> TRUE, bots |-> bots]
      \/ file' = file
      \/ file' = [readable |-> FALSE, bots |-> NoBots]
  BY DEF Written
<1>3. CASE file' = [readable |-> TRUE, bots |-> bots]
  <2>1. file'.readable = TRUE /\ file'.bots = bots
    BY <1>3
  <2> QED
    BY <2>1 DEF FileTyped
<1>4. CASE file' = file
  BY <1>4 DEF FileTyped, IsAsked, IsTable, Wishes
<1>5. CASE file' = [readable |-> FALSE, bots |-> NoBots]
  <2>1. file'.readable = FALSE /\ file'.bots = NoBots
    BY <1>5
  <2> QED
    BY <1>1, <2>1 DEF FileTyped
<1> QED
  BY <1>2, <1>3, <1>4, <1>5

\* So does a file that a resumption has saved again.
LEMMA RewrittenTyped ==
  ASSUME FileTyped, NEW bots \in SUBSET DOMAIN file.bots, file' \in Rewritten(bots)
  PROVE  FileTyped'
<1>1. PICK some \in SUBSET bots : file' = file \/ file' \in Written(file, Restrict(file.bots, some))
  BY DEF Rewritten, Written
<1>2. IsAsked(Restrict(file.bots, some))
  BY AskedTables DEF FileTyped
<1>3. CASE file' = file
  BY <1>3 DEF FileTyped, IsAsked, IsTable, Wishes
<1>4. CASE file' \in Written(file, Restrict(file.bots, some))
  BY <1>2, <1>4, WrittenTyped
<1> QED
  BY <1>1, <1>3, <1>4

\* What users ask are parameters, of symbols or lists.
LEMMA AskedParams ==
  ASSUME SchedulerAssumption, NEW bot \in Bots, NEW params \in Asked[bot]
  PROVE  /\ params \in Params /\ params.symbols \in Wishes(bot)
         /\ params.symbols \in SUBSET Streams
BY DEF SchedulerAssumption, Params, Wishes, Streams

\* A bot's changed parameters are again asked of it.
LEMMA ChangedTyped ==
  ASSUME Typed, NEW bot, IsRunning(bot), NEW params \in Params,
         params.symbols \in Wishes(bot), Change(bot, params)
  PROVE  /\ IsAsked(jobs') /\ IsAsked(eventBots') /\ FileTyped'
         /\ UNCHANGED <<halted, fetching, dismissed, fetched>>
<1> USE DEF Typed, IsAsked, IsTable
<1>1. CASE bot \in DOMAIN eventBots
  <2>1. eventBots' = [eventBots EXCEPT ![bot] = params] /\ UNCHANGED jobs
    BY <1>1 DEF Change
  <2> QED
    BY <1>1, <2>1 DEF Change, FileTyped
<1>2. CASE bot \notin DOMAIN eventBots
  <2>1. jobs' = [jobs EXCEPT ![bot] = params] /\ UNCHANGED eventBots
    BY <1>2 DEF Change
  <2> QED
    BY <1>2, <2>1 DEF Change, FileTyped
<1> QED
  BY <1>1, <1>2

\* The client with its types, and its requests in step with what is wanted.
ClientCorrect(cl) == cl \in Clients /\ InSync(cl)

\* Subscribing and unsubscribing keep it so.
LEMMA ClientKept ==
  \A cl : \A streams \in SUBSET Streams :
     ClientCorrect(cl) => ClientCorrect(Added(cl, streams)) /\ ClientCorrect(Removed(cl, streams))
BY AddedClient, RemovedClient, InSyncKept DEF ClientCorrect

\* A process begins with a client that is not connected.
LEMMA NewClientCorrect == ClientCorrect(NewClient)
BY DEF ClientCorrect, NewClient, Clients, InSync

\* Requests, cycles, panics, restarts and crashes keep the types and the client.
LEMMA TypedCorrect == SchedulerAssumption => (Spec => [](Typed /\ InSync(client)))
<1> SUFFICES ASSUME SchedulerAssumption PROVE Spec => [](Typed /\ InSync(client))
  OBVIOUS
<1>1. Init => Typed /\ InSync(client)
  <2> SUFFICES ASSUME Init PROVE Typed /\ InSync(client)
    OBVIOUS
  <2>1. FileTyped
    BY AskedTables DEF Init, FileTyped
  <2>2. IsAsked(jobs) /\ IsAsked(eventBots)
    BY AskedTables DEF Init
  <2>3. client \in Clients /\ InSync(client)
    BY NewClientCorrect DEF Init, ClientCorrect
  <2> QED
    BY <2>1, <2>2, <2>3 DEF Init, Typed
<1>2. Typed /\ InSync(client) /\ [Next]_schedVars => (Typed /\ InSync(client))'
  <2> SUFFICES ASSUME Typed, ClientCorrect(client), [Next]_schedVars
               PROVE  Typed' /\ ClientCorrect(client)'
    BY DEF ClientCorrect, Typed, InSync
  <2>1. ASSUME NEW bot \in Bots, StartBot(bot) PROVE Typed' /\ ClientCorrect(client)'
    <3> PICK params \in Asked[bot] :
          IF EventDriven(params) THEN StartEventDriven(bot, params) ELSE StartPolling(bot, params)
      BY <2>1 DEF StartBot
    <3>0. /\ params \in Params /\ params.symbols \in Wishes(bot)
          /\ params.symbols \ Lists \in SUBSET Streams
      BY AskedParams
    <3>1. client' = client \/ client' = Added(client, params.symbols \ Lists)
      BY DEF StartEventDriven, StartPolling
    <3>2. IsAsked(jobs') /\ IsAsked(eventBots')
      <4>1. jobs' = jobs \/ jobs' = With(jobs, bot, params)
        BY DEF StartEventDriven, StartPolling
      <4>2. eventBots' = eventBots \/ eventBots' = With(eventBots, bot, params)
        BY DEF StartEventDriven, StartPolling
      <4> QED
        BY <3>0, <4>1, <4>2, AskedTables DEF Typed
    <3>3. FileTyped'
      <4>1. CASE file' = file
        BY <4>1 DEF Typed, FileTyped, IsAsked, IsTable, Wishes
      <4>2. CASE file' \in Written(file, With(file.bots, bot, params))
        <5>1. IsAsked(With(file.bots, bot, params))
          BY <3>0, AskedTables DEF Typed, FileTyped
        <5> QED
          BY <4>2, <5>1, WrittenTyped DEF Typed
      <4> QED
        BY <4>1, <4>2 DEF StartEventDriven, StartPolling, Saved
    <3>4. ClientCorrect(client')
      BY <3>0, <3>1, ClientKept
    <3> QED
      BY <2>1, <3>2, <3>3, <3>4 DEF Typed, ClientCorrect, InSync, StartBot
  <2>2. ASSUME NEW bot \in Bots, StopBot(bot) PROVE Typed' /\ ClientCorrect(client)'
    <3>1. FileTyped'
      <4>1. CASE file' = file
        BY <4>1 DEF Typed, FileTyped, IsAsked, IsTable, Wishes
      <4>2. CASE file' \in Written(file, Without(file.bots, bot))
        <5>1. IsAsked(Without(file.bots, bot))
          BY AskedTables DEF Typed, FileTyped
        <5> QED
          BY <4>2, <5>1, WrittenTyped DEF Typed
      <4> QED
        BY <2>2, <4>1, <4>2 DEF StopBot, Erased
    <3>2. IsAsked(jobs') /\ IsAsked(eventBots') /\ ClientCorrect(client')
      <4>1. CASE IsRunning(bot)
        <5>1. /\ eventBots' = Without(eventBots, bot)
              /\ jobs' = jobs \/ jobs' = Without(jobs, bot)
              /\ client' = Removed(client, Running(bot).symbols)
          BY <2>2, <4>1 DEF StopBot, Stopped
        <5>2. Running(bot).symbols \in SUBSET Streams
          BY <4>1, RunningAsked DEF Typed, IsRunning
        <5> QED
          BY <5>1, <5>2, AskedTables, ClientKept DEF Typed
      <4>2. CASE ~IsRunning(bot)
        BY <2>2, <4>2 DEF StopBot, Typed
      <4> QED
        BY <4>1, <4>2
    <3> QED
      BY <2>2, <3>1, <3>2 DEF Typed, ClientCorrect, InSync, StopBot
  <2>3. ASSUME NEW bot \in Bots, UpdateSymbols(bot) PROVE Typed' /\ ClientCorrect(client)'
    <3> PICK params \in Asked[bot] :
          /\ Change(bot, [Running(bot) EXCEPT !.symbols = params.symbols])
          /\ client' = Resubscribed(bot, params.symbols)
      BY <2>3 DEF UpdateSymbols
    <3>1. /\ Running(bot) \in Params /\ Running(bot).symbols \in SUBSET Streams
          /\ IsRunning(bot)
      BY <2>3, RunningAsked DEF Typed, IsRunning, UpdateSymbols
    <3>2. params \in Params /\ params.symbols \in Wishes(bot) /\ params.symbols \in SUBSET Streams
      BY AskedParams
    <3> DEFINE changed == [Running(bot) EXCEPT !.symbols = params.symbols]
    <3>3. changed \in Params /\ changed.symbols \in Wishes(bot) /\ Change(bot, changed)
      BY <3>1, <3>2 DEF Params
    <3> HIDE DEF changed
    <3>4. ClientCorrect(client')
      <4> DEFINE removed == Removed(client, Running(bot).symbols \ params.symbols)
      <4>1. ClientCorrect(removed)
        BY <3>1, ClientKept
      <4>2. client' = Added(removed, params.symbols \ Running(bot).symbols)
        BY DEF Resubscribed
      <4> HIDE DEF removed
      <4> QED
        BY <3>2, <4>1, <4>2, ClientKept
    <3> QED
      BY <3>1, <3>3, <3>4, ChangedTyped DEF Typed, ClientCorrect, InSync
  <2>4. ASSUME NEW bot \in Bots, UpdateRisk(bot) PROVE Typed' /\ ClientCorrect(client)'
    <3> PICK params \in Asked[bot] : Change(bot, [Running(bot) EXCEPT !.risk = params.risk])
      BY <2>4 DEF UpdateRisk
    <3>1. /\ Running(bot) \in Params /\ Running(bot).symbols \in Wishes(bot)
          /\ IsRunning(bot)
      BY <2>4, RunningAsked DEF Typed, IsRunning, UpdateRisk
    <3> DEFINE changed == [Running(bot) EXCEPT !.risk = params.risk]
    <3>2. changed \in Params /\ changed.symbols \in Wishes(bot) /\ Change(bot, changed)
      BY <3>1, AskedParams DEF Params
    <3> HIDE DEF changed
    <3> QED
      BY <2>4, <3>1, <3>2, ChangedTyped DEF Typed, ClientCorrect, InSync, UpdateRisk
  <2>5. ASSUME NEW bot \in Bots, BeginFetch(bot) PROVE Typed' /\ ClientCorrect(client)'
    BY <2>5 DEF BeginFetch, Typed, FileTyped, IsAsked, IsTable, Wishes, ClientCorrect, InSync
  <2>6. ASSUME NEW bot \in Bots, EndFetch(bot) PROVE Typed' /\ ClientCorrect(client)'
    <3> PICK found \in SUBSET Symbols :
          client' = Added(client, found) /\ fetched' = fetched \cup found
      BY <2>6 DEF EndFetch
    <3>1. ClientCorrect(client')
      BY ClientKept DEF Streams
    <3>2. FileTyped' /\ IsAsked(jobs') /\ IsAsked(eventBots')
      BY <2>6 DEF EndFetch, Typed, FileTyped, IsAsked, IsTable, Wishes
    <3> QED
      BY <2>6, <3>1, <3>2 DEF EndFetch, Typed, ClientCorrect, InSync
  <2>7. CASE Panic
    BY <2>7, AskedTables
    DEF Panic, Typed, FileTyped, IsAsked, IsTable, Wishes, ClientCorrect, InSync
  <2>8. CASE Restart
    <3> PICK bots \in SUBSET DOMAIN file.bots :
          Resumed(bots) /\ file' \in Rewritten(bots)
      BY <2>8 DEF Restart
    <3> DEFINE streams == (UNION {file.bots[bot].symbols : bot \in bots}) \ Lists
    <3>1. IsAsked(jobs') /\ IsAsked(eventBots')
      BY <2>8, AskedTables DEF Resumed, Restart, Typed, FileTyped
    <3>2. streams \in SUBSET Streams
      BY DEF Typed, FileTyped, IsAsked, IsTable, Params, Streams
    <3>3. ClientCorrect(client')
      BY <3>2, ClientKept, NewClientCorrect DEF Resumed
    <3>4. FileTyped'
      BY RewrittenTyped DEF Typed
    <3> QED
      BY <2>8, <3>1, <3>3, <3>4 DEF Restart, Typed, ClientCorrect, InSync
  <2>9. CASE CrashWriting
    <3>1. IsAsked(jobs') /\ IsAsked(eventBots') /\ FileTyped'
      BY <2>9, AskedTables DEF CrashWriting, FileTyped
    <3> QED
      BY <2>9, <3>1, NewClientCorrect DEF CrashWriting, Typed, ClientCorrect, InSync
  <2>10. CASE /\ Send \/ Lose \/ Connect
              /\ UNCHANGED <<jobs, eventBots, file, halted, fetching, boots, fetched, dismissed>>
    <3>1. FileTyped' /\ IsAsked(jobs') /\ IsAsked(eventBots')
      BY <2>10 DEF Typed, FileTyped, IsAsked, IsTable, Wishes
    <3> QED
      BY <2>10, <3>1, ClientSteps DEF Typed, ClientCorrect, InSync
  <2>11. CASE UNCHANGED schedVars
    BY <2>11
    DEF schedVars, Typed, FileTyped, IsAsked, IsTable, Wishes, ClientCorrect, InSync, Settled
  <2> QED
    BY <2>1, <2>2, <2>3, <2>4, <2>5, <2>6, <2>7, <2>8, <2>9, <2>10, <2>11
    DEF Next, Step, Request
<1> QED
  BY <1>1, <1>2, PTL DEF Spec

\* The tables, the client and the file have their types: TypeOK.
THEOREM BotsTypeCorrect == SchedulerAssumption => (Spec => []TypeOK)
<1>1. Typed => TypeOK
  BY DEF Typed, TypeOK, FileTyped, IsAsked, Clients, Streams
<1> QED
  BY <1>1, TypedCorrect, PTL

\* Once all requests are sent the exchange sends what the program wants: the
\* requests are sent in the order of add_symbols and remove_symbols, and a new
\* connection begins with none waiting.
THEOREM WireMatchesCorrect == SchedulerAssumption => (Spec => []WireMatches)
<1>1. Typed /\ InSync(client) => WireMatches
  <2> SUFFICES ASSUME Typed, InSync(client), client.open, client.outbox = << >>
               PROVE  client.wire = client.subs
    BY DEF WireMatches
  <2>1. \A x \in Streams : x \in client.wire <=> x \in client.subs
    BY DEF InSync, Settled
  <2> QED
    BY <2>1 DEF Typed, Clients
<1> QED
  BY <1>1, TypedCorrect, PTL

-----------------------------------------------------------------------------
(***************************************************************************)
(* What is subscribed to and who runs. A request concerns one bot: the     *)
(* others run on as they did, and what is taken from the client for it was *)
(* asked of that bot.                                                      *)
(***************************************************************************)

Runs == DOMAIN jobs \cup DOMAIN eventBots

\* What a table holds of a bot after the operators have changed it for another.
LEMMA OthersInTables ==
  \A table, bot, params, b : b # bot =>
     /\ b \in DOMAIN With(table, bot, params) =>
          b \in DOMAIN table /\ With(table, bot, params)[b] = table[b]
     /\ b \in DOMAIN table => b \in DOMAIN With(table, bot, params)
     /\ b \in DOMAIN Without(table, bot) =>
          b \in DOMAIN table /\ Without(table, bot)[b] = table[b]
     /\ b \in DOMAIN table => b \in DOMAIN Without(table, bot)
BY DEF With, Without, Restrict

\* start_bot, stop_bot and the updates leave the other bots as they run.
LEMMA OthersRunOn ==
  ASSUME Typed, NEW bot, Request(bot), NEW b, b # bot
  PROVE  /\ b \in Runs' <=> b \in Runs
         /\ b \in Runs => Running(b)' = Running(b)
<1>1. ASSUME NEW old, NEW new,
             \/ new = old
             \/ \E params : new = With(old, bot, params)
             \/ new = Without(old, bot)
             \/ \E params : new = [old EXCEPT ![bot] = params]
      PROVE  /\ b \in DOMAIN new <=> b \in DOMAIN old
             /\ b \in DOMAIN old => new[b] = old[b]
  BY <1>1, OthersInTables
<1>2. /\ \/ jobs' = jobs
         \/ \E params : jobs' = With(jobs, bot, params)
         \/ jobs' = Without(jobs, bot)
         \/ \E params : jobs' = [jobs EXCEPT ![bot] = params]
      /\ \/ eventBots' = eventBots
         \/ \E params : eventBots' = With(eventBots, bot, params)
         \/ eventBots' = Without(eventBots, bot)
         \/ \E params : eventBots' = [eventBots EXCEPT ![bot] = params]
  BY DEF Request, StartBot, StartPolling, StartEventDriven, StopBot, Stopped, UpdateSymbols,
         UpdateRisk, Change
<1>3. /\ b \in DOMAIN jobs' <=> b \in DOMAIN jobs
      /\ b \in DOMAIN jobs => jobs'[b] = jobs[b]
  BY <1>1, <1>2
<1>4. /\ b \in DOMAIN eventBots' <=> b \in DOMAIN eventBots
      /\ b \in DOMAIN eventBots => eventBots'[b] = eventBots[b]
  BY <1>1, <1>2
<1> QED
  BY <1>3, <1>4 DEF Runs, Running

\* A bot that start_bot leaves running runs with what was asked, and its symbols are
\* subscribed to; or it ran in a scheduler that is shut down, and nothing changed for it.
LEMMA StartedRuns ==
  ASSUME SchedulerAssumption, Typed, TablesApart, NEW bot \in Bots, StartBot(bot)
  PROVE  \E params \in Asked[bot] :
           /\ client'.subs \in {client.subs, client.subs \cup (params.symbols \ Lists)}
           /\ \/ /\ Running(bot)' = params /\ bot \in Runs'
                 /\ client'.subs = client.subs \cup (params.symbols \ Lists)
              \/ halted /\ bot \in Runs /\ Running(bot)' = Running(bot)
              \/ halted /\ bot \notin Runs'
<1> PICK params \in Asked[bot] :
      IF EventDriven(params) THEN StartEventDriven(bot, params) ELSE StartPolling(bot, params)
  BY DEF StartBot
<1>0. params.symbols \ Lists \in SUBSET Streams /\ client \in Clients
  BY AskedParams DEF Typed
<1>1. CASE StartEventDriven(bot, params)
  <2>1. CASE bot \in DOMAIN eventBots
    <3>1. UNCHANGED <<eventBots, client, jobs>>
      BY <1>1, <2>1 DEF StartEventDriven
    <3> QED
      BY <2>1, <3>1 DEF StartBot, IsRunning, Runs, Running
  <2>2. CASE bot \notin DOMAIN eventBots
    <3>1. /\ eventBots' = With(eventBots, bot, params) /\ UNCHANGED jobs
          /\ client' = Added(client, params.symbols \ Lists)
      BY <1>1, <2>2 DEF StartEventDriven
    <3>2. bot \in DOMAIN eventBots' /\ eventBots'[bot] = params
      BY <3>1 DEF With
    <3> QED
      BY <1>0, <3>1, <3>2, AddedClient DEF Runs, Running
  <2> QED
    BY <2>1, <2>2
<1>2. CASE StartPolling(bot, params)
  <2>1. /\ jobs' = IF halted THEN jobs ELSE With(jobs, bot, params)
        /\ client'.subs = client.subs \cup (params.symbols \ Lists)
        /\ UNCHANGED eventBots
    BY <1>0, <1>2, AddedClient DEF StartPolling
  <2>2. CASE halted
    BY <2>1, <2>2 DEF Runs, Running
  <2>3. CASE ~halted
    <3>1. bot \notin DOMAIN eventBots
      BY <2>3 DEF StartBot, IsRunning
    <3>2. bot \in DOMAIN jobs' /\ jobs'[bot] = params
      BY <2>1, <2>3 DEF With
    <3> QED
      BY <2>1, <3>1, <3>2 DEF Runs, Running
  <2> QED
    BY <2>2, <2>3
<1> QED
  BY <1>1, <1>2

\* stop_bot takes its symbols from the client, and the bot stops.
LEMMA StoppedRuns ==
  ASSUME Typed, TablesApart, NEW bot, StopBot(bot)
  PROVE  \/ /\ bot \in Runs /\ bot \notin Runs'
            /\ client'.subs = client.subs \ Running(bot).symbols
         \/ /\ halted \/ bot \notin Runs
            /\ UNCHANGED <<jobs, eventBots, client>>
<1>1. CASE IsRunning(bot)
  <2>1. /\ eventBots' = Without(eventBots, bot)
        /\ jobs' = IF bot \in DOMAIN eventBots THEN jobs ELSE Without(jobs, bot)
        /\ client' = Removed(client, Running(bot).symbols)
    BY <1>1 DEF StopBot, Stopped
  <2>2. bot \in Runs /\ Running(bot).symbols \in SUBSET Streams
    BY <1>1, RunningAsked DEF IsRunning, Runs, Typed
  <2>3. bot \notin Runs'
    <3>1. bot \notin DOMAIN eventBots' /\ bot \notin DOMAIN Without(jobs, bot)
      BY <2>1, DomainWithout
    <3>2. bot \notin DOMAIN jobs'
      BY <2>1, <3>1 DEF TablesApart, NotTwice
    <3> QED
      BY <3>1, <3>2 DEF Runs
  <2> QED
    BY <2>1, <2>2, <2>3, RemovedClient DEF Typed
<1>2. CASE ~IsRunning(bot)
  BY <1>2 DEF StopBot, IsRunning, Runs
<1> QED
  BY <1>1, <1>2

\* update_bot_symbols drops what is no longer asked and adds what is new.
LEMMA UpdatedRuns ==
  ASSUME SchedulerAssumption, Typed, NEW bot \in Bots, UpdateSymbols(bot)
  PROVE  \E wish \in Wishes(bot) :
           /\ bot \in Runs /\ bot \in Runs' /\ Running(bot)'.symbols = wish
           /\ client'.subs = (client.subs \ (Running(bot).symbols \ wish))
                             \cup (wish \ Running(bot).symbols)
<1> PICK params \in Asked[bot] :
      /\ Change(bot, [Running(bot) EXCEPT !.symbols = params.symbols])
      /\ client' = Resubscribed(bot, params.symbols)
  BY DEF UpdateSymbols
<1>1. /\ bot \in Runs /\ Running(bot) \in Params /\ Running(bot).symbols \in SUBSET Streams
      /\ params.symbols \in SUBSET Streams /\ params.symbols \in Wishes(bot)
  BY RunningAsked, AskedParams DEF Typed, IsRunning, UpdateSymbols, Runs
<1> DEFINE changed == [Running(bot) EXCEPT !.symbols = params.symbols]
<1>2. changed.symbols = params.symbols /\ Change(bot, changed)
  BY <1>1 DEF Params
<1> HIDE DEF changed
<1>3. bot \in Runs' /\ Running(bot)' = changed
  <2>1. CASE bot \in DOMAIN eventBots
    BY <1>2, <2>1 DEF Change, Runs, Running, Typed, IsAsked, IsTable
  <2>2. CASE bot \notin DOMAIN eventBots
    BY <1>1, <1>2, <2>2 DEF Change, Runs, Running, Typed, IsAsked, IsTable
  <2> QED
    BY <2>1, <2>2
<1>4. client'.subs = (client.subs \ (Running(bot).symbols \ params.symbols))
                     \cup (params.symbols \ Running(bot).symbols)
  <2> DEFINE removed == Removed(client, Running(bot).symbols \ params.symbols)
  <2>1. /\ removed \in Clients
        /\ removed.subs = client.subs \ (Running(bot).symbols \ params.symbols)
    BY <1>1, RemovedClient DEF Typed
  <2>2. client' = Added(removed, params.symbols \ Running(bot).symbols)
    BY DEF Resubscribed
  <2> HIDE DEF removed
  <2> QED
    BY <1>1, <2>1, <2>2, AddedClient
<1> QED
  BY <1>1, <1>2, <1>3, <1>4

\* A change of the risk changes no symbols.
LEMMA RiskRuns ==
  ASSUME Typed, NEW bot, UpdateRisk(bot)
  PROVE  /\ bot \in Runs /\ bot \in Runs' /\ Running(bot)'.symbols = Running(bot).symbols
         /\ UNCHANGED client
<1> PICK params \in Asked[bot] : Change(bot, [Running(bot) EXCEPT !.risk = params.risk])
  BY DEF UpdateRisk
<1>1. bot \in Runs /\ Running(bot) \in Params
  BY RunningAsked DEF Typed, IsRunning, UpdateRisk, Runs
<1> DEFINE changed == [Running(bot) EXCEPT !.risk = params.risk]
<1>2. changed.symbols = Running(bot).symbols /\ Change(bot, changed)
  BY <1>1 DEF Params
<1> HIDE DEF changed
<1>3. bot \in Runs' /\ Running(bot)' = changed
  <2>1. CASE bot \in DOMAIN eventBots
    BY <1>2, <2>1 DEF Change, Runs, Running, Typed, IsAsked, IsTable
  <2>2. CASE bot \notin DOMAIN eventBots
    BY <1>1, <1>2, <2>2 DEF Change, Runs, Running, Typed, IsAsked, IsTable
  <2> QED
    BY <2>1, <2>2
<1> QED
  BY <1>1, <1>2, <1>3 DEF UpdateRisk

\* What is asked of one bot is not another's own.
LEMMA OwnIsOwn ==
  ASSUME NEW bot, NEW b \in Bots \ {bot}, NEW wish \in Wishes(b)
  PROVE  wish \cap Own(bot) = {}
BY DEF Own, Wishes

\* The connection, the cycles' ends and the panics leave the tables as they are.
LEMMA SameRuns ==
  ASSUME UNCHANGED <<jobs, eventBots>>
  PROVE  Runs' = Runs /\ \A bot : Running(bot)' = Running(bot)
BY DEF Runs, Running

\* A running bot's own symbols are subscribed to: only the bot itself takes them
\* from the client, as it stops or drops them (remove_symbols does not ask who else
\* wants a stream).
THEOREM FedCorrect == SchedulerAssumption => (Spec => []Fed)
<1> SUFFICES ASSUME SchedulerAssumption PROVE Spec => []Fed
  OBVIOUS
<1>1. Init => Fed
  BY DomainNoBots DEF Init, Fed
<1>2. Typed /\ InSync(client) /\ TablesApart /\ Fed /\ [Next]_schedVars => Fed'
  <2> SUFFICES ASSUME Typed, InSync(client), TablesApart, Fed, [Next]_schedVars,
                      NEW b \in Runs'
               PROVE  Running(b)'.symbols \cap Own(b) \subseteq client'.subs
    BY DEF Fed, Runs
  <2>0. b \in Runs => Running(b).symbols \cap Own(b) \subseteq client.subs
    BY DEF Fed, Runs
  <2>1. ASSUME NEW bot \in Bots, Request(bot), b # bot
        PROVE  Running(b)'.symbols \cap Own(b) \subseteq client'.subs
    <3>1. b \in Runs /\ Running(b)' = Running(b)
      BY <2>1, OthersRunOn
    <3>2. \A wish \in Wishes(bot) : wish \cap Own(b) = {}
      BY <2>1, OwnIsOwn
    <3>3. bot \in Runs => Running(bot).symbols \in Wishes(bot)
      BY RunningAsked DEF Typed, Runs
    <3>4. CASE StartBot(bot)
      BY <2>0, <2>1, <3>1, <3>4, StartedRuns
    <3>5. CASE StopBot(bot)
      BY <2>0, <3>1, <3>2, <3>3, <3>5, StoppedRuns
    <3>6. CASE UpdateSymbols(bot)
      BY <2>0, <2>1, <3>1, <3>2, <3>3, <3>6, UpdatedRuns
    <3>7. CASE UpdateRisk(bot)
      BY <2>0, <3>1, <3>7, RiskRuns
    <3> QED
      BY <2>1, <3>4, <3>5, <3>6, <3>7 DEF Request
  <2>2. ASSUME b \in Bots, StartBot(b)
        PROVE  Running(b)'.symbols \cap Own(b) \subseteq client'.subs
    <3>1. Own(b) \cap Lists = {}
      BY DEF Own, SchedulerAssumption
    <3> PICK params \in Asked[b] :
           /\ client'.subs \in {client.subs, client.subs \cup (params.symbols \ Lists)}
           /\ \/ /\ Running(b)' = params /\ b \in Runs'
                 /\ client'.subs = client.subs \cup (params.symbols \ Lists)
              \/ halted /\ b \in Runs /\ Running(b)' = Running(b)
              \/ halted /\ b \notin Runs'
      BY <2>2, StartedRuns
    <3> QED
      BY <2>0, <3>1
  <2>3. ASSUME b \in Bots, StopBot(b)
        PROVE  Running(b)'.symbols \cap Own(b) \subseteq client'.subs
    <3>1. UNCHANGED <<jobs, eventBots, client>>
      BY <2>3, StoppedRuns
    <3>2. Runs' = Runs /\ Running(b)' = Running(b)
      BY <3>1, SameRuns
    <3> QED
      BY <2>0, <3>1, <3>2
  <2>4. ASSUME b \in Bots, UpdateSymbols(b)
        PROVE  Running(b)'.symbols \cap Own(b) \subseteq client'.subs
    BY <2>0, <2>4, UpdatedRuns
  <2>5. ASSUME b \in Bots, UpdateRisk(b)
        PROVE  Running(b)'.symbols \cap Own(b) \subseteq client'.subs
    BY <2>0, <2>5, RiskRuns
  <2>6. ASSUME NEW bot \in Bots, EndFetch(bot)
        PROVE  Running(b)'.symbols \cap Own(b) \subseteq client'.subs
    <3> PICK found \in SUBSET Symbols : client' = Added(client, found)
      BY <2>6 DEF EndFetch
    <3>1. client'.subs = client.subs \cup found
      BY AddedClient DEF Typed, Streams
    <3> QED
      BY <2>0, <2>6, <3>1, SameRuns DEF EndFetch
  <2>7. CASE Panic
    <3>1. b \in DOMAIN eventBots /\ UNCHANGED <<eventBots, client>>
      BY <2>7, DomainNoBots DEF Panic, Runs
    <3> QED
      BY <2>0, <3>1 DEF Runs, Running
  <2>8. CASE Restart
    <3> PICK bots \in SUBSET DOMAIN file.bots : Resumed(bots)
      BY <2>8 DEF Restart
    <3> DEFINE streams == (UNION {file.bots[bot].symbols : bot \in bots}) \ Lists
    <3>1. streams \in SUBSET Streams /\ NewClient \in Clients
      BY NewClientCorrect
      DEF Typed, FileTyped, IsAsked, IsTable, Params, Streams, ClientCorrect
    <3>2. client'.subs = streams
      BY <3>1, AddedClient DEF Resumed, NewClient
    <3>3. b \in bots /\ Running(b)' = file.bots[b]
      BY <2>8, DomainNoBots DEF Restart, Resumed, Restrict, Runs, Running
    <3>4. Own(b) \cap Lists = {}
      BY DEF Own, SchedulerAssumption
    <3> QED
      BY <3>2, <3>3, <3>4
  <2>9. CASE CrashWriting
    BY <2>9, DomainNoBots DEF CrashWriting, Runs
  <2>10. CASE (Send \/ Lose \/ Connect) /\ UNCHANGED <<jobs, eventBots>>
    <3>1. client'.subs = client.subs
      BY <2>10, ClientSteps DEF Typed
    <3> QED
      BY <2>0, <2>10, <3>1, SameRuns
  <2>11. CASE UNCHANGED <<jobs, eventBots, client>>
    BY <2>0, <2>11, SameRuns
  <2> QED
    BY <2>1, <2>2, <2>3, <2>4, <2>5, <2>6, <2>7, <2>8, <2>9, <2>10, <2>11
    DEF Next, Step, Request, schedVars, BeginFetch
<1> QED
  BY <1>1, <1>2, TypedCorrect, TablesApartCorrect, PTL DEF Spec

\* Stops and updates leave nothing behind in the client: what is subscribed to is
\* wanted by a running bot or came from a market list.
THEOREM NoLeftoversCorrect == SchedulerAssumption => (Spec => []NoLeftovers)
<1> SUFFICES ASSUME SchedulerAssumption PROVE Spec => []NoLeftovers
  OBVIOUS
<1>1. Init => NoLeftovers
  BY DEF Init, NoLeftovers, NewClient
<1>2. Typed /\ InSync(client) /\ TablesApart /\ NoLeftovers /\ [Next]_schedVars => NoLeftovers'
  <2> SUFFICES ASSUME Typed, InSync(client), TablesApart, NoLeftovers, [Next]_schedVars,
                      ~halted', NEW x \in client'.subs, x \notin fetched'
               PROVE  \E b \in Runs' : x \in Running(b)'.symbols
    BY DEF NoLeftovers, Wanted, Runs
  <2>0. ~halted /\ x \in client.subs /\ x \notin fetched =>
          \E b \in Runs : x \in Running(b).symbols
    BY DEF NoLeftovers, Wanted, Runs
  <2>1. ASSUME NEW bot \in Bots, Request(bot)
        PROVE  \E b \in Runs' : x \in Running(b)'.symbols
    <3>1. ~halted /\ x \notin fetched
      BY <2>1 DEF Request, StartBot, StopBot, UpdateSymbols, UpdateRisk, Change
    <3>2. ASSUME NEW b \in Runs, x \in Running(b).symbols, b # bot
          PROVE  \E c \in Runs' : x \in Running(c)'.symbols
      BY <2>1, <3>2, OthersRunOn
    <3>3. CASE StartBot(bot)
      <4>1. bot \notin Runs
        BY <3>1, <3>3 DEF StartBot, IsRunning, Runs
      <4> QED
        BY <2>0, <3>1, <3>2, <3>3, <4>1, StartedRuns
    <3>4. CASE StopBot(bot)
      <4>1. x \in client.subs /\ (bot \in Runs => x \notin Running(bot).symbols)
        BY <3>1, <3>4, StoppedRuns
      <4> QED
        BY <2>0, <3>1, <3>2, <4>1
    <3>5. CASE UpdateSymbols(bot)
      <4> PICK wish \in Wishes(bot) :
            /\ bot \in Runs' /\ Running(bot)'.symbols = wish
            /\ client'.subs = (client.subs \ (Running(bot).symbols \ wish))
                              \cup (wish \ Running(bot).symbols)
        BY <3>5, UpdatedRuns
      <4>1. x \in wish \/ (x \in client.subs /\ x \notin Running(bot).symbols)
        OBVIOUS
      <4> QED
        BY <2>0, <3>1, <3>2, <4>1
    <3>6. CASE UpdateRisk(bot)
      BY <2>0, <3>1, <3>2, <3>6, RiskRuns
    <3> QED
      BY <2>1, <3>3, <3>4, <3>5, <3>6 DEF Request
  <2>2. ASSUME NEW bot \in Bots, EndFetch(bot)
        PROVE  \E b \in Runs' : x \in Running(b)'.symbols
    <3> PICK found \in SUBSET Symbols :
          client' = Added(client, found) /\ fetched' = fetched \cup found
      BY <2>2 DEF EndFetch
    <3>1. client'.subs = client.subs \cup found
      BY AddedClient DEF Typed, Streams
    <3> QED
      BY <2>0, <2>2, <3>1, SameRuns DEF EndFetch
  <2>3. CASE Restart
    <3> PICK bots \in SUBSET DOMAIN file.bots : Resumed(bots)
      BY <2>3 DEF Restart
    <3> DEFINE streams == (UNION {file.bots[bot].symbols : bot \in bots}) \ Lists
    <3>1. streams \in SUBSET Streams /\ NewClient \in Clients
      BY NewClientCorrect
      DEF Typed, FileTyped, IsAsked, IsTable, Params, Streams, ClientCorrect
    <3>2. client'.subs = streams
      BY <3>1, AddedClient DEF Resumed, NewClient
    <3>3. PICK bot \in bots : x \in file.bots[bot].symbols
      BY <3>2
    <3>4. bot \in Runs' /\ Running(bot)' = file.bots[bot]
      BY <2>3, DomainNoBots DEF Restart, Resumed, Restrict, Runs, Running
    <3> QED
      BY <3>3, <3>4
  <2>4. CASE CrashWriting
    BY <2>4 DEF CrashWriting, NewClient
  <2>5. CASE /\ Send \/ Lose \/ Connect
             /\ UNCHANGED <<jobs, eventBots, halted, fetched>>
    <3>1. client'.subs = client.subs
      BY <2>5, ClientSteps DEF Typed
    <3> QED
      BY <2>0, <2>5, <3>1, SameRuns
  <2>6. CASE UNCHANGED <<jobs, eventBots, client, halted, fetched>>
    BY <2>0, <2>6, SameRuns
  <2> QED
    BY <2>1, <2>2, <2>3, <2>4, <2>5, <2>6
    DEF Next, Step, schedVars, BeginFetch, Panic
<1> QED
  BY <1>1, <1>2, TypedCorrect, TablesApartCorrect, PTL DEF Spec

-----------------------------------------------------------------------------
(* The scheduler keeps the register of polling bots. *)

\* A bot that is not in a table cannot be taken out of it.
LEMMA NothingToDrop ==
  ASSUME NEW table, IsTable(table), NEW bot, bot \notin DOMAIN table
  PROVE  Without(table, bot) = table
<1>1. table = [b \in DOMAIN table |-> table[b]]
  BY DEF IsTable
<1>2. DOMAIN table \ {bot} = DOMAIN table
  OBVIOUS
<1> QED BY <1>1, <1>2 DEF Without, Restrict

\* What a step of the program does to the register, as long as nothing fails.
LEMMA RegisterStep ==
  ASSUME TypeOK, TablesApart, failing = {}, [Next]_schedVars
  PROVE  [Register!Next]_(Register!registerVars)
<1>0. IsTable(jobs) /\ IsTable(file.bots) /\ file.readable \in BOOLEAN
  BY DEF TypeOK
<1>1. ASSUME NEW old, NEW bots, NEW new \in Written(old, bots)
      PROVE  new.bots = bots
  BY <1>1, WrittenThrough
<1>2. ASSUME NEW bot \in Bots, StartBot(bot)
      PROVE  [Register!Next]_(Register!registerVars)
  <2>1. PICK params \in Asked[bot] :
          IF EventDriven(params) THEN StartEventDriven(bot, params) ELSE StartPolling(bot, params)
    BY <1>2 DEF StartBot
  <2>2. CASE StartEventDriven(bot, params)
    BY <1>2, <2>2 DEF StartEventDriven, StartBot, Register!registerVars
  <2>3. CASE StartPolling(bot, params)
    <3>1. bot \notin DOMAIN jobs
      BY <1>2 DEF StartBot, IsRunning, TablesApart
    <3>2. file'.bots = With(file.bots, bot, params)
      BY <1>1, <2>3 DEF StartPolling, Saved
    <3>3. jobs' = IF ~halted THEN With(jobs, bot, params) ELSE jobs
      BY <2>3 DEF StartPolling
    <3>4. halted' = halted
      BY <1>2 DEF StartBot
    <3>5. Register!Start(bot)
      BY <3>1, <3>2, <3>3, <3>4 DEF Register!Start, Register!Put, With
    <3> QED BY <3>5 DEF Register!Next
  <2> QED BY <2>1, <2>2, <2>3
<1>3. ASSUME NEW bot \in Bots, StopBot(bot)
      PROVE  [Register!Next]_(Register!registerVars)
  <2>1. file'.bots = Without(file.bots, bot)
    <3>1. CASE bot \in DOMAIN file.bots
      BY <1>1, <1>3, <3>1 DEF StopBot, Erased
    <3>2. CASE bot \notin DOMAIN file.bots
      BY <1>0, <1>3, <3>2, NothingToDrop DEF StopBot, Erased
    <3> QED BY <3>1, <3>2
  <2>2. jobs' = Without(jobs, bot)
    <3>1. CASE IsRunning(bot) /\ bot \notin DOMAIN eventBots
      BY <1>3, <3>1 DEF StopBot, Stopped
    <3>2. CASE ~(IsRunning(bot) /\ bot \notin DOMAIN eventBots)
      <4>1. UNCHANGED jobs
        BY <1>3, <3>2 DEF StopBot, Stopped
      <4>2. bot \notin DOMAIN jobs
        BY <3>2 DEF IsRunning, TablesApart, NotTwice
      <4> QED BY <1>0, <4>1, <4>2, NothingToDrop
    <3> QED BY <3>1, <3>2
  <2>3. halted' = halted
    BY <1>3 DEF StopBot
  <2>4. Register!Stop(bot)
    BY <2>1, <2>2, <2>3 DEF Register!Stop, Register!Drop, Register!Restrict, Without, Restrict
  <2> QED BY <2>4 DEF Register!Next
<1>4. ASSUME NEW bot \in Bots, UpdateSymbols(bot) \/ UpdateRisk(bot)
      PROVE  [Register!Next]_(Register!registerVars)
  <2>1. UNCHANGED <<file, halted>>
    BY <1>4, Changed
  <2>2. CASE bot \in DOMAIN eventBots
    <3>1. UNCHANGED jobs
      BY <1>4, <2>2 DEF UpdateSymbols, UpdateRisk, Change
    <3> QED BY <2>1, <3>1 DEF Register!registerVars
  <2>3. CASE bot \notin DOMAIN eventBots
    <3>1. bot \in DOMAIN jobs /\ Running(bot) = jobs[bot]
      BY <1>4, <2>3 DEF UpdateSymbols, UpdateRisk, IsRunning, Running
    <3>2. \E params \in Asked[bot] :
            \/ jobs' = [jobs EXCEPT ![bot] = [jobs[bot] EXCEPT !.symbols = params.symbols]]
            \/ jobs' = [jobs EXCEPT ![bot] = [jobs[bot] EXCEPT !.risk = params.risk]]
      BY <1>4, <2>3, <3>1 DEF UpdateSymbols, UpdateRisk, Change
    <3>3. Register!Change(bot)
      BY <2>1, <3>1, <3>2 DEF Register!Change
    <3> QED BY <3>3 DEF Register!Next
  <2> QED BY <2>2, <2>3
<1>5. CASE Panic
  <2>1. Register!ShutDown
    BY <1>5 DEF Panic, Register!ShutDown, Register!Nobody, NoBots
  <2> QED BY <2>1 DEF Register!Next
<1>6. CASE Restart
  <2>1. Resumed(DOMAIN file.bots) /\ halted' = FALSE /\ UNCHANGED file
    BY <1>6 DEF Restart, Rewritten
  <2>2. file.bots = [bot \in DOMAIN file.bots |-> file.bots[bot]]
    BY <1>0 DEF IsTable
  <2>3. jobs' = file.bots
    BY <2>1, <2>2 DEF Resumed, Restrict
  <2>4. Register!Boot
    BY <2>1, <2>3 DEF Register!Boot
  <2> QED BY <2>4 DEF Register!Next
<1>7. ~CrashWriting
  BY DEF CrashWriting
<1>8. CASE UNCHANGED <<jobs, file, halted>>
  BY <1>8 DEF Register!registerVars
<1> QED
  BY <1>2, <1>3, <1>4, <1>5, <1>6, <1>7, <1>8
     DEF Next, Step, Request, BeginFetch, EndFetch, schedVars

\* Every step that nothing makes fail is one of the register of polling bots or does not
\* show there: the file has the bots that run, and a restart brings them back as they were
\* started.
THEOREM RegisterCorrect == Spec => KeepsTheRegister
<1>1. TypeOK /\ TablesApart /\ [Next]_schedVars =>
        [failing = {} => [Register!Next]_(Register!registerVars)]_schedVars
  BY RegisterStep
<1>2. Spec => []TypeOK
  BY BotsTypeCorrect, SchedulerAssumption
<1> QED
  BY <1>1, <1>2, TablesApartCorrect, PTL DEF Spec, KeepsTheRegister

\* Where nothing fails at all, the scheduler implements the register.
THEOREM RegisterImplemented ==
  ASSUME Failures = {{}}
  PROVE  Spec => Register!Spec
<1>1. Init => Register!Init /\ failing = {}
  BY DEF Init, Register!Init, Register!Nobody, NoBots
<1>2. failing = {} /\ [Next]_schedVars => (failing = {})'
  BY DEF Next, schedVars
<1>3. TypeOK /\ TablesApart /\ failing = {} /\ [Next]_schedVars =>
        [Register!Next]_(Register!registerVars)
  BY RegisterStep
<1>4. Spec => []TypeOK
  BY BotsTypeCorrect, SchedulerAssumption
<1> QED
  BY <1>1, <1>2, <1>3, <1>4, TablesApartCorrect, PTL DEF Spec, Register!Spec
=============================================================================
