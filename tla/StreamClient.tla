---------------------------- MODULE StreamClient ----------------------------
(***************************************************************************)
(* The websocket client (BinanceWebsocketClient): the streams the program  *)
(* wants, and those the exchange sends on the present connection. Requests *)
(* are sent by tasks of the event loop, so there are some between the two. *)
(* The requests of one call for several symbols are taken as one.          *)
(***************************************************************************)
EXTENDS Sequences

VARIABLE client  \* open, subs (_subscriptions), outbox (tasks), wire (what the exchange sends)

NewClient == [open |-> FALSE, subs |-> {}, outbox |-> << >>, wire |-> {}]

Payload(method, streams) == [method |-> method, streams |-> streams]

\* cl after it is asked for a payload: a task sends it, if the connection is open.
Posted(cl, payload) ==
  IF cl.open /\ payload.streams # {}
  THEN [cl EXCEPT !.outbox = Append(@, payload)]
  ELSE cl

Added(cl, streams) ==
  LET new == streams \ cl.subs
  IN  Posted([cl EXCEPT !.subs = @ \cup new], Payload("SUBSCRIBE", new))

Removed(cl, streams) ==
  LET gone == streams \cap cl.subs
  IN  Posted([cl EXCEPT !.subs = @ \ gone], Payload("UNSUBSCRIBE", gone))

\* Connected, it asks for all of its subscriptions. It waits a second at least
\* before it tries again: all the tasks have run by then.
ConnectSilently ==  \* mutant: a new connection is asked for nothing
  /\ ~client.open
  /\ client.outbox = << >>
  /\ client' = [client EXCEPT !.open = TRUE]

Connect ==
  /\ ~client.open
  /\ client.outbox = << >>
  /\ client' = [client EXCEPT !.open = TRUE, !.wire = client.subs]

\* The next task sends its payload, or gives up on a closed connection.
Send ==
  /\ client.outbox # << >>
  /\ LET payload == Head(client.outbox)
         rest == [client EXCEPT !.outbox = Tail(@)]
     IN  client' =
           IF ~client.open THEN rest
           ELSE IF payload.method = "SUBSCRIBE"
                THEN [rest EXCEPT !.wire = @ \cup payload.streams]
                ELSE [rest EXCEPT !.wire = @ \ payload.streams]

\* ConnectionClosed, or any other exception out of the receiving loop.
Lose ==
  /\ client.open
  /\ client' = [client EXCEPT !.open = FALSE, !.wire = {}]
=============================================================================
