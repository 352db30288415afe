------------------------------- MODULE Telemetry -------------------------------
(***************************************************************************)
(* Live telemetry: from the nodes' connections to the browsers' streams.   *)
(*                                                                         *)
(* A handler that hears of a node publishes an event: under the hub's      *)
(* mutex it offers it to one subscriber after the other, in no particular  *)
(* order.  Each has a channel with room for one event; what is in it when  *)
(* the next event comes is replaced.  A stream takes events out of its     *)
(* channel and writes them to the browser, which may be slow or gone, and  *)
(* the stream of an administrator looks from time to time whether the      *)
(* session is still there.                                                 *)
(*                                                                         *)
(* Events are numbered as they are published; what they say is left out.   *)
(***************************************************************************)
EXTENDS Integers

CONSTANTS
  Publishers,    \* handlers of nodes' connections
  Streams,       \* handlers of browsers' streams
  PublicStreams, \* those of them that need no session
  Nobody,        \* no publisher, no stream
  MaxEvents,     \* bound on events
  MaxStreams     \* bound on how often streams are opened

ASSUME TelemetryAssumption ==
  /\ PublicStreams \subseteq Streams
  /\ Nobody \notin Publishers \cup Streams
  /\ MaxEvents \in Nat /\ MaxStreams \in Nat

VARIABLES
  hubMu,      \* the publisher that has the hub's mutex
  published,  \* how many events were published
  round,      \* per publisher: its event, the subscribers it has yet to come to, the
              \* one it is at, and which of its attempts there
  subscribed, \* the subscribers the hub knows
  channel,    \* per stream: the event in its channel, 0 if none
  closed,     \* the streams whose channel is closed
  stream,     \* per stream: where its handler is
  writing,    \* per stream: the event it is writing, 0 if none
  written,    \* per stream: the last event the browser got, 0 if none
  joined,     \* per stream: how many events had been published when it subscribed
  valid,      \* the streams whose session is good
  opened

streamVars == <<subscribed, channel, closed, stream, writing, written, joined, valid, opened>>
telemetryVars == <<hubMu, published, round, streamVars>>

Round(event, ahead, to, try) == [event |-> event, ahead |-> ahead, to |-> to, try |-> try]
Resting == Round(0, {}, Nobody, 0)

TelemetryInit ==
  /\ hubMu = Nobody /\ published = 0
  /\ round = [p \in Publishers |-> Resting]
  /\ subscribed = {} /\ closed = {} /\ valid = {}
  /\ channel = [s \in Streams |-> 0] /\ stream = [s \in Streams |-> "none"]
  /\ writing = [s \in Streams |-> 0] /\ written = [s \in Streams |-> 0]
  /\ joined = [s \in Streams |-> 0]
  /\ opened = 0

-----------------------------------------------------------------------------
(* telemetryHub.Publish.                                                   *)

\* Mutant of Publish: publishers do not wait for one another.
PublishMutant(p) ==
  /\ round[p] = Resting
  /\ published < MaxEvents /\ published' = published + 1
  /\ hubMu' = p
  /\ round' = [round EXCEPT ![p] = Round(published', subscribed, Nobody, 0)]
  /\ UNCHANGED streamVars

\* A heartbeat or a telemetry message came, and the mutex is free.
Publish(p) ==
  /\ hubMu = Nobody /\ hubMu' = p
  /\ round[p] = Resting
  /\ published < MaxEvents /\ published' = published + 1
  /\ round' = [round EXCEPT ![p] = Round(published', subscribed, Nobody, 0)]
  /\ UNCHANGED streamVars

\* The next subscriber.
Visit(p, s) ==
  /\ round[p].to = Nobody /\ s \in round[p].ahead
  /\ round' = [round EXCEPT ![p].ahead = @ \ {s}, ![p].to = s, ![p].try = 1]
  /\ UNCHANGED <<hubMu, published, streamVars>>

\* The attempt that comes next at this subscriber, 0 if there is none.
Attempt(p, n) ==
  round' = [round EXCEPT ![p].try = n, ![p].to = IF n = 0 THEN Nobody ELSE @]

\* The event is put into the channel, if there is room.
Put(p) ==
  /\ channel[round[p].to] = 0
  /\ channel' = [channel EXCEPT ![round[p].to] = round[p].event]
  /\ Attempt(p, 0)

\* Mutant of Offer: a channel that is full stays as it is.
OfferMutant(p) ==
  /\ round[p].try = 1
  /\ \/ Put(p)
     \/ /\ channel[round[p].to] # 0
        /\ Attempt(p, 0) /\ UNCHANGED channel
  /\ UNCHANGED <<hubMu, published, subscribed, closed, stream, writing, written, joined, valid, opened>>

\* Three selects with a default each: send, or receive what is queued and send.  The
\* stream may take what is queued at any time.
Offer(p) ==
  /\ round[p].try # 0
  /\ \/ round[p].try \in {1, 3} /\ Put(p)
     \/ /\ round[p].try \in {1, 3} /\ channel[round[p].to] # 0
        /\ Attempt(p, IF round[p].try = 1 THEN 2 ELSE 0)
        /\ UNCHANGED channel
     \/ /\ round[p].try = 2 /\ Attempt(p, 3)
        /\ channel' = [channel EXCEPT ![round[p].to] = 0]
  /\ UNCHANGED <<hubMu, published, subscribed, closed, stream, writing, written, joined, valid, opened>>

EndRound(p) ==
  /\ round[p].event # 0 /\ round[p].to = Nobody /\ round[p].ahead = {}
  /\ round' = [round EXCEPT ![p] = Resting]
  /\ hubMu' = Nobody
  /\ UNCHANGED <<published, streamVars>>

-----------------------------------------------------------------------------
(* serveTelemetryStream.                                                   *)

At(s, label) == stream' = [stream EXCEPT ![s] = label]

\* Subscribe makes a channel; the browser is told that it is connected.
Subscribe(s) ==
  /\ stream[s] = "none" /\ At(s, "writing")
  /\ opened < MaxStreams /\ opened' = opened + 1
  /\ hubMu = Nobody
  /\ subscribed' = subscribed \cup {s} /\ closed' = closed \ {s}
  /\ channel' = [channel EXCEPT ![s] = 0]
  /\ written' = [written EXCEPT ![s] = 0]
  /\ joined' = [joined EXCEPT ![s] = published]
  /\ valid' = valid \cup {s}
  /\ UNCHANGED <<hubMu, published, round, writing>>

Take(s) ==
  /\ stream[s] = "waiting" /\ channel[s] # 0
  /\ At(s, "writing")
  /\ writing' = [writing EXCEPT ![s] = channel[s]]
  /\ channel' = [channel EXCEPT ![s] = 0]
  /\ UNCHANGED <<hubMu, published, round, subscribed, closed, written, joined, valid, opened>>

Keepalive(s) ==
  /\ stream[s] = "waiting" /\ At(s, "writing")
  /\ UNCHANGED <<hubMu, published, round, subscribed, channel, closed, writing, written, joined, valid, opened>>

Write(s) ==
  /\ stream[s] = "writing" /\ At(s, "waiting")
  /\ written' = [written EXCEPT ![s] = IF writing[s] = 0 THEN @ ELSE writing[s]]
  /\ writing' = [writing EXCEPT ![s] = 0]
  /\ UNCHANGED <<hubMu, published, round, subscribed, channel, closed, joined, valid, opened>>

\* The browser is gone, whether it is being written to or not.
Gone(s) ==
  /\ stream[s] \in {"waiting", "writing"} /\ At(s, "leaving")
  /\ writing' = [writing EXCEPT ![s] = 0]
  /\ UNCHANGED <<hubMu, published, round, subscribed, channel, closed, written, joined, valid, opened>>

\* The tick of the session check comes, and there is no such session any more.
CheckSession(s) ==
  /\ stream[s] = "waiting" /\ s \notin PublicStreams
  /\ s \notin valid
  /\ At(s, "leaving")
  /\ UNCHANGED <<hubMu, published, round, subscribed, channel, closed, writing, written, joined, valid, opened>>

\* Mutant of Unsubscribe: the channel is closed without the hub's mutex.
UnsubscribeMutant(s) ==
  /\ stream[s] = "leaving" /\ At(s, "none")
  /\ subscribed' = subscribed \ {s}
  /\ closed' = closed \cup {s}
  /\ UNCHANGED <<hubMu, published, round, channel, writing, written, joined, valid, opened>>

\* The deferred unsubscribe.
Unsubscribe(s) ==
  /\ stream[s] = "leaving" /\ At(s, "none")
  /\ hubMu = Nobody
  /\ subscribed' = subscribed \ {s}
  /\ closed' = closed \cup {s}
  /\ UNCHANGED <<hubMu, published, round, channel, writing, written, joined, valid, opened>>

\* The administrator logs out, or the session expires.
SessionEnds(s) ==
  /\ s \in valid \ PublicStreams
  /\ valid' = valid \ {s}
  /\ UNCHANGED <<hubMu, published, round, subscribed, channel, closed, stream, writing, written, joined, opened>>

-----------------------------------------------------------------------------
TelemetryNext ==
  \/ \E p \in Publishers :
       \/ Publish(p) \/ Offer(p) \/ EndRound(p)
       \/ \E s \in Streams : Visit(p, s)
  \/ \E s \in Streams :
       \/ Subscribe(s) \/ Take(s) \/ Keepalive(s) \/ Write(s) \/ Gone(s)
       \/ CheckSession(s) \/ Unsubscribe(s) \/ SessionEnds(s)

TelemetrySpec == TelemetryInit /\ [][TelemetryNext]_telemetryVars
-----------------------------------------------------------------------------
(* Properties.                                                             *)

Events == 0 .. MaxEvents

\* Every variable of live telemetry holds a value of its type.
TelemetryTypeOK ==
  /\ hubMu \in Publishers \cup {Nobody} /\ published \in Events
  /\ round \in [Publishers -> [event : Events, ahead : SUBSET Streams,
                               to : Streams \cup {Nobody}, try : 0 .. 3]]
  /\ subscribed \subseteq Streams /\ closed \subseteq Streams /\ valid \subseteq Streams
  /\ channel \in [Streams -> Events]
  /\ stream \in [Streams -> {"none", "waiting", "writing", "leaving"}]
  /\ writing \in [Streams -> Events] /\ written \in [Streams -> Events]
  /\ joined \in [Streams -> Events] /\ opened \in 0 .. MaxStreams

\* No publisher has to come to this subscriber with its event.
Offered(s) == \A p \in Publishers : s \notin round[p].ahead \cup {round[p].to}

\* "so a slow browser receives the newest state" (telemetry.go:72): the event that was
\* published last is in the channel of every stream, or on its way to the browser, or
\* there; what is given up for it is older.
NewestIsNotLost ==
  \A s \in subscribed :
    stream[s] # "leaving" /\ Offered(s) =>
      published \in {joined[s], channel[s], writing[s], written[s]}

\* A browser gets events in the order they were published in (telemetry.go:64).
NeverBackwards ==
  [][\A s \in Streams : written'[s] # 0 => written'[s] >= written[s]]_telemetryVars

\* A publisher never sends to a channel that is closed, which would end the
\* controller (telemetry.go:42-49).
NoSendToClosed == \A p \in Publishers : round[p].to \notin closed
================================================================================
