-------------------------------- MODULE Outbox --------------------------------
(***************************************************************************)
(* Notification channels and the outbox.                                   *)
(*                                                                         *)
(* An event is queued in the outbox for some channels or for all.  Every   *)
(* 15 seconds one replica, under the housekeeping lock, takes the oldest   *)
(* unpublished events and delivers each to the channels that are enabled   *)
(* then; if one of them fails the event is tried again, for all of them,   *)
(* up to five times.  A channel's secret (its URL) is kept in the secret   *)
(* store, written before the row and removed after it.                     *)
(*                                                                         *)
(* Abstracted: names, types and configurations of channels (a channel has  *)
(* a secret or not), the text of events.                                   *)
(***************************************************************************)
EXTENDS Integers, FiniteSets

CONSTANTS
  Channels,     \* channel ids
  Sealed,       \* the channels whose configuration holds a secret
  Events,       \* outbox ids, in the order of created_at
  Addressees,   \* whom events are for, {} being all
  Batch,        \* the limit of ListUnpublished
  MaxAttempts,  \* deliveries are given up after so many
  MaxRequests,  \* bound: requests at once
  MaxTroubles   \* bound: deaths, lost statements

ASSUME OutboxAssumption ==
  /\ Sealed \subseteq Channels /\ Addressees \subseteq SUBSET Channels
  /\ Events \subseteq Nat \ {0} /\ IsFiniteSet(Events)
  /\ Batch \in Nat \ {0} /\ MaxAttempts \in Nat \ {0} /\ MaxRequests \in Nat /\ MaxTroubles \in Nat

VARIABLES
  channel,  \* the notification_channels table
  secret,   \* the channels that have an entry in the secret store
  request,  \* requests between their two statements
  outbox,   \* the outbox table
  rows,     \* the events the pass has listed and not yet taken
  row,      \* the one it delivers: the channels to go, and whether all is well
  heard,    \* how often each event has reached each channel
  owed,     \* the channels of an event that have been enabled ever since
  troubles

outboxVars == <<channel, secret, request, outbox, rows, row, heard, owed, troubles>>

NoEvent  == [status |-> "none", to |-> {}, attempts |-> 0]
NoEventRow == [event |-> 0, left |-> {}, ok |-> TRUE]

Request == [do : {"insert", "update", "unseal"}, channel : Channels, on : BOOLEAN]

On(c) == channel[c] = "on"

OutboxInit ==
  /\ channel = [c \in Channels |-> "none"]
  /\ secret = {} /\ request = {}
  /\ outbox = [e \in Events |-> NoEvent]
  /\ rows = {} /\ row = NoEventRow
  /\ heard = [e \in Events |-> [c \in Channels |-> 0]]
  /\ owed = [e \in Events |-> {}]
  /\ troubles = 0

---------------------------------------------------------------------------
(* Channels *)

Write(c, status) ==
  /\ channel' = [channel EXCEPT ![c] = status]
  /\ owed' = IF status = "on" THEN owed ELSE [e \in Events |-> owed[e] \ {c}]

Switch(on) == IF on THEN "on" ELSE "off"

\* seal
Seal(c) == secret' = IF c \in Sealed THEN secret \cup {c} ELSE secret

Later(do, c, on) ==
  /\ Cardinality(request) < MaxRequests
  /\ request' = request \cup {[do |-> do, channel |-> c, on |-> on]}

\* The id is a new one.
CreateChannel(c, on) ==
  /\ channel[c] = "none" /\ \A q \in request : q.channel # c
  /\ Seal(c) /\ Later("insert", c, on)
  /\ UNCHANGED <<channel, outbox, rows, row, heard, owed, troubles>>

UpdateChannel(c, on) ==
  /\ channel[c] \in {"on", "off"}
  /\ Seal(c) /\ Later("update", c, on)
  /\ UNCHANGED <<channel, outbox, rows, row, heard, owed, troubles>>

DeleteChannel(c) ==
  /\ channel[c] \in {"on", "off"}
  /\ Write(c, "deleted")
  /\ request' = request \cup {[do |-> "unseal", channel |-> c, on |-> FALSE]}
  /\ UNCHANGED <<secret, outbox, rows, row, heard, troubles>>

\* The second statement: an update finds no row if it was deleted meanwhile.
FinishRequest(q) ==
  /\ q \in request
  /\ request' = request \ {q}
  /\ IF q.do = "unseal"
       THEN secret' = secret \ {q.channel} /\ UNCHANGED <<channel, owed>>
       ELSE /\ IF q.do = "insert" \/ channel[q.channel] # "deleted"
                 THEN Write(q.channel, Switch(q.on)) ELSE UNCHANGED <<channel, owed>>
            /\ UNCHANGED secret
  /\ UNCHANGED <<outbox, rows, row, heard, troubles>>

RequestLost(q) ==
  /\ q \in request /\ troubles < MaxTroubles
  /\ request' = request \ {q}
  /\ troubles' = troubles + 1
  /\ UNCHANGED <<channel, secret, outbox, rows, row, heard, owed>>

---------------------------------------------------------------------------
(* The outbox *)

Addressed(e, c) == outbox[e].to = {} \/ c \in outbox[e].to

\* Emit: to the channels given, or to all; those of the rule may be gone.
Enqueue(e, to) ==
  /\ outbox[e].status = "none" /\ \A d \in Events : d < e => outbox[d].status # "none"
  /\ outbox' = [outbox EXCEPT ![e] = [status |-> "queued", to |-> to, attempts |-> 0]]
  /\ owed' = [owed EXCEPT ![e] = {c \in Channels : On(c) /\ (to = {} \/ c \in to)}]
  /\ UNCHANGED <<channel, secret, request, rows, row, heard, troubles>>

Unpublished == {e \in Events : outbox[e].status = "queued" /\ outbox[e].attempts < MaxAttempts}

Idle == rows = {} /\ row = NoEventRow

ListUnpublished ==
  /\ Idle /\ Unpublished # {}
  /\ rows' = {e \in Unpublished : Cardinality({d \in Unpublished : d < e}) < Batch}
  /\ UNCHANGED <<channel, secret, request, outbox, row, heard, owed, troubles>>

\* ListEnabledChannels
TakeRow(e) ==
  /\ row = NoEventRow /\ e \in rows /\ \A d \in rows : e <= d
  /\ rows' = rows \ {e}
  /\ row' = [event |-> e, left |-> {c \in Channels : On(c) /\ Addressed(e, c)}, ok |-> TRUE]
  /\ UNCHANGED <<channel, secret, request, outbox, heard, owed, troubles>>

\* open and Deliver: it fails without the secret; what arrived may still be
\* answered with an error.
Deliver(c, arrives, ok) ==
  /\ row # NoEventRow /\ c \in row.left
  /\ ok => arrives
  /\ arrives /\ c \in Sealed => c \in secret
  /\ row' = [row EXCEPT !.left = @ \ {c}, !.ok = @ /\ ok]
  /\ heard' = IF arrives THEN [heard EXCEPT ![row.event][c] = @ + 1] ELSE heard
  /\ UNCHANGED <<channel, secret, request, outbox, rows, owed, troubles>>

\* Mutant: a failure is not counted.
MarkUncounted(e, ok) ==
  outbox' = IF ok THEN [outbox EXCEPT ![e].status = "published", ![e].attempts = @ + 1] ELSE outbox

\* MarkPublished, MarkFailed
Mark(e, ok) ==
  outbox' = [outbox EXCEPT ![e].status = IF ok THEN "published" ELSE @, ![e].attempts = @ + 1]

MarkRow ==
  /\ row # NoEventRow /\ row.left = {}
  /\ Mark(row.event, row.ok)
  /\ row' = NoEventRow
  /\ UNCHANGED <<channel, secret, request, rows, heard, owed, troubles>>

\* The mark fails, which is ignored; or the process dies and the pass with it.
DispatchTrouble ==
  /\ ~Idle /\ troubles < MaxTroubles
  /\ troubles' = troubles + 1
  /\ row' = NoEventRow
  /\ rows' = rows \/ rows' = {}
  /\ UNCHANGED <<channel, secret, request, outbox, heard, owed>>

DispatchPending ==
  \/ ListUnpublished
  \/ \E e \in rows : TakeRow(e)
  \/ \E c \in row.left, arrives, ok \in BOOLEAN : Deliver(c, arrives, ok)
  \/ MarkRow

OutboxNext ==
  \/ \E c \in Channels, on \in BOOLEAN : CreateChannel(c, on) \/ UpdateChannel(c, on)
  \/ \E c \in Channels : DeleteChannel(c)
  \/ \E q \in request : FinishRequest(q) \/ RequestLost(q)
  \/ \E e \in Events, to \in Addressees : Enqueue(e, to)
  \/ DispatchPending \/ DispatchTrouble

OutboxSpec == OutboxInit /\ [][OutboxNext]_outboxVars

\* Some replica dispatches every 15 seconds.
OutboxFairness == WF_outboxVars(DispatchPending)

---------------------------------------------------------------------------
(* Properties *)

OutboxTypeOK ==
  /\ channel \in [Channels -> {"none", "on", "off", "deleted"}]
  /\ secret \subseteq Channels
  /\ request \subseteq Request
  /\ outbox \in [Events -> [status : {"none", "queued", "published"}, to : SUBSET Channels,
                            attempts : Nat]]
  /\ rows \subseteq Events
  /\ row \in [event : Events \cup {0}, left : SUBSET Channels, ok : BOOLEAN]
  /\ heard \in [Events -> [Channels -> Nat]]
  /\ owed \in [Events -> SUBSET Channels]
  /\ troubles \in 0 .. MaxTroubles

\* A channel that can be delivered to has its secret, whatever is created,
\* changed and deleted at once, and whoever dies in between.
ChannelHasSecret ==
  \A c \in Sealed : channel[c] \in {"on", "off"} => c \in secret

\* An event counts as published only when every channel it was for, that was
\* enabled throughout, has heard it.
PublishedWasHeard ==
  \A e \in Events : outbox[e].status = "published" => \A c \in owed[e] : heard[e][c] > 0

\* A channel hears an event at most once for each attempt and each death: one
\* that fails next to it does not make it hear for ever.
HeardIsBounded ==
  \A e \in Events, c \in Channels : heard[e][c] <= MaxAttempts + troubles

\* Every event is published or given up, however many fail before it.
OutboxDrains ==
  \A e \in Events :
    outbox[e].status = "queued" ~> outbox[e].status # "queued" \/ outbox[e].attempts = MaxAttempts
===============================================================================
