------------------------------ MODULE LiveFeed ------------------------------
(* The live feed of one tab on one channel, from the Hub to the screen: the   *)
(* queue of its connection (realtime/hub.py), the tasks of its websocket      *)
(* (realtime/router.py) and the client in the tab                             *)
(* (apps/web/src/momentum/lib/realtime/client.ts).                            *)
(*                                                                            *)
(* The dispatcher that calls Hub.publish is in module Outbox: here it takes   *)
(* every committed event once, in any order.  A message the server sends and  *)
(* what the tab does with it are one step; one that is lost on the wire was   *)
(* never sent.  The tab shows the channel from before it first connects.      *)
EXTENDS Integers, FiniteSets, Sequences, Functions

CONSTANTS
    NumEvents,    \* bound: events of the channel
    QueueSize,    \* maxsize of Connection.queue
    ReplayLimit,  \* REPLAY_LIMIT
    MaxLosses     \* bound: lost connections

ASSUME LimitsAssumption ==
    NumEvents \in Nat /\ QueueSize \in Nat \ {0} /\ ReplayLimit \in Nat /\ MaxLosses \in Nat

Events == 1 .. NumEvents

VARIABLES
    committed,  \* events of the channel whose transaction has committed
    atHub,      \* those the dispatcher has handed to the Hub
    may,        \* the person may see the channel
    news,       \* the event that took the access away is not published yet
    \* the connection
    up,
    queue,      \* Connection.queue: ids, and Overflow
    sub,        \* the channel is in Connection.channels
    recheck,    \* Connection.recheck
    reader,     \* where reader() is with the tab's subscribe
    since,      \* the cursor that came with it, 0 for none
    backlog,    \* what replay returned and is not sent yet, or TooLong
    \* the tab
    last,       \* lastEventId, 0 for null
    shown,      \* events the screen reflects
    losses,
    missed,     \* history: per event, why the feed will not bring it
    owed        \* history: the queue has dropped something the tab is not told of

link == <<up, queue, sub, recheck, reader, since, backlog>>
tab  == <<last, shown>>
feedVars == <<committed, atHub, may, news, link, tab, losses, missed, owed>>

Overflow == 0
TooLong  == {Overflow}
Reasons  == {"none", "dropped", "slipped", "fresh", "behind", "resync"}

FeedTypeOK ==
    /\ atHub \subseteq committed /\ committed \subseteq Events
    /\ may \in BOOLEAN /\ news \in BOOLEAN /\ up \in BOOLEAN
    /\ queue \in Seq(committed \cup {Overflow}) /\ Len(queue) <= QueueSize
    /\ sub \in BOOLEAN /\ recheck \in BOOLEAN
    /\ reader \in {"idle", "asked", "read", "sending"} /\ since \in 0 .. NumEvents
    /\ backlog # TooLong => backlog \subseteq committed /\ Cardinality(backlog) <= ReplayLimit
    /\ last \in 0 .. NumEvents /\ shown \subseteq committed
    /\ losses \in 0 .. MaxLosses /\ missed \in [Events -> Reasons] /\ owed \in BOOLEAN

FeedInit ==
    /\ committed = {} /\ atHub = {} /\ may = TRUE /\ news = FALSE
    /\ up = FALSE /\ queue = <<>> /\ sub = FALSE /\ recheck = FALSE
    /\ reader = "idle" /\ since = 0 /\ backlog = {}
    /\ last = 0 /\ shown = {} /\ losses = 0
    /\ missed = [i \in Events |-> "none"] /\ owed = FALSE

\* The events in S that the tab does not show will not come, for this reason.
Miss(S, why) ==
    missed' = [i \in Events |-> IF i \in S \ shown THEN why ELSE missed[i]]

-----------------------------------------------------------------------------
(* The server's side.                                                         *)

Happen(i) ==
    /\ i \notin committed /\ committed' = committed \cup {i}
    /\ UNCHANGED <<atHub, may, news, link, tab, losses, missed, owed>>

Full == Len(queue) >= QueueSize
Heads == IF Full THEN {Head(queue)} \ {Overflow} ELSE {}

\* Faulty variant: the oldest message makes room for the new one, and that is all.
SendSilently(i) ==
    /\ queue' = IF Full THEN Append(Tail(queue), i) ELSE Append(queue, i)
    /\ IF Full THEN owed' = TRUE /\ Miss(Heads, "dropped") ELSE UNCHANGED <<missed, owed>>

\* Connection.send: when the queue is full its oldest message is dropped, the
\* new one too, and the marker takes their place.
Send(i) ==
    IF Full
    THEN /\ queue' = Append(Tail(queue), Overflow)
         /\ owed' = TRUE /\ Miss(Heads \cup {i}, "dropped")
    ELSE queue' = Append(queue, i) /\ UNCHANGED <<missed, owed>>

\* Hub.publish.  An event that comes between the reading of the backlog and
\* the subscription is in neither.
HubPublish(i) ==
    /\ i \in committed \ atHub /\ atHub' = atHub \cup {i}
    /\ IF sub THEN Send(i)
       ELSE /\ UNCHANGED <<queue, owed>>
            /\ IF reader = "read" /\ i \notin backlog THEN Miss({i}, "slipped")
               ELSE UNCHANGED missed
    /\ UNCHANGED <<committed, may, news, up, sub, recheck, reader, since, backlog, tab, losses>>

\* The person loses access, in an event of ACCESS_EVENTS.
Revoke ==
    /\ may /\ may' = FALSE /\ news' = TRUE
    /\ UNCHANGED <<committed, atHub, link, tab, losses, missed, owed>>

\* Hub.recheck_all: only connections on some channel are told.
RecheckAll ==
    /\ news /\ news' = FALSE
    /\ recheck' = (recheck \/ sub)
    /\ UNCHANGED <<committed, atHub, may, up, queue, sub, reader, since, backlog, tab, losses, missed, owed>>

\* authorize_channel, and replay of what is above n when the tab has a cursor.
\* What is below its cursor never comes, nor does what it missed without one.
ReplayAbove(n) ==
    /\ up /\ reader = "asked" /\ may
    /\ LET rows == {i \in committed : since > 0 /\ i > n}
           late == {i \in atHub : i <= since} \ shown
       IN  IF Cardinality(rows) > ReplayLimit
           THEN /\ backlog' = TooLong
                /\ missed' = [i \in Events |-> IF i \in late THEN "behind"
                                           ELSE IF i \in (rows \cap atHub) \ shown THEN "resync"
                                           ELSE missed[i]]
           ELSE /\ backlog' = rows
                /\ IF since = 0 THEN Miss(atHub, "fresh") ELSE Miss(late, "behind")
    /\ reader' = "read"
    /\ UNCHANGED <<committed, atHub, may, news, up, queue, sub, recheck, since, tab, losses, owed>>

\* Faulty variant: replay starts one event further on.
ReplayShort == ReplayAbove(since + 1)

\* reader, up to the subscription
Replay == ReplayAbove(since)

Deny ==
    /\ up /\ reader = "asked" /\ ~may
    /\ reader' = "idle"
    /\ UNCHANGED <<committed, atHub, may, news, up, queue, sub, recheck, since, backlog, tab, losses, missed, owed>>

\* Hub.subscribe
Subscribe ==
    /\ reader = "read" /\ reader' = "sending"
    /\ sub' = TRUE
    /\ UNCHANGED <<committed, atHub, may, news, up, queue, recheck, since, backlog, tab, losses, missed, owed>>

\* The channel is authorized again: when it is withdrawn, the tab drops its
\* cursor and refetches.
Reauthorize ==
    /\ up
    /\ recheck' = FALSE
    /\ IF sub /\ ~may
       THEN /\ sub' = FALSE /\ last' = 0 /\ shown' = committed
       ELSE UNCHANGED <<sub, tab>>
    /\ UNCHANGED <<committed, atHub, may, news, up, queue, reader, since, backlog, losses, missed, owed>>

\* Faulty variant: only when told.
GuardWhenTold == recheck /\ Reauthorize

\* guard, after 30 seconds or when told
Guard == Reauthorize

-----------------------------------------------------------------------------
(* The tab.                                                                   *)

\* deliver
Deliver(i) ==
    /\ last' = IF i > last THEN i ELSE last
    /\ shown' = shown \cup {i}

\* onopen: subscribe from the last event seen, or live
Connect ==
    /\ ~up /\ up' = TRUE
    /\ reader' = "asked" /\ since' = last
    /\ UNCHANGED <<committed, atHub, may, news, queue, sub, recheck, backlog, tab, losses, missed, owed>>

\* The reader sends the backlog itself, in the order of the ids and past the
\* queue; resync when there is too much of it, which only makes the tab drop
\* its cursor.
SendBacklog ==
    /\ reader = "sending"
    /\ IF backlog = {} THEN reader' = "idle" /\ UNCHANGED <<backlog, tab>>
       ELSE IF backlog = TooLong
       THEN backlog' = {} /\ last' = 0 /\ UNCHANGED <<reader, shown>>
       ELSE /\ \E i \in backlog : (\A j \in backlog : i <= j) /\ backlog' = backlog \ {i} /\ Deliver(i)
            /\ UNCHANGED reader
    /\ UNCHANGED <<committed, atHub, may, news, up, queue, sub, recheck, since, losses, missed, owed>>

\* writer; the marker only makes the tab drop its cursor
SendQueued ==
    /\ queue # <<>> /\ queue' = Tail(queue)
    /\ IF Head(queue) = Overflow
       THEN last' = 0 /\ owed' = (Overflow \in Range(Tail(queue))) /\ UNCHANGED shown
       ELSE Deliver(Head(queue)) /\ UNCHANGED owed
    /\ UNCHANGED <<committed, atHub, may, news, up, sub, recheck, reader, since, backlog, losses, missed>>

\* The connection is lost with all it holds.
LoseConnection ==
    /\ up /\ losses < MaxLosses /\ losses' = losses + 1
    /\ up' = FALSE /\ queue' = <<>> /\ sub' = FALSE /\ recheck' = FALSE
    /\ reader' = "idle" /\ since' = 0 /\ backlog' = {} /\ owed' = FALSE
    /\ UNCHANGED <<committed, atHub, may, news, tab, missed>>

\* The window gets the focus: what is on the screen is fetched again.
Focus ==
    /\ may /\ shown' = committed
    /\ UNCHANGED <<committed, atHub, may, news, link, last, losses, missed, owed>>

-----------------------------------------------------------------------------
Reader == Replay \/ Deny \/ Subscribe \/ SendBacklog

FeedNext ==
    \/ \E i \in Events : Happen(i) \/ HubPublish(i)
    \/ Revoke \/ RecheckAll \/ Reader \/ SendQueued \/ Guard
    \/ Connect \/ LoseConnection \/ Focus

FeedSpec == FeedInit /\ [][FeedNext]_feedVars

\* The tasks of the connection run, and the tab reconnects.
FeedFairSpec ==
    /\ FeedSpec /\ WF_feedVars(Reader) /\ WF_feedVars(SendQueued) /\ WF_feedVars(Guard)
    /\ WF_feedVars(Connect) /\ WF_feedVars(\E i \in Events : HubPublish(i))
    /\ WF_feedVars(RecheckAll)

-----------------------------------------------------------------------------
(* Properties.                                                                *)

AtRest == up /\ sub /\ reader = "idle" /\ queue = <<>> /\ atHub = committed

\* A tab at rest shows everything that happened on its channel, but for what
\* was lost in one of the five named ways, however events, backlogs, live
\* messages and reconnections interleave.
NoOtherGap == AtRest => \A i \in committed : i \in shown \/ missed[i] # "none"

\* Whatever a slow tab loses from its queue, a marker is behind it: the tab
\* reads of the loss before it reads anything that came after.
OverflowTold == owed => Overflow \in Range(queue)

\* A person who has lost access stops hearing the channel for good, also when
\* the access went while the subscription was being made.
AccessEnds == [](~may => <>[]~sub)
=============================================================================
