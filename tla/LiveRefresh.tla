----------------------------- MODULE LiveRefresh -----------------------------
(***************************************************************************)
(* Live refresh: a request that changed something publishes an event on    *)
(* the SSE hub of its server process; the stream handlers forward it to    *)
(* browser tabs, which then fetch again.  Events carry no data, so a tab   *)
(* that missed one stays out of date until the next; the hub therefore     *)
(* disconnects a client whose buffer is full, and a tab that reconnects    *)
(* fetches everything again.                                               *)
(*                                                                         *)
(* Subscribe, Unsubscribe and Close hold the hub's write lock and are one  *)
(* step each; publish holds the read lock while it sends.  A tab stands    *)
(* for the one that owns the connection of its browser (the leader); what  *)
(* was fetched is known by the number of changes it reflects.              *)
(***************************************************************************)
EXTENDS Naturals

CONSTANTS Replica,      \* server processes, each with a hub of its own
          Stream,       \* slots for SSE requests being handled
          Tab,          \* browser tabs
          Writer,       \* slots for requests that change something
          Buffer,       \* sseClientEventBufferSize
          MaxVersion,   \* bound on the number of changes, for TLC
          None

ASSUME BufferAssumption == Buffer \in Nat \ {0} /\ MaxVersion \in Nat

VARIABLES version,  \* the number of committed changes
          writer,   \* writer[w]: a request on its way to, or inside, publish
          hub,      \* hub[i]: the clients and the closed flag of an SSEHub
          stream,   \* stream[c]: an SSEClient and its handler
          tab       \* tab[b]: the connection loop and the query cache of a tab

liveVars == <<version, writer, hub, stream, tab>>

Quiet == [phase |-> "idle", at |-> None, version |-> 0, todo |-> {}, slow |-> {}]
Free == [phase |-> "none", at |-> None, tab |-> None, events |-> 0, done |-> FALSE, missed |-> FALSE]

Registered(c) == \E i \in Replica : c \in hub[i].clients

\* Does a publisher hold the read lock of the hub?
ReadLocked(i) == \E w \in Writer : writer[w].phase = "sending" /\ writer[w].at = i

\* A client is a pointer: its slot is taken again only when nobody has it.
Unreferenced(c) ==
  /\ stream[c].phase = "none"
  /\ \A b \in Tab : tab[b].stream # c
  /\ \A w \in Writer : c \notin writer[w].todo \cup writer[w].slow

-----------------------------------------------------------------------------
(* The hub.                                                                *)

\* Unsubscribe: closes the channels of a client that is still registered.
Unsubscribe(c) ==
  /\ ~ ReadLocked(stream[c].at)
  /\ IF Registered(c)
       THEN /\ hub' = [hub EXCEPT ![stream[c].at].clients = @ \ {c}]
            /\ stream' = [stream EXCEPT ![c].done = TRUE]
       ELSE UNCHANGED <<hub, stream>>

\* (a plausible slip) clients stay registered when their channels are closed
CloseKeepingClients(i) ==
  /\ ~ hub[i].closed
  /\ ~ ReadLocked(i)
  /\ hub' = [hub EXCEPT ![i].closed = TRUE]
  /\ stream' = [c \in Stream |-> IF c \in hub[i].clients THEN [stream[c] EXCEPT !.done = TRUE]
                                                         ELSE stream[c]]
  /\ UNCHANGED <<version, writer, tab>>

\* (a plausible slip) the channels of the clients stay open
CloseForgettingClients(i) ==
  /\ ~ hub[i].closed
  /\ ~ ReadLocked(i)
  /\ hub' = [hub EXCEPT ![i] = [clients |-> {}, closed |-> TRUE]]
  /\ UNCHANGED <<version, writer, stream, tab>>

\* Close, when the server shuts down.
Close(i) ==
  /\ ~ hub[i].closed
  /\ ~ ReadLocked(i)
  /\ hub' = [hub EXCEPT ![i] = [clients |-> {}, closed |-> TRUE]]
  /\ stream' = [c \in Stream |-> IF c \in hub[i].clients THEN [stream[c] EXCEPT !.done = TRUE]
                                                         ELSE stream[c]]
  /\ UNCHANGED <<version, writer, tab>>

\* The process ends, by a shutdown or a crash, and a new one takes its place.
Restart(i) ==
  /\ hub' = [hub EXCEPT ![i] = [clients |-> {}, closed |-> FALSE]]
  /\ stream' = [c \in Stream |-> IF stream[c].at = i THEN Free ELSE stream[c]]
  /\ writer' = [w \in Writer |-> IF writer[w].at = i THEN Quiet ELSE writer[w]]
  /\ UNCHANGED <<version, tab>>

-----------------------------------------------------------------------------
(* Publishing.                                                             *)

\* An API handler after its transaction, before publishMemoChanged or
\* publishSpaceChanged.
Change(w, i) ==
  /\ writer[w].phase = "idle"
  /\ version < MaxVersion
  /\ version' = version + 1
  /\ writer' = [writer EXCEPT ![w] = [Quiet EXCEPT !.phase = "changed", !.at = i,
                                                   !.version = version + 1]]
  /\ UNCHANGED <<hub, stream, tab>>

\* RLock; the clients cannot change until RUnlock.
Publish(w) ==
  /\ writer[w].phase = "changed"
  /\ writer' = [writer EXCEPT ![w].phase = "sending", ![w].todo = hub[writer[w].at].clients]
  /\ UNCHANGED <<version, hub, stream, tab>>

\* (a plausible slip) the event is dropped when the buffer is full
SendOrDrop(w, c) ==
  /\ writer[w].phase = "sending"
  /\ c \in writer[w].todo
  /\ stream' = [stream EXCEPT ![c].events = IF @ < Buffer THEN @ + 1 ELSE @,
                              ![c].missed = @ \/ stream[c].events = Buffer]
  /\ writer' = [writer EXCEPT ![w].todo = @ \ {c}]
  /\ UNCHANGED <<version, hub, tab>>

\* The select in publish: into the buffer, or among the slow clients.
Send(w, c) ==
  LET full == stream[c].events = Buffer IN
  /\ writer[w].phase = "sending"
  /\ c \in writer[w].todo
  /\ stream' = [stream EXCEPT ![c].events = IF full THEN @ ELSE @ + 1,
                              ![c].missed = @ \/ full]
  /\ writer' = [writer EXCEPT ![w].todo = @ \ {c},
                              ![w].slow = IF full THEN @ \cup {c} ELSE @]
  /\ UNCHANGED <<version, hub, tab>>

\* RUnlock.
Sent(w) ==
  /\ writer[w].phase = "sending"
  /\ writer[w].todo = {}
  /\ writer' = [writer EXCEPT ![w] = IF @.slow = {} THEN Quiet ELSE [@ EXCEPT !.phase = "evicting"]]
  /\ UNCHANGED <<version, hub, stream, tab>>

Evict(w, c) ==
  LET rest == writer[w].slow \ {c} IN
  /\ writer[w].phase = "evicting"
  /\ c \in writer[w].slow
  /\ Unsubscribe(c)
  /\ writer' = [writer EXCEPT ![w] = IF rest = {} THEN Quiet ELSE [writer[w] EXCEPT !.slow = rest]]
  /\ UNCHANGED <<version, tab>>

-----------------------------------------------------------------------------
(* The stream handler, handleSSE.                                          *)

\* Authentication, and the headers, which are flushed at once.
Accept(c, b, i) ==
  /\ tab[b].phase = "connecting"
  /\ tab[b].stream = None
  /\ Unreferenced(c)
  /\ stream' = [stream EXCEPT ![c] = [Free EXCEPT !.phase = "accepted", !.at = i, !.tab = b]]
  /\ tab' = [tab EXCEPT ![b].stream = c]
  /\ UNCHANGED <<version, writer, hub>>

\* Subscribe: on a closed hub the channels are closed from the start.
Subscribe(c) ==
  LET i == stream[c].at IN
  /\ stream[c].phase = "accepted"
  /\ ~ ReadLocked(i)
  /\ stream' = [stream EXCEPT ![c].phase = "open", ![c].done = hub[i].closed]
  /\ hub' = IF hub[i].closed THEN hub ELSE [hub EXCEPT ![i].clients = @ \cup {c}]
  /\ UNCHANGED <<version, writer, tab>>

\* A frame reaches the tab, which invalidates its queries.  The handler may still
\* take a frame when done is closed after it looked, which is like taking it just
\* before; what the sockets hold counts as buffered.
Forward(c) ==
  LET b == stream[c].tab IN
  /\ stream[c].phase = "open"
  /\ ~ stream[c].done
  /\ stream[c].events > 0
  /\ tab[b].stream = c
  /\ tab[b].phase = "connected"
  /\ stream' = [stream EXCEPT ![c].events = @ - 1]
  /\ tab' = [tab EXCEPT ![b].dirty = TRUE]
  /\ UNCHANGED <<version, writer, hub>>

\* (a plausible slip) the lock is not taken
ReturnUnlocked(c) ==
  /\ stream[c].phase = "open"
  /\ stream[c].done \/ tab[stream[c].tab].stream # c
  /\ hub' = [hub EXCEPT ![stream[c].at].clients = @ \ {c}]
  /\ stream' = [stream EXCEPT ![c] = Free]
  /\ UNCHANGED <<version, writer, tab>>

\* The handler returns, told to by the hub or because the client is gone; the
\* deferred Unsubscribe.
Return(c) ==
  /\ stream[c].phase = "open"
  /\ stream[c].done \/ tab[stream[c].tab].stream # c
  /\ ~ ReadLocked(stream[c].at)
  /\ hub' = [hub EXCEPT ![stream[c].at].clients = @ \ {c}]
  /\ stream' = [stream EXCEPT ![c] = Free]
  /\ UNCHANGED <<version, writer, tab>>

-----------------------------------------------------------------------------
(* The tab, useLiveMemoRefresh.                                            *)

\* (a plausible slip) no resynchronization after a reconnect
ConnectedQuietly(b) ==
  /\ tab[b].phase = "connecting"
  /\ tab[b].stream # None
  /\ tab' = [tab EXCEPT ![b].phase = "connected", ![b].once = TRUE, ![b].resynced = tab[b].once]
  /\ UNCHANGED <<version, writer, hub, stream>>

\* The response has arrived; a reconnect invalidates all live queries.
Connected(b) ==
  /\ tab[b].phase = "connecting"
  /\ tab[b].stream # None
  /\ tab' = [tab EXCEPT ![b].phase = "connected", ![b].once = TRUE,
                        ![b].resynced = tab[b].once, ![b].dirty = @ \/ tab[b].once]
  /\ UNCHANGED <<version, writer, hub, stream>>

Drop(b, phase) ==
  /\ tab' = [tab EXCEPT ![b].phase = phase, ![b].stream = None, ![b].resynced = FALSE]
  /\ UNCHANGED <<version, writer, hub, stream>>

\* The server has ended the stream.
StreamEnds(b) ==
  LET c == tab[b].stream IN
  /\ c # None
  /\ stream[c].phase = "none"
  /\ Drop(b, "waiting")

\* The request or the connection fails.
ConnectionFails(b) == tab[b].phase \in {"connecting", "connected"} /\ Drop(b, "waiting")

\* waitForRetry.
Retry(b) == tab[b].phase = "waiting" /\ Drop(b, "connecting")

\* stopLeadership: the tab is hidden for a while, offline or left.
Hide(b) == tab[b].phase # "hidden" /\ Drop(b, "hidden")

Show(b) == tab[b].phase = "hidden" /\ Drop(b, "connecting")

\* React Query fetches what was invalidated.
Refetch(b) ==
  /\ tab[b].dirty
  /\ tab' = [tab EXCEPT ![b].dirty = FALSE, ![b].seen = version]
  /\ UNCHANGED <<version, writer, hub, stream>>

-----------------------------------------------------------------------------
\* A tab connects while its first queries are under way.
LiveInit ==
  /\ version = 0
  /\ writer = [w \in Writer |-> Quiet]
  /\ hub = [i \in Replica |-> [clients |-> {}, closed |-> FALSE]]
  /\ stream = [c \in Stream |-> Free]
  /\ tab = [b \in Tab |-> [phase |-> "connecting", stream |-> None, once |-> FALSE,
                           resynced |-> FALSE, dirty |-> TRUE, seen |-> 0]]

PublishNext(w) ==
  \/ Publish(w)
  \/ Sent(w)
  \/ \E c \in Stream : Send(w, c) \/ Evict(w, c)

TabNext(b) == Connected(b) \/ StreamEnds(b) \/ Retry(b) \/ Refetch(b)

Accepted(b) == \E c \in Stream, i \in Replica : ~ hub[i].closed /\ Accept(c, b, i)

LiveNext ==
  \/ \E i \in Replica : Close(i) \/ Restart(i)
  \/ \E w \in Writer, i \in Replica : Change(w, i)
  \/ \E w \in Writer : PublishNext(w)
  \/ \E c \in Stream : Subscribe(c) \/ Forward(c) \/ Return(c)
  \/ \E c \in Stream, b \in Tab, i \in Replica : Accept(c, b, i)
  \/ \E b \in Tab : TabNext(b) \/ ConnectionFails(b) \/ Hide(b) \/ Show(b)

LiveSafety == LiveInit /\ [][LiveNext]_liveVars

\* A server process runs what it has begun, a waiting writer of the lock is not
\* overtaken by readers forever (sync.RWMutex), a tab goes on, and a tab that
\* keeps trying is accepted at last.  Nothing is assumed about changes, failures,
\* shutdowns, restarts and tabs being hidden or shown.
LiveSpec ==
  /\ LiveSafety
  /\ \A w \in Writer : SF_liveVars(PublishNext(w))
  /\ \A c \in Stream : SF_liveVars(Subscribe(c)) /\ SF_liveVars(Forward(c)) /\ SF_liveVars(Return(c))
  /\ \A b \in Tab : /\ WF_liveVars(Refetch(b))
                    /\ WF_liveVars(StreamEnds(b))
                    /\ WF_liveVars(Retry(b))
                    /\ SF_liveVars(Connected(b))
                    /\ SF_liveVars(Accepted(b))

-----------------------------------------------------------------------------
(* Properties.                                                             *)

HubState == [clients : SUBSET Stream, closed : BOOLEAN]

WriterState == [phase : {"idle", "changed", "sending", "evicting"}, at : Replica \cup {None},
                version : 0..MaxVersion, todo : SUBSET Stream, slow : SUBSET Stream]

StreamState == [phase : {"none", "accepted", "open"}, at : Replica \cup {None},
                tab : Tab \cup {None}, events : 0..Buffer, done : BOOLEAN, missed : BOOLEAN]

TabState == [phase : {"connecting", "connected", "waiting", "hidden"},
             stream : Stream \cup {None}, once : BOOLEAN, resynced : BOOLEAN,
             dirty : BOOLEAN, seen : 0..MaxVersion]

\* Each variable keeps to its values; no buffer exceeds its capacity.
LiveTypeOK ==
  /\ version \in 0..MaxVersion
  /\ writer \in [Writer -> WriterState]
  /\ hub \in [Replica -> HubState]
  /\ stream \in [Stream -> StreamState]
  /\ tab \in [Tab -> TabState]

\* publish never sends on a closed channel, which would panic, however it
\* interleaves with clients that leave, evictions by other publishers and the
\* shutdown.
NoSendOnClosed ==
  \A w \in Writer : \A c \in writer[w].todo : ~ stream[c].done /\ Registered(c)

\* A registered client's channels are open, so none of the three places that
\* close them closes them twice, which would panic too.
ChannelsClosedOnce == \A i \in Replica : \A c \in hub[i].clients : ~ stream[c].done

\* "Slow clients with a full buffer are disconnected so they can reconnect and
\* resynchronize instead of silently missing an event": a client that missed one
\* is no longer registered, or a publisher is about to evict it.
NoSilentMiss ==
  \A c \in Stream : stream[c].missed =>
    ~ Registered(c) \/ \E w \in Writer : c \in writer[w].slow

\* A change published while a tab is connected reaches it, through an event or
\* through the fetches after a reconnect, whatever fails on the way, unless the
\* tab is hidden.  It is assumed that the servers are not shut down for good, or
\* over and over again.
ChangeReachesTab ==
  (\A i \in Replica : <>[](~ hub[i].closed)) =>
  \A b \in Tab, w \in Writer : \A v \in 1..MaxVersion :
    (/\ tab[b].phase = "connected"
     /\ tab[b].stream # None /\ Registered(tab[b].stream)
     /\ writer[w].phase = "changed" /\ writer[w].version = v)
      ~> (tab[b].seen >= v \/ tab[b].phase = "hidden")

\* After Close every stream handler that runs returns, so that the shutdown of
\* the HTTP server does not wait for them until its timeout.
CloseEndsStreams ==
  \A i \in Replica, c \in Stream :
    (hub[i].closed /\ stream[c].at = i /\ stream[c].phase = "open") ~> (stream[c].phase = "none")

\* A fetch of tab b is due: its queries are invalid, it will reconnect, its stream
\* is over or about to be, or an event is buffered or yet to be sent to it.
FetchDue(b) ==
  LET c == tab[b].stream IN
  \/ tab[b].dirty
  \/ tab[b].once /\ tab[b].phase \in {"connecting", "waiting"}
  \/ /\ tab[b].phase = "connected"
     /\ \/ stream[c].phase = "none" \/ stream[c].done \/ stream[c].events > 0
        \/ \E w \in Writer : c \in writer[w].todo \cup writer[w].slow
        \/ Registered(c) /\ \E w \in Writer : writer[w].phase = "changed" /\ writer[w].at = stream[c].at

\* What a tab is owed is never forgotten: a fetch that is due stays due until it is
\* made and returns every change committed so far, or the tab is hidden.  Neither
\* an eviction, a shutdown, a crash nor a connection that fails loses it.
DueUntilFetched ==
  [][\A b \in Tab : FetchDue(b) =>
       FetchDue(b)' \/ tab'[b].seen = version \/ tab'[b].phase = "hidden"]_liveVars

\* After Close every handler that runs has been told to return, also one that was
\* accepted before and subscribes to the closed hub.
ClosedHubEndsStreams ==
  \A c \in Stream : stream[c].phase = "open" /\ hub[stream[c].at].closed => stream[c].done
=============================================================================
