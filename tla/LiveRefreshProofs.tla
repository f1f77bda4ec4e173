-------------------------- MODULE LiveRefreshProofs --------------------------
(***************************************************************************)
(* The SSE hub closes no channel twice, sends on no closed one, leaves no  *)
(* client behind that missed an event and none behind when it is closed;   *)
(* and a tab that has to fetch again does not forget it.  All for any      *)
(* number of processes, streams, tabs and publishers and any size of the   *)
(* buffers.                                                                *)
(***************************************************************************)
EXTENDS LiveRefresh, TLAPS

\* A registered client is being handled, by the process of the hub it is
\* registered with, and its channels are open.
ClientsOpen ==
  \A i \in Replica : \A c \in hub[i].clients :
    stream[c].phase = "open" /\ stream[c].at = i /\ ~ stream[c].done

\* A stream that is handled has its process and its tab, and has missed nothing
\* before it is registered; one that is not handled is blank.
StreamOK(c) ==
  /\ stream[c].phase = "none" => stream[c] = Free
  /\ stream[c].phase # "none" => stream[c].at \in Replica /\ stream[c].tab \in Tab
  /\ stream[c].phase = "accepted" => ~ stream[c].missed

\* What a publisher holds: the clients it has yet to send to are registered as long
\* as it has the lock, and the slow ones belong to its process if they are handled.
PublisherOK(w) ==
  /\ writer[w].phase # "idle" => writer[w].at \in Replica
  /\ writer[w].todo # {} => writer[w].phase = "sending"
  /\ writer[w].slow # {} => writer[w].phase \in {"sending", "evicting"}
  /\ writer[w].phase = "sending" => writer[w].todo \subseteq hub[writer[w].at].clients
  /\ \A c \in writer[w].slow : stream[c].phase = "none" \/ stream[c].at = writer[w].at

HubInv ==
  /\ ClientsOpen
  /\ \A c \in Stream : StreamOK(c)
  /\ \A w \in Writer : PublisherOK(w)

\* The inductive invariant.
LiveInv == LiveTypeOK /\ HubInv /\ NoSilentMiss

-----------------------------------------------------------------------------
LEMMA BlanksTyped == Quiet \in WriterState /\ Free \in StreamState
  BY BufferAssumption DEF Quiet, Free, WriterState, StreamState

LEMMA LiveInitInv == LiveInit => LiveInv
  <1> SUFFICES ASSUME LiveInit PROVE LiveInv
    OBVIOUS
  <1>1. LiveTypeOK
    BY BlanksTyped, BufferAssumption DEF LiveInit, LiveTypeOK, HubState, TabState
  <1>2. HubInv
    BY DEF LiveInit, HubInv, ClientsOpen, StreamOK, PublisherOK, Quiet, Free
  <1>3. NoSilentMiss
    BY DEF LiveInit, NoSilentMiss, Free
  <1> QED
    BY <1>1, <1>2, <1>3 DEF LiveInv

-----------------------------------------------------------------------------
(* Tabs do not touch the hub.                                              *)

LEMMA TabStep ==
  ASSUME LiveInv, NEW b \in Tab, NEW q \in TabState, tab' = [tab EXCEPT ![b] = q],
         UNCHANGED <<version, writer, hub, stream>>
  PROVE  LiveInv'
  <1>1. LiveTypeOK'
    BY DEF LiveInv, LiveTypeOK
  <1>2. HubInv'
    BY DEF LiveInv, HubInv, ClientsOpen, StreamOK, PublisherOK
  <1>3. NoSilentMiss'
    BY DEF LiveInv, NoSilentMiss, Registered
  <1> QED
    BY <1>1, <1>2, <1>3 DEF LiveInv

LEMMA DropInv ==
  ASSUME LiveInv, NEW b \in Tab,
         NEW phase \in {"connecting", "connected", "waiting", "hidden"}, Drop(b, phase)
  PROVE  LiveInv'
  <1> DEFINE q == [tab[b] EXCEPT !.phase = phase, !.stream = None, !.resynced = FALSE]
  <1>1. q \in TabState
    BY DEF LiveInv, LiveTypeOK, TabState
  <1>2. tab' = [tab EXCEPT ![b] = q] /\ UNCHANGED <<version, writer, hub, stream>>
    BY DEF Drop
  <1> QED
    BY <1>1, <1>2, TabStep

LEMMA ConnectedInv ==
  ASSUME LiveInv, NEW b \in Tab, Connected(b)
  PROVE  LiveInv'
  <1> DEFINE q == [tab[b] EXCEPT !.phase = "connected", !.once = TRUE,
                                 !.resynced = tab[b].once, !.dirty = @ \/ tab[b].once]
  <1>1. q \in TabState
    BY DEF LiveInv, LiveTypeOK, TabState
  <1>2. tab' = [tab EXCEPT ![b] = q] /\ UNCHANGED <<version, writer, hub, stream>>
    BY DEF Connected
  <1> QED
    BY <1>1, <1>2, TabStep

LEMMA RefetchInv ==
  ASSUME LiveInv, NEW b \in Tab, Refetch(b)
  PROVE  LiveInv'
  <1> DEFINE q == [tab[b] EXCEPT !.dirty = FALSE, !.seen = version]
  <1>1. q \in TabState
    BY DEF LiveInv, LiveTypeOK, TabState
  <1>2. tab' = [tab EXCEPT ![b] = q] /\ UNCHANGED <<version, writer, hub, stream>>
    BY DEF Refetch
  <1> QED
    BY <1>1, <1>2, TabStep

-----------------------------------------------------------------------------
(* The hub and the process.                                                *)

LEMMA CloseInv ==
  ASSUME LiveInv, NEW i \in Replica, Close(i)
  PROVE  LiveInv'
  <1>1. LiveTypeOK'
    BY DEF LiveInv, LiveTypeOK, HubState, StreamState, Close
  <1>2. ClientsOpen'
    BY DEF LiveInv, LiveTypeOK, HubInv, ClientsOpen, HubState, StreamState, Close
  <1>3. \A d \in Stream : StreamOK(d)'
    BY DEF LiveInv, LiveTypeOK, HubInv, ClientsOpen, StreamOK, HubState, StreamState, Close
  <1>4. \A v \in Writer : PublisherOK(v)'
    BY DEF LiveInv, LiveTypeOK, HubInv, PublisherOK, HubState, StreamState, WriterState,
           ReadLocked, Close
  <1>5. NoSilentMiss'
    BY DEF LiveInv, LiveTypeOK, HubInv, NoSilentMiss, Registered, HubState, StreamState, Close
  <1> QED
    BY <1>1, <1>2, <1>3, <1>4, <1>5 DEF LiveInv, HubInv

LEMMA RestartInv ==
  ASSUME LiveInv, NEW i \in Replica, Restart(i)
  PROVE  LiveInv'
  <1>1. LiveTypeOK'
    BY BlanksTyped DEF LiveInv, LiveTypeOK, HubState, Restart
  <1>2. ClientsOpen'
    BY DEF LiveInv, LiveTypeOK, HubInv, ClientsOpen, HubState, Restart
  <1>3. \A d \in Stream : StreamOK(d)'
    BY DEF LiveInv, LiveTypeOK, HubInv, StreamOK, Free, Restart
  <1>4. \A v \in Writer : PublisherOK(v)'
    BY DEF LiveInv, LiveTypeOK, HubInv, ClientsOpen, PublisherOK, HubState, WriterState, Free,
           Quiet, Restart
  <1>5. NoSilentMiss'
    BY DEF LiveInv, LiveTypeOK, HubInv, PublisherOK, StreamOK, NoSilentMiss, Registered,
           HubState, WriterState, Free, Quiet, Restart
  <1> QED
    BY <1>1, <1>2, <1>3, <1>4, <1>5 DEF LiveInv, HubInv

-----------------------------------------------------------------------------
(* Publishing.                                                             *)

LEMMA ChangeInv ==
  ASSUME LiveInv, NEW w \in Writer, NEW i \in Replica, Change(w, i)
  PROVE  LiveInv'
  <1> DEFINE q == [Quiet EXCEPT !.phase = "changed", !.at = i, !.version = version + 1]
  <1>a. version + 1 \in 0..MaxVersion
    BY BufferAssumption DEF Change, LiveInv, LiveTypeOK
  <1>b. q \in WriterState
    BY <1>a, BlanksTyped DEF WriterState
  <1>1. LiveTypeOK'
    BY <1>a, <1>b DEF LiveInv, LiveTypeOK, Change
  <1>2. ClientsOpen'
    BY DEF LiveInv, HubInv, ClientsOpen, Change
  <1>3. \A d \in Stream : StreamOK(d)'
    BY DEF LiveInv, HubInv, StreamOK, Change
  <1>4. \A v \in Writer : PublisherOK(v)'
    BY DEF LiveInv, LiveTypeOK, HubInv, PublisherOK, Change, Quiet
  <1>5. NoSilentMiss'
    BY DEF LiveInv, LiveTypeOK, HubInv, PublisherOK, NoSilentMiss, Registered, Change
  <1> QED
    BY <1>1, <1>2, <1>3, <1>4, <1>5 DEF LiveInv, HubInv

LEMMA PublishInv ==
  ASSUME LiveInv, NEW w \in Writer, Publish(w)
  PROVE  LiveInv'
  <1>a. writer[w].at \in Replica
    BY DEF LiveInv, HubInv, PublisherOK, Publish
  <1>1. LiveTypeOK'
    <2> DEFINE q == [writer[w] EXCEPT !.phase = "sending", !.todo = hub[writer[w].at].clients]
    <2>1. hub[writer[w].at].clients \in SUBSET Stream
      BY <1>a DEF LiveInv, LiveTypeOK, HubState
    <2>2. q \in WriterState
      BY <2>1 DEF LiveInv, LiveTypeOK, WriterState
    <2>3. writer' = [writer EXCEPT ![w] = q]
      BY DEF Publish
    <2> HIDE DEF q
    <2> QED
      BY <2>2, <2>3 DEF LiveInv, LiveTypeOK, Publish
  <1>2. ClientsOpen'
    BY DEF LiveInv, LiveTypeOK, HubInv, ClientsOpen, Publish
  <1>3. \A d \in Stream : StreamOK(d)'
    BY DEF LiveInv, LiveTypeOK, HubInv, StreamOK, Publish
  <1>4. \A v \in Writer : PublisherOK(v)'
    BY DEF LiveInv, LiveTypeOK, HubInv, PublisherOK, HubState, WriterState, Publish
  <1>5. NoSilentMiss'
    BY DEF LiveInv, LiveTypeOK, HubInv, NoSilentMiss, Registered, WriterState, Publish
  <1> QED
    BY <1>1, <1>2, <1>3, <1>4, <1>5 DEF LiveInv, HubInv

LEMMA SendInv ==
  ASSUME LiveInv, NEW w \in Writer, NEW c \in Stream, Send(w, c)
  PROVE  LiveInv'
  <1> DEFINE full == stream[c].events = Buffer
             q == [stream[c] EXCEPT !.events = IF full THEN @ ELSE @ + 1, !.missed = @ \/ full]
             p == [writer[w] EXCEPT !.todo = @ \ {c}, !.slow = IF full THEN @ \cup {c} ELSE @]
  <1>a. stream[c] \in StreamState /\ writer[w] \in WriterState
    BY DEF LiveInv, LiveTypeOK
  <1>b. /\ stream[c].phase = "open" /\ c \in hub[writer[w].at].clients
        /\ stream[c].at = writer[w].at /\ writer[w].at \in Replica /\ ~ stream[c].done
    BY DEF LiveInv, HubInv, PublisherOK, ClientsOpen, Send
  <1>c. q.events \in 0..Buffer
    BY <1>a, BufferAssumption DEF StreamState
  <1>d. q.missed \in BOOLEAN /\ (q.missed => stream[c].missed \/ full)
    BY <1>a DEF StreamState
  <1>e. /\ q \in StreamState
        /\ q.phase = "open" /\ q.at = stream[c].at /\ q.tab = stream[c].tab
        /\ q.done = stream[c].done
    BY <1>a, <1>b, <1>c, <1>d DEF StreamState
  <1>f. /\ p \in WriterState
        /\ p.phase = "sending" /\ p.at = writer[w].at
        /\ p.todo = writer[w].todo \ {c}
        /\ p.slow = IF full THEN writer[w].slow \cup {c} ELSE writer[w].slow
    BY <1>a DEF WriterState, Send
  <1>g. stream' = [stream EXCEPT ![c] = q] /\ writer' = [writer EXCEPT ![w] = p]
    BY DEF Send
  <1>h. UNCHANGED <<version, hub, tab>>
    BY DEF Send
  <1> HIDE DEF full, q, p
  <1>1. LiveTypeOK'
    BY <1>e, <1>f, <1>g, <1>h DEF LiveInv, LiveTypeOK
  <1>2. ClientsOpen'
    BY <1>b, <1>e, <1>g, <1>h DEF LiveInv, LiveTypeOK, HubInv, ClientsOpen, HubState
  <1>3. \A d \in Stream : StreamOK(d)'
    BY <1>b, <1>e, <1>g DEF LiveInv, LiveTypeOK, HubInv, StreamOK
  <1>4. \A v \in Writer : PublisherOK(v)'
    BY <1>b, <1>e, <1>f, <1>g, <1>h DEF LiveInv, LiveTypeOK, HubInv, PublisherOK, WriterState
  <1>5. NoSilentMiss'
    BY <1>d, <1>f, <1>g, <1>h DEF LiveInv, LiveTypeOK, NoSilentMiss, Registered
  <1> QED
    BY <1>1, <1>2, <1>3, <1>4, <1>5 DEF LiveInv, HubInv

LEMMA SentInv ==
  ASSUME LiveInv, NEW w \in Writer, Sent(w)
  PROVE  LiveInv'
  <1>1. LiveTypeOK'
    BY BlanksTyped DEF LiveInv, LiveTypeOK, WriterState, Sent
  <1>2. ClientsOpen'
    BY DEF LiveInv, LiveTypeOK, HubInv, ClientsOpen, Sent
  <1>3. \A d \in Stream : StreamOK(d)'
    BY DEF LiveInv, LiveTypeOK, HubInv, StreamOK, Sent
  <1>4. \A v \in Writer : PublisherOK(v)'
    BY DEF LiveInv, LiveTypeOK, HubInv, PublisherOK, WriterState, Quiet, Sent
  <1>5. NoSilentMiss'
    BY DEF LiveInv, LiveTypeOK, HubInv, NoSilentMiss, Registered, WriterState, Sent
  <1> QED
    BY <1>1, <1>2, <1>3, <1>4, <1>5 DEF LiveInv, HubInv

LEMMA EvictInv ==
  ASSUME LiveInv, NEW w \in Writer, NEW c \in Stream, Evict(w, c)
  PROVE  LiveInv'
  <1> DEFINE rest == writer[w].slow \ {c}
             p == IF rest = {} THEN Quiet ELSE [writer[w] EXCEPT !.slow = rest]
             q == [stream[c] EXCEPT !.done = TRUE]
             i == stream[c].at
  <1>a. stream[c] \in StreamState /\ writer[w] \in WriterState /\ writer[w].phase = "evicting"
    BY DEF LiveInv, LiveTypeOK, Evict
  <1>b. /\ p \in WriterState /\ p.phase \in {"idle", "evicting"}
        /\ p.todo = {} /\ p.slow = writer[w].slow \ {c}
        /\ p.phase # "idle" => p.at = writer[w].at
        /\ p.slow # {} => p.phase = "evicting"
    BY <1>a, BlanksTyped DEF WriterState, Quiet, LiveInv, HubInv, PublisherOK
  <1>c. writer' = [writer EXCEPT ![w] = p] /\ UNCHANGED <<version, tab>>
    BY DEF Evict
  <1> HIDE DEF p
  <1>d. CASE Registered(c)
    <2>a. i \in Replica /\ c \in hub[i].clients /\ stream[c].phase = "open"
      BY <1>d DEF Registered, LiveInv, HubInv, ClientsOpen
    <2>b. /\ q \in StreamState
          /\ q.phase = stream[c].phase /\ q.at = i /\ q.tab = stream[c].tab
          /\ q.missed = stream[c].missed
      BY <1>a DEF StreamState
    <2>c. stream' = [stream EXCEPT ![c] = q] /\ hub' = [hub EXCEPT ![i].clients = @ \ {c}]
      BY <1>d DEF Evict, Unsubscribe
    <2>d. \A v \in Writer : writer[v].phase = "sending" => writer[v].at # i
      BY DEF Evict, Unsubscribe, ReadLocked
    <2>e. \A j \in Replica :
            hub'[j].clients = IF j = i THEN hub[i].clients \ {c} ELSE hub[j].clients
      BY <2>a, <2>c DEF LiveInv, LiveTypeOK, HubState
    <2>f. \A j \in Replica : c \notin hub'[j].clients
      BY <2>e DEF LiveInv, HubInv, ClientsOpen
    <2> HIDE DEF q, i
    <2>1. LiveTypeOK'
      BY <1>b, <1>c, <2>a, <2>b, <2>c DEF LiveInv, LiveTypeOK, HubState
    <2>2. ClientsOpen'
      BY <2>b, <2>c, <2>e, <2>f DEF LiveInv, LiveTypeOK, HubInv, ClientsOpen, HubState
    <2>3. \A d \in Stream : StreamOK(d)'
      BY <2>a, <2>b, <2>c DEF LiveInv, LiveTypeOK, HubInv, StreamOK, i
    <2>4. \A v \in Writer : PublisherOK(v)'
      BY <1>a, <1>b, <1>c, <2>a, <2>b, <2>c, <2>d, <2>e
         DEF LiveInv, LiveTypeOK, HubInv, PublisherOK, WriterState, i
    <2>5. NoSilentMiss'
      BY <1>b, <1>c, <2>b, <2>c, <2>e, <2>f DEF LiveInv, LiveTypeOK, NoSilentMiss, Registered
    <2> QED
      BY <2>1, <2>2, <2>3, <2>4, <2>5 DEF LiveInv, HubInv
  <1>e. CASE ~ Registered(c)
    <2>a. UNCHANGED <<hub, stream>>
      BY <1>e DEF Evict, Unsubscribe
    <2>1. LiveTypeOK'
      BY <1>b, <1>c, <2>a DEF LiveInv, LiveTypeOK
    <2>2. ClientsOpen'
      BY <2>a DEF LiveInv, HubInv, ClientsOpen
    <2>3. \A d \in Stream : StreamOK(d)'
      BY <2>a DEF LiveInv, HubInv, StreamOK
    <2>4. \A v \in Writer : PublisherOK(v)'
      BY <1>a, <1>b, <1>c, <2>a DEF LiveInv, LiveTypeOK, HubInv, PublisherOK, WriterState
    <2>5. NoSilentMiss'
      BY <1>b, <1>c, <1>e, <2>a DEF LiveInv, LiveTypeOK, NoSilentMiss, Registered
    <2> QED
      BY <2>1, <2>2, <2>3, <2>4, <2>5 DEF LiveInv, HubInv
  <1> QED
    BY <1>d, <1>e

-----------------------------------------------------------------------------
(* The stream handler.                                                     *)

LEMMA AcceptInv ==
  ASSUME LiveInv, NEW c \in Stream, NEW b \in Tab, NEW i \in Replica, Accept(c, b, i)
  PROVE  LiveInv'
  <1> DEFINE q == [Free EXCEPT !.phase = "accepted", !.at = i, !.tab = b]
             t == [tab[b] EXCEPT !.stream = c]
  <1>a. /\ q \in StreamState
        /\ q.phase = "accepted" /\ q.at = i /\ q.tab = b /\ ~ q.missed
    <2>1. Free \in StreamState /\ ~ Free.missed
      BY BlanksTyped DEF Free
    <2> QED
      BY <2>1 DEF StreamState
  <1>b. t \in TabState
    BY DEF LiveInv, LiveTypeOK, TabState
  <1>c. /\ stream' = [stream EXCEPT ![c] = q] /\ tab' = [tab EXCEPT ![b] = t]
        /\ UNCHANGED <<version, writer, hub>>
    BY DEF Accept
  <1>d. stream[c].phase = "none" /\ \A w \in Writer : c \notin writer[w].todo \cup writer[w].slow
    BY DEF Accept, Unreferenced
  <1>e. \A j \in Replica : c \notin hub[j].clients
    BY <1>d DEF LiveInv, HubInv, ClientsOpen
  <1> HIDE DEF q, t
  <1>1. LiveTypeOK'
    BY <1>a, <1>b, <1>c DEF LiveInv, LiveTypeOK
  <1>2. ClientsOpen'
    BY <1>a, <1>c, <1>e DEF LiveInv, LiveTypeOK, HubInv, ClientsOpen, HubState
  <1>3. \A d \in Stream : StreamOK(d)'
    BY <1>a, <1>c DEF LiveInv, LiveTypeOK, HubInv, StreamOK
  <1>4. \A v \in Writer : PublisherOK(v)'
    BY <1>c, <1>d DEF LiveInv, LiveTypeOK, HubInv, PublisherOK, WriterState
  <1>5. NoSilentMiss'
    BY <1>a, <1>c DEF LiveInv, LiveTypeOK, NoSilentMiss, Registered
  <1> QED
    BY <1>1, <1>2, <1>3, <1>4, <1>5 DEF LiveInv, HubInv

LEMMA SubscribeInv ==
  ASSUME LiveInv, NEW c \in Stream, Subscribe(c)
  PROVE  LiveInv'
  <1>a. stream[c].at \in Replica
    BY DEF LiveInv, HubInv, StreamOK, Subscribe
  <1>1. LiveTypeOK'
    <2> DEFINE i == stream[c].at
               q == [stream[c] EXCEPT !.phase = "open", !.done = hub[i].closed]
    <2>1. hub[i] \in HubState
      BY <1>a DEF LiveInv, LiveTypeOK
    <2>2. q \in StreamState
      BY <2>1 DEF LiveInv, LiveTypeOK, StreamState, HubState
    <2>3. stream' = [stream EXCEPT ![c] = q]
      BY DEF Subscribe
    <2>4. hub' \in [Replica -> HubState]
      BY <1>a, <2>1 DEF LiveInv, LiveTypeOK, HubState, Subscribe
    <2> HIDE DEF q
    <2> QED
      BY <2>2, <2>3, <2>4 DEF LiveInv, LiveTypeOK, Subscribe
  <1>2. ClientsOpen'
    BY DEF LiveInv, LiveTypeOK, HubInv, ClientsOpen, HubState, StreamState, StreamOK, Subscribe
  <1>3. \A d \in Stream : StreamOK(d)'
    BY DEF LiveInv, LiveTypeOK, HubInv, StreamOK, StreamState, Subscribe
  <1>4. \A v \in Writer : PublisherOK(v)'
    BY DEF LiveInv, LiveTypeOK, HubInv, PublisherOK, StreamOK, HubState, StreamState,
           WriterState, ReadLocked, Subscribe
  <1>5. NoSilentMiss'
    BY DEF LiveInv, LiveTypeOK, HubInv, NoSilentMiss, Registered, StreamOK, HubState,
           StreamState, Subscribe
  <1> QED
    BY <1>1, <1>2, <1>3, <1>4, <1>5 DEF LiveInv, HubInv

LEMMA ForwardInv ==
  ASSUME LiveInv, NEW c \in Stream, Forward(c)
  PROVE  LiveInv'
  <1> DEFINE b == stream[c].tab
             q == [stream[c] EXCEPT !.events = @ - 1]
             t == [tab[b] EXCEPT !.dirty = TRUE]
  <1>a. stream[c] \in StreamState /\ b \in Tab
    BY DEF LiveInv, LiveTypeOK, HubInv, StreamOK, Forward
  <1>b. stream[c].events - 1 \in 0..Buffer
    BY <1>a, BufferAssumption DEF StreamState, Forward
  <1>c. /\ q \in StreamState
        /\ q.phase = stream[c].phase /\ q.at = stream[c].at /\ q.tab = stream[c].tab
        /\ q.done = stream[c].done /\ q.missed = stream[c].missed
    BY <1>a, <1>b DEF StreamState
  <1>d. t \in TabState
    BY <1>a DEF LiveInv, LiveTypeOK, TabState
  <1>e. /\ stream' = [stream EXCEPT ![c] = q] /\ tab' = [tab EXCEPT ![b] = t]
        /\ UNCHANGED <<version, writer, hub>> /\ stream[c].phase = "open"
    BY DEF Forward
  <1> HIDE DEF q, t
  <1>1. LiveTypeOK'
    BY <1>a, <1>c, <1>d, <1>e DEF LiveInv, LiveTypeOK
  <1>2. ClientsOpen'
    BY <1>c, <1>e DEF LiveInv, LiveTypeOK, HubInv, ClientsOpen, HubState
  <1>3. \A d \in Stream : StreamOK(d)'
    BY <1>c, <1>e DEF LiveInv, LiveTypeOK, HubInv, StreamOK
  <1>4. \A v \in Writer : PublisherOK(v)'
    BY <1>c, <1>e DEF LiveInv, LiveTypeOK, HubInv, PublisherOK, WriterState
  <1>5. NoSilentMiss'
    BY <1>c, <1>e DEF LiveInv, LiveTypeOK, NoSilentMiss, Registered
  <1> QED
    BY <1>1, <1>2, <1>3, <1>4, <1>5 DEF LiveInv, HubInv

LEMMA ReturnInv ==
  ASSUME LiveInv, NEW c \in Stream, Return(c)
  PROVE  LiveInv'
  <1>1. LiveTypeOK'
    BY BlanksTyped DEF LiveInv, LiveTypeOK, StreamState, HubState, HubInv, StreamOK, Return
  <1>2. ClientsOpen'
    BY DEF LiveInv, LiveTypeOK, HubInv, ClientsOpen, StreamOK, HubState, Return
  <1>3. \A d \in Stream : StreamOK(d)'
    BY DEF LiveInv, LiveTypeOK, HubInv, StreamOK, Free, Return
  <1>4. \A v \in Writer : PublisherOK(v)'
    BY DEF LiveInv, LiveTypeOK, HubInv, ClientsOpen, PublisherOK, StreamOK, HubState,
           WriterState, Free, ReadLocked, Return
  <1>5. NoSilentMiss'
    BY DEF LiveInv, LiveTypeOK, HubInv, NoSilentMiss, Registered, StreamOK, HubState, Free, Return
  <1> QED
    BY <1>1, <1>2, <1>3, <1>4, <1>5 DEF LiveInv, HubInv

-----------------------------------------------------------------------------
LEMMA LiveNextInv == LiveInv /\ [LiveNext]_liveVars => LiveInv'
  <1> SUFFICES ASSUME LiveInv, [LiveNext]_liveVars
               PROVE  LiveInv'
    OBVIOUS
  <1>1. CASE UNCHANGED liveVars
    <2>1. LiveTypeOK' /\ HubInv' /\ NoSilentMiss'
      BY <1>1 DEF LiveInv, LiveTypeOK, HubInv, ClientsOpen, StreamOK, PublisherOK, NoSilentMiss,
                  Registered, liveVars
    <2> QED
      BY <2>1 DEF LiveInv
  <1>2. ASSUME NEW i \in Replica, Close(i) \/ Restart(i)
        PROVE  LiveInv'
    BY <1>2, CloseInv, RestartInv
  <1>3. ASSUME NEW w \in Writer, NEW i \in Replica, Change(w, i)
        PROVE  LiveInv'
    BY <1>3, ChangeInv
  <1>4. ASSUME NEW w \in Writer, PublishNext(w)
        PROVE  LiveInv'
    BY <1>4, PublishInv, SentInv, SendInv, EvictInv DEF PublishNext
  <1>5. ASSUME NEW c \in Stream, Subscribe(c) \/ Forward(c) \/ Return(c)
        PROVE  LiveInv'
    BY <1>5, SubscribeInv, ForwardInv, ReturnInv
  <1>6. ASSUME NEW c \in Stream, NEW b \in Tab, NEW i \in Replica, Accept(c, b, i)
        PROVE  LiveInv'
    BY <1>6, AcceptInv
  <1>7. ASSUME NEW b \in Tab, TabNext(b) \/ ConnectionFails(b) \/ Hide(b) \/ Show(b)
        PROVE  LiveInv'
    BY <1>7, ConnectedInv, RefetchInv, DropInv
       DEF TabNext, StreamEnds, Retry, ConnectionFails, Hide, Show
  <1> QED
    BY <1>1, <1>2, <1>3, <1>4, <1>5, <1>6, <1>7 DEF LiveNext

LEMMA LiveInvariant == LiveSafety => []LiveInv
  BY LiveInitInv, LiveNextInv, PTL DEF LiveSafety

\* Types: a buffer never holds more events than its capacity.
THEOREM LiveTypeCorrect == LiveSafety => []LiveTypeOK
  <1>1. LiveInv => LiveTypeOK
    BY DEF LiveInv
  <1> QED
    BY <1>1, LiveInvariant, PTL

\* publish never sends on a closed channel: whom it has yet to send to cannot leave
\* before it gives the read lock back.
THEOREM PublishNeverPanics == LiveSafety => []NoSendOnClosed
  <1>1. LiveInv => NoSendOnClosed
    <2> SUFFICES ASSUME LiveInv, NEW w \in Writer, NEW c \in writer[w].todo
                 PROVE  ~ stream[c].done /\ Registered(c)
      BY DEF NoSendOnClosed
    <2>1. PublisherOK(w) /\ ClientsOpen
      BY DEF LiveInv, HubInv
    <2>2. writer[w].at \in Replica /\ c \in hub[writer[w].at].clients
      BY <2>1 DEF PublisherOK
    <2> QED
      BY <2>1, <2>2 DEF ClientsOpen, Registered
  <1> QED
    BY <1>1, LiveInvariant, PTL

\* Unsubscribe, Close and Subscribe never close the channels of a client twice.
THEOREM ChannelsNeverClosedTwice == LiveSafety => []ChannelsClosedOnce
  <1>1. LiveInv => ChannelsClosedOnce
    BY DEF LiveInv, HubInv, ClientsOpen, ChannelsClosedOnce
  <1> QED
    BY <1>1, LiveInvariant, PTL

\* A client that missed an event is disconnected, or about to be, by the publisher
\* that could not send to it.
THEOREM MissedEventsDisconnect == LiveSafety => []NoSilentMiss
  <1>1. LiveInv => NoSilentMiss
    BY DEF LiveInv
  <1> QED
    BY <1>1, LiveInvariant, PTL
-----------------------------------------------------------------------------
(* Why no fetch is forgotten: how tabs, streams and publishers fit.        *)

\* A connected tab has a stream, and will fetch when it reconnects.
TabOK(b) == tab[b].phase = "connected" => tab[b].once /\ tab[b].stream \in Stream \ {None}

\* A stream that is handled and no longer registered has been told to end; one
\* that is not yet registered has not.
OpenOK(c) ==
  /\ stream[c].phase = "accepted" => ~ stream[c].done
  /\ stream[c].phase = "open" /\ ~ Registered(c) => stream[c].done

\* A slow client has been registered: its slot is not taken again.
SlowOK(w) == \A c \in writer[w].slow : stream[c].phase # "accepted"

FetchInv ==
  /\ \A b \in Tab : TabOK(b)
  /\ \A c \in Stream : OpenOK(c)
  /\ \A w \in Writer : SlowOK(w)
  /\ \A i \in Replica : hub[i].closed => hub[i].clients = {}

\* What a step does to the fetches that are due.
StillDue == \A b \in Tab : FetchDue(b) =>
              FetchDue(b)' \/ tab'[b].seen = version \/ tab'[b].phase = "hidden"

LEMMA FetchInitInv == LiveInit => FetchInv
  BY DEF LiveInit, FetchInv, TabOK, OpenOK, SlowOK, Quiet, Free

\* A client is registered with the hub of its process only.
LEMMA RegisteredAt ==
  ASSUME LiveInv, NEW c \in Stream
  PROVE  Registered(c) <=> stream[c].at \in Replica /\ c \in hub[stream[c].at].clients
  BY DEF LiveInv, HubInv, ClientsOpen, Registered

LEMMA TabOnlyFetchInv ==
  ASSUME LiveInv, FetchInv, NEW b \in Tab, NEW q \in TabState, tab' = [tab EXCEPT ![b] = q],
         q.phase = "connected" => q.once /\ q.stream \in Stream \ {None},
         UNCHANGED <<version, writer, hub, stream>>
  PROVE  FetchInv'
  BY DEF LiveInv, LiveTypeOK, FetchInv, TabOK, OpenOK, SlowOK, Registered

LEMMA CloseFetchInv ==
  ASSUME LiveInv, FetchInv, NEW i \in Replica, Close(i)
  PROVE  FetchInv'
  <1>1. \A b \in Tab : TabOK(b)'
    BY DEF FetchInv, TabOK, Close
  <1>2. \A c \in Stream : OpenOK(c)'
    BY DEF LiveInv, LiveTypeOK, HubInv, ClientsOpen, FetchInv, OpenOK, Registered, HubState,
           StreamState, Close
  <1>3. \A w \in Writer : SlowOK(w)'
    BY DEF LiveInv, LiveTypeOK, FetchInv, SlowOK, StreamState, WriterState, Close
  <1>4. \A j \in Replica : hub'[j].closed => hub'[j].clients = {}
    BY DEF LiveInv, LiveTypeOK, FetchInv, Close
  <1> QED
    BY <1>1, <1>2, <1>3, <1>4 DEF FetchInv

LEMMA RestartFetchInv ==
  ASSUME LiveInv, FetchInv, NEW i \in Replica, Restart(i)
  PROVE  FetchInv'
  <1>1. \A b \in Tab : TabOK(b)'
    BY DEF FetchInv, TabOK, Restart
  <1>2. \A c \in Stream : OpenOK(c)'
    BY DEF LiveInv, LiveTypeOK, HubInv, ClientsOpen, FetchInv, OpenOK, Registered, HubState,
           StreamState, Free, Restart
  <1>3. \A w \in Writer : SlowOK(w)'
    BY DEF LiveInv, LiveTypeOK, FetchInv, SlowOK, StreamState, WriterState, Free, Quiet, Restart
  <1>4. \A j \in Replica : hub'[j].closed => hub'[j].clients = {}
    BY DEF LiveInv, LiveTypeOK, FetchInv, Restart
  <1> QED
    BY <1>1, <1>2, <1>3, <1>4 DEF FetchInv

LEMMA ChangeFetchInv ==
  ASSUME LiveInv, FetchInv, NEW w \in Writer, NEW i \in Replica, Change(w, i)
  PROVE  FetchInv'
  BY DEF LiveInv, LiveTypeOK, FetchInv, TabOK, OpenOK, SlowOK, Registered, Quiet, Change

LEMMA PublishFetchInv ==
  ASSUME LiveInv, FetchInv, NEW w \in Writer, Publish(w)
  PROVE  FetchInv'
  BY DEF LiveInv, LiveTypeOK, FetchInv, TabOK, OpenOK, SlowOK, Registered, WriterState, Publish

LEMMA SentFetchInv ==
  ASSUME LiveInv, FetchInv, NEW w \in Writer, Sent(w)
  PROVE  FetchInv'
  BY DEF LiveInv, LiveTypeOK, FetchInv, TabOK, OpenOK, SlowOK, Registered, WriterState, Quiet, Sent

LEMMA AcceptFetchInv ==
  ASSUME LiveInv, FetchInv, NEW c \in Stream, NEW b \in Tab, NEW i \in Replica, Accept(c, b, i)
  PROVE  FetchInv'
  <1>1. \A d \in Tab : TabOK(d)'
    BY DEF LiveInv, LiveTypeOK, FetchInv, TabOK, TabState, Accept
  <1>2. \A d \in Stream : OpenOK(d)'
    BY DEF LiveInv, LiveTypeOK, FetchInv, OpenOK, Registered, Free, Accept
  <1>3. \A w \in Writer : SlowOK(w)'
    BY DEF LiveInv, LiveTypeOK, FetchInv, SlowOK, Unreferenced, WriterState, Accept
  <1>4. \A j \in Replica : hub'[j].closed => hub'[j].clients = {}
    BY DEF FetchInv, Accept
  <1> QED
    BY <1>1, <1>2, <1>3, <1>4 DEF FetchInv

LEMMA SubscribeFetchInv ==
  ASSUME LiveInv, FetchInv, NEW c \in Stream, Subscribe(c)
  PROVE  FetchInv'
  <1>a. stream[c].at \in Replica
    BY DEF LiveInv, HubInv, StreamOK, Subscribe
  <1>1. \A d \in Tab : TabOK(d)'
    BY DEF FetchInv, TabOK, Subscribe
  <1>2. \A d \in Stream : OpenOK(d)'
    BY <1>a DEF LiveInv, LiveTypeOK, FetchInv, OpenOK, Registered, HubState, StreamState, Subscribe
  <1>3. \A w \in Writer : SlowOK(w)'
    BY DEF LiveInv, LiveTypeOK, FetchInv, SlowOK, StreamState, WriterState, Subscribe
  <1>4. \A j \in Replica : hub'[j].closed => hub'[j].clients = {}
    BY <1>a DEF LiveInv, LiveTypeOK, FetchInv, HubState, Subscribe
  <1> QED
    BY <1>1, <1>2, <1>3, <1>4 DEF FetchInv

LEMMA ForwardFetchInv ==
  ASSUME LiveInv, FetchInv, NEW c \in Stream, Forward(c)
  PROVE  FetchInv'
  <1>1. \A d \in Tab : TabOK(d)'
    BY DEF LiveInv, LiveTypeOK, FetchInv, TabOK, TabState, Forward
  <1>2. \A d \in Stream : OpenOK(d)'
    BY DEF LiveInv, LiveTypeOK, FetchInv, OpenOK, Registered, StreamState, Forward
  <1>3. \A w \in Writer : SlowOK(w)'
    BY DEF LiveInv, LiveTypeOK, FetchInv, SlowOK, StreamState, WriterState, Forward
  <1>4. \A j \in Replica : hub'[j].closed => hub'[j].clients = {}
    BY DEF FetchInv, Forward
  <1> QED
    BY <1>1, <1>2, <1>3, <1>4 DEF FetchInv

LEMMA ReturnFetchInv ==
  ASSUME LiveInv, FetchInv, NEW c \in Stream, Return(c)
  PROVE  FetchInv'
  <1>a. stream[c].at \in Replica
    BY DEF LiveInv, HubInv, StreamOK, Return
  <1>1. \A d \in Tab : TabOK(d)'
    BY DEF FetchInv, TabOK, Return
  <1>2. \A d \in Stream : OpenOK(d)'
    BY <1>a DEF LiveInv, LiveTypeOK, FetchInv, OpenOK, Registered, HubState, Free, Return
  <1>3. \A w \in Writer : SlowOK(w)'
    BY DEF LiveInv, LiveTypeOK, FetchInv, SlowOK, WriterState, Free, Return
  <1>4. \A j \in Replica : hub'[j].closed => hub'[j].clients = {}
    BY <1>a DEF LiveInv, LiveTypeOK, FetchInv, HubState, Return
  <1> QED
    BY <1>1, <1>2, <1>3, <1>4 DEF FetchInv

\* What Send does, field by field.
LEMMA SendEffect ==
  ASSUME LiveInv, NEW w \in Writer, NEW c \in Stream, Send(w, c)
  PROVE  /\ stream[c].phase = "open"
         /\ stream'[c].phase = "open" /\ stream'[c].at = stream[c].at
         /\ stream'[c].done = stream[c].done /\ stream'[c].events > 0
         /\ \A d \in Stream \ {c} : stream'[d] = stream[d]
         /\ writer'[w].phase = "sending" /\ writer'[w].at = writer[w].at
         /\ writer'[w].todo = writer[w].todo \ {c}
         /\ writer[w].slow \subseteq writer'[w].slow
         /\ writer'[w].slow \subseteq writer[w].slow \cup {c}
         /\ \A v \in Writer \ {w} : writer'[v] = writer[v]
         /\ UNCHANGED <<version, hub, tab>>
  <1>1. stream[c] \in StreamState /\ writer[w] \in WriterState
    BY DEF LiveInv, LiveTypeOK
  <1>2. stream[c].phase = "open"
    BY DEF LiveInv, HubInv, PublisherOK, ClientsOpen, Send
  <1>3. stream'[c].events > 0
    BY <1>1, BufferAssumption DEF LiveInv, LiveTypeOK, StreamState, Send
  <1>4. stream'[c].phase = "open" /\ stream'[c].at = stream[c].at /\ stream'[c].done = stream[c].done
    BY <1>1, <1>2 DEF LiveInv, LiveTypeOK, StreamState, Send
  <1>5. /\ writer'[w].phase = "sending" /\ writer'[w].at = writer[w].at
        /\ writer'[w].todo = writer[w].todo \ {c}
        /\ writer[w].slow \subseteq writer'[w].slow
        /\ writer'[w].slow \subseteq writer[w].slow \cup {c}
    BY <1>1 DEF LiveInv, LiveTypeOK, WriterState, Send
  <1>6. /\ \A d \in Stream \ {c} : stream'[d] = stream[d]
        /\ \A v \in Writer \ {w} : writer'[v] = writer[v]
        /\ UNCHANGED <<version, hub, tab>>
    BY DEF LiveInv, LiveTypeOK, Send
  <1> QED
    BY <1>2, <1>3, <1>4, <1>5, <1>6

LEMMA SendFetchInv ==
  ASSUME LiveInv, FetchInv, NEW w \in Writer, NEW c \in Stream, Send(w, c)
  PROVE  FetchInv'
  <1> USE SendEffect
  <1>1. \A d \in Tab : TabOK(d)'
    BY DEF FetchInv, TabOK
  <1>2. \A d \in Stream : OpenOK(d)'
    BY DEF FetchInv, OpenOK, Registered
  <1>3. \A v \in Writer : SlowOK(v)'
    BY DEF LiveInv, LiveTypeOK, WriterState, FetchInv, SlowOK
  <1>4. \A j \in Replica : hub'[j].closed => hub'[j].clients = {}
    BY DEF FetchInv
  <1> QED
    BY <1>1, <1>2, <1>3, <1>4 DEF FetchInv

\* What Evict does, field by field: the client is not registered any more.
LEMMA EvictEffect ==
  ASSUME LiveInv, FetchInv, NEW w \in Writer, NEW c \in Stream, Evict(w, c)
  PROVE  /\ stream'[c].phase = stream[c].phase /\ stream'[c].at = stream[c].at
         /\ stream'[c].phase = "none" \/ (stream'[c].phase = "open" /\ stream'[c].done)
         /\ \A d \in Stream \ {c} : stream'[d] = stream[d]
         /\ \A d \in Stream \ {c} : Registered(d)' <=> Registered(d)
         /\ ~ Registered(c)'
         /\ \A j \in Replica : /\ hub'[j].closed = hub[j].closed
                               /\ hub'[j].clients \subseteq hub[j].clients
         /\ writer[w].phase = "evicting" /\ writer[w].todo = {}
         /\ writer'[w].phase # "changed"
         /\ writer'[w].slow = writer[w].slow \ {c}
         /\ \A v \in Writer \ {w} : writer'[v] = writer[v]
         /\ UNCHANGED <<version, tab>>
  <1>a. stream[c] \in StreamState /\ writer[w] \in WriterState /\ writer[w].phase = "evicting"
    BY DEF LiveInv, LiveTypeOK, Evict
  <1>b. writer[w].todo = {} /\ c \in writer[w].slow
    BY <1>a DEF LiveInv, HubInv, PublisherOK, Evict
  <1>1. /\ writer'[w].phase # "changed" /\ writer'[w].slow = writer[w].slow \ {c}
        /\ \A v \in Writer \ {w} : writer'[v] = writer[v]
        /\ UNCHANGED <<version, tab>>
    BY <1>a DEF LiveInv, LiveTypeOK, WriterState, Quiet, Evict
  <1>2. CASE Registered(c)
    <2>1. stream[c].at \in Replica /\ c \in hub[stream[c].at].clients /\ stream[c].phase = "open"
      BY <1>2 DEF Registered, LiveInv, HubInv, ClientsOpen
    <2>2. /\ stream'[c].phase = "open" /\ stream'[c].at = stream[c].at /\ stream'[c].done
          /\ \A d \in Stream \ {c} : stream'[d] = stream[d]
      BY <1>2, <1>a, <2>1 DEF LiveInv, LiveTypeOK, StreamState, Evict, Unsubscribe
    <2>3. hub' = [hub EXCEPT ![stream[c].at].clients = @ \ {c}]
      BY <1>2 DEF Evict, Unsubscribe
    <2>4. \A j \in Replica :
            /\ hub'[j].closed = hub[j].closed
            /\ hub'[j].clients = IF j = stream[c].at THEN hub[j].clients \ {c} ELSE hub[j].clients
      BY <2>1, <2>3 DEF LiveInv, LiveTypeOK, HubState
    <2>5. \A j \in Replica : c \notin hub'[j].clients
      <3>1. \A j \in Replica : c \in hub[j].clients => j = stream[c].at
        BY DEF LiveInv, HubInv, ClientsOpen
      <3> QED
        BY <2>4, <3>1
    <2> QED
      BY <1>a, <1>b, <1>1, <2>1, <2>2, <2>4, <2>5 DEF Registered
  <1>3. CASE ~ Registered(c)
    <2>1. UNCHANGED <<hub, stream>>
      BY <1>3 DEF Evict, Unsubscribe
    <2>2. stream[c].phase = "none" \/ (stream[c].phase = "open" /\ stream[c].done)
      BY <1>a, <1>b, <1>3 DEF FetchInv, OpenOK, SlowOK, StreamState
    <2> QED
      BY <1>a, <1>b, <1>1, <1>3, <2>1, <2>2 DEF Registered
  <1> QED
    BY <1>2, <1>3

LEMMA EvictFetchInv ==
  ASSUME LiveInv, FetchInv, NEW w \in Writer, NEW c \in Stream, Evict(w, c)
  PROVE  FetchInv'
  <1> USE EvictEffect
  <1>1. \A d \in Tab : TabOK(d)'
    BY DEF FetchInv, TabOK
  <1>2. \A d \in Stream : OpenOK(d)'
    BY DEF FetchInv, OpenOK
  <1>3. \A v \in Writer : SlowOK(v)'
    BY DEF LiveInv, LiveTypeOK, WriterState, FetchInv, SlowOK
  <1>4. \A j \in Replica : hub'[j].closed => hub'[j].clients = {}
    BY DEF FetchInv
  <1> QED
    BY <1>1, <1>2, <1>3, <1>4 DEF FetchInv

LEMMA DropFetchInv ==
  ASSUME LiveInv, FetchInv, NEW b \in Tab, NEW phase \in {"connecting", "waiting", "hidden"},
         Drop(b, phase)
  PROVE  FetchInv'
  <1> DEFINE q == [tab[b] EXCEPT !.phase = phase, !.stream = None, !.resynced = FALSE]
  <1>1. q \in TabState /\ q.phase # "connected"
    BY DEF LiveInv, LiveTypeOK, TabState
  <1>2. tab' = [tab EXCEPT ![b] = q] /\ UNCHANGED <<version, writer, hub, stream>>
    BY DEF Drop
  <1> HIDE DEF q
  <1> QED
    BY <1>1, <1>2, TabOnlyFetchInv

LEMMA ConnectedFetchInv ==
  ASSUME LiveInv, FetchInv, NEW b \in Tab, Connected(b)
  PROVE  FetchInv'
  <1> DEFINE q == [tab[b] EXCEPT !.phase = "connected", !.once = TRUE,
                                 !.resynced = tab[b].once, !.dirty = @ \/ tab[b].once]
  <1>1. q \in TabState /\ q.once /\ q.stream \in Stream \ {None}
    BY DEF LiveInv, LiveTypeOK, TabState, Connected
  <1>2. tab' = [tab EXCEPT ![b] = q] /\ UNCHANGED <<version, writer, hub, stream>>
    BY DEF Connected
  <1> HIDE DEF q
  <1> QED
    BY <1>1, <1>2, TabOnlyFetchInv

LEMMA RefetchFetchInv ==
  ASSUME LiveInv, FetchInv, NEW b \in Tab, Refetch(b)
  PROVE  FetchInv'
  <1> DEFINE q == [tab[b] EXCEPT !.dirty = FALSE, !.seen = version]
  <1>1. q \in TabState /\ (q.phase = "connected" => q.once /\ q.stream \in Stream \ {None})
    BY DEF LiveInv, LiveTypeOK, TabState, FetchInv, TabOK
  <1>2. tab' = [tab EXCEPT ![b] = q] /\ UNCHANGED <<version, writer, hub, stream>>
    BY DEF Refetch
  <1> HIDE DEF q
  <1> QED
    BY <1>1, <1>2, TabOnlyFetchInv

LEMMA FetchNextInv == LiveInv /\ FetchInv /\ [LiveNext]_liveVars => FetchInv'
  <1> SUFFICES ASSUME LiveInv, FetchInv, [LiveNext]_liveVars
               PROVE  FetchInv'
    OBVIOUS
  <1>1. CASE UNCHANGED liveVars
    BY <1>1 DEF FetchInv, TabOK, OpenOK, SlowOK, Registered, liveVars
  <1>2. ASSUME NEW i \in Replica, Close(i) \/ Restart(i)
        PROVE  FetchInv'
    BY <1>2, CloseFetchInv, RestartFetchInv
  <1>3. ASSUME NEW w \in Writer, NEW i \in Replica, Change(w, i)
        PROVE  FetchInv'
    BY <1>3, ChangeFetchInv
  <1>4. ASSUME NEW w \in Writer, PublishNext(w)
        PROVE  FetchInv'
    BY <1>4, PublishFetchInv, SentFetchInv, SendFetchInv, EvictFetchInv DEF PublishNext
  <1>5. ASSUME NEW c \in Stream, Subscribe(c) \/ Forward(c) \/ Return(c)
        PROVE  FetchInv'
    BY <1>5, SubscribeFetchInv, ForwardFetchInv, ReturnFetchInv
  <1>6. ASSUME NEW c \in Stream, NEW b \in Tab, NEW i \in Replica, Accept(c, b, i)
        PROVE  FetchInv'
    BY <1>6, AcceptFetchInv
  <1>7. ASSUME NEW b \in Tab, TabNext(b) \/ ConnectionFails(b) \/ Hide(b) \/ Show(b)
        PROVE  FetchInv'
    BY <1>7, ConnectedFetchInv, RefetchFetchInv, DropFetchInv
       DEF TabNext, StreamEnds, Retry, ConnectionFails, Hide, Show
  <1> QED
    BY <1>1, <1>2, <1>3, <1>4, <1>5, <1>6, <1>7 DEF LiveNext

LEMMA FetchInvariant == LiveSafety => []FetchInv
  BY LiveInvariant, FetchInitInv, FetchNextInv, PTL DEF LiveSafety

\* The stream of a tab, as long as it is handled, is that of no other tab.
StreamOfTab(b) ==
  LET c == tab[b].stream IN c # None /\ stream[c].phase # "none" => stream[c].tab = b

OwnerInv == \A b \in Tab : StreamOfTab(b)

\* A step that accepts nobody.
OwnersKept ==
  /\ \A c \in Stream : stream'[c].phase # "none" => stream[c].phase # "none" /\ stream'[c].tab = stream[c].tab
  /\ \A b \in Tab : tab'[b].stream \in {tab[b].stream, None}

LEMMA OwnersKeptInv ==
  ASSUME LiveInv, OwnerInv, OwnersKept
  PROVE  OwnerInv'
  BY DEF LiveInv, LiveTypeOK, TabState, OwnerInv, StreamOfTab, OwnersKept

LEMMA AcceptOwnerInv ==
  ASSUME LiveInv, OwnerInv, NEW c \in Stream, NEW b \in Tab, NEW i \in Replica, Accept(c, b, i)
  PROVE  OwnerInv'
  <1>1. /\ stream'[c].tab = b
        /\ \A d \in Stream \ {c} : stream'[d] = stream[d]
        /\ tab'[b].stream = c
        /\ \A a \in Tab \ {b} : tab'[a] = tab[a] /\ tab[a].stream # c
    BY DEF LiveInv, LiveTypeOK, TabState, Free, Unreferenced, Accept
  <1> QED
    BY <1>1 DEF LiveInv, LiveTypeOK, TabState, OwnerInv, StreamOfTab

LEMMA OwnerNextInv == LiveInv /\ FetchInv /\ OwnerInv /\ [LiveNext]_liveVars => OwnerInv'
  <1> SUFFICES ASSUME LiveInv, FetchInv, OwnerInv, [LiveNext]_liveVars
               PROVE  OwnerInv'
    OBVIOUS
  <1>1. CASE UNCHANGED liveVars
    BY <1>1 DEF OwnerInv, StreamOfTab, liveVars
  <1>2. ASSUME NEW i \in Replica, Close(i) \/ Restart(i)
        PROVE  OwnersKept
    BY <1>2 DEF LiveInv, LiveTypeOK, StreamState, Free, Close, Restart, OwnersKept
  <1>3. ASSUME NEW w \in Writer, NEW i \in Replica, Change(w, i)
        PROVE  OwnersKept
    BY <1>3 DEF Change, OwnersKept
  <1>4. ASSUME NEW w \in Writer, PublishNext(w)
        PROVE  OwnersKept
    <2>1. CASE Publish(w) \/ Sent(w)
      BY <2>1 DEF Publish, Sent, OwnersKept
    <2>2. ASSUME NEW c \in Stream, Send(w, c)
          PROVE  OwnersKept
      BY <2>2 DEF LiveInv, LiveTypeOK, StreamState, Send, OwnersKept
    <2>3. ASSUME NEW c \in Stream, Evict(w, c)
          PROVE  OwnersKept
      BY <2>3 DEF LiveInv, LiveTypeOK, StreamState, Evict, Unsubscribe, OwnersKept
    <2> QED
      BY <1>4, <2>1, <2>2, <2>3 DEF PublishNext
  <1>5. ASSUME NEW c \in Stream, Subscribe(c) \/ Forward(c) \/ Return(c)
        PROVE  OwnersKept
    <2>1. CASE Subscribe(c)
      BY <2>1 DEF LiveInv, LiveTypeOK, StreamState, Subscribe, OwnersKept
    <2>2. CASE Forward(c)
      BY <2>2 DEF LiveInv, LiveTypeOK, StreamState, TabState, Forward, OwnersKept
    <2>3. CASE Return(c)
      BY <2>3 DEF LiveInv, LiveTypeOK, StreamState, Free, Return, OwnersKept
    <2> QED
      BY <1>5, <2>1, <2>2, <2>3
  <1>6. ASSUME NEW c \in Stream, NEW b \in Tab, NEW i \in Replica, Accept(c, b, i)
        PROVE  OwnerInv'
    BY <1>6, AcceptOwnerInv
  <1>7. ASSUME NEW b \in Tab, TabNext(b) \/ ConnectionFails(b) \/ Hide(b) \/ Show(b)
        PROVE  OwnersKept
    <2>1. stream' = stream
      BY <1>7 DEF TabNext, Connected, StreamEnds, Retry, Refetch, ConnectionFails, Hide, Show, Drop
    <2>2. \A a \in Tab : tab'[a].stream \in {tab[a].stream, None}
      BY <1>7 DEF LiveInv, LiveTypeOK, TabState, TabNext, Connected, StreamEnds, Retry, Refetch,
                  ConnectionFails, Hide, Show, Drop
    <2> QED
      BY <2>1, <2>2 DEF OwnersKept
  <1> QED
    BY <1>1, <1>2, <1>3, <1>4, <1>5, <1>6, <1>7, OwnersKeptInv DEF LiveNext

LEMMA OwnerInvariant == LiveSafety => []OwnerInv
  <1>1. LiveInit => OwnerInv
    BY DEF LiveInit, OwnerInv, StreamOfTab
  <1> QED
    BY <1>1, LiveInvariant, FetchInvariant, OwnerNextInv, PTL DEF LiveSafety

\* Close, and a Subscribe after it, end every stream of the process.
THEOREM ClosedHubEnds == LiveSafety => []ClosedHubEndsStreams
  <1>1. LiveInv /\ FetchInv => ClosedHubEndsStreams
    <2> SUFFICES ASSUME LiveInv, FetchInv, NEW c \in Stream, stream[c].phase = "open",
                        hub[stream[c].at].closed
                 PROVE  stream[c].done
      BY DEF ClosedHubEndsStreams
    <2>1. stream[c].at \in Replica
      BY DEF LiveInv, HubInv, StreamOK
    <2>2. ~ Registered(c)
      BY <2>1, RegisteredAt DEF FetchInv
    <2> QED
      BY <2>2 DEF FetchInv, OpenOK
  <1> QED
    BY <1>1, LiveInvariant, FetchInvariant, PTL

-----------------------------------------------------------------------------
(* What each step does to a fetch that is due.                             *)

\* An event is on its way to a client: a publisher has it on one of its lists, or
\* will find it registered.
Announced(c) ==
  \/ \E w \in Writer : c \in writer[w].todo \cup writer[w].slow
  \/ Registered(c) /\ \E w \in Writer : writer[w].phase = "changed" /\ writer[w].at = stream[c].at

\* What keeps a fetch of a connected tab due, for its stream.
Owed(c) ==
  \/ stream[c].phase = "none" \/ stream[c].done \/ stream[c].events > 0
  \/ Announced(c)

LEMMA DueForm ==
  \A b \in Tab : FetchDue(b) <=>
    \/ tab[b].dirty
    \/ tab[b].once /\ tab[b].phase \in {"connecting", "waiting"}
    \/ tab[b].phase = "connected" /\ Owed(tab[b].stream)
  BY DEF FetchDue, Owed, Announced

\* A step that leaves the tabs alone and keeps what is owed to each stream that a
\* connected tab has.
LEMMA StreamStepDue ==
  ASSUME LiveInv, FetchInv, UNCHANGED tab,
         \A c \in Stream : Owed(c) => Owed(c)'
  PROVE  StillDue
  <1> SUFFICES ASSUME NEW b \in Tab, FetchDue(b)
               PROVE  FetchDue(b)'
    BY DEF StillDue
  <1>1. tab[b].phase = "connected" => tab[b].stream \in Stream
    BY DEF FetchInv, TabOK
  <1>2. FetchDue(b)' <=>
          \/ tab'[b].dirty
          \/ tab'[b].once /\ tab'[b].phase \in {"connecting", "waiting"}
          \/ tab'[b].phase = "connected" /\ Owed(tab[b].stream)'
    BY DEF FetchDue, Owed, Announced
  <1> QED
    BY <1>1, <1>2, DueForm

LEMMA CloseDue ==
  ASSUME LiveInv, FetchInv, NEW i \in Replica, Close(i)
  PROVE  StillDue
  <1> SUFFICES ASSUME NEW c \in Stream, Owed(c)
               PROVE  Owed(c)'
    BY StreamStepDue DEF Close
  <1>1. CASE c \in hub[i].clients
    <2>1. stream'[c].done
      BY <1>1 DEF LiveInv, LiveTypeOK, StreamState, Close
    <2> QED
      BY <2>1 DEF Owed
  <1>2. CASE c \notin hub[i].clients
    <2>1. stream'[c] = stream[c] /\ writer' = writer
      BY <1>2 DEF LiveInv, LiveTypeOK, Close
    <2>2. Registered(c) => Registered(c)'
      BY <1>2 DEF LiveInv, LiveTypeOK, Registered, Close
    <2> QED
      BY <2>1, <2>2 DEF Owed, Announced
  <1> QED
    BY <1>1, <1>2

LEMMA RestartDue ==
  ASSUME LiveInv, FetchInv, NEW i \in Replica, Restart(i)
  PROVE  StillDue
  <1> SUFFICES ASSUME NEW c \in Stream, Owed(c)
               PROVE  Owed(c)'
    BY StreamStepDue DEF Restart
  <1>1. CASE stream[c].at = i
    <2>1. stream'[c].phase = "none"
      BY <1>1 DEF Free, Restart
    <2> QED
      BY <2>1 DEF Owed
  <1>2. CASE stream[c].at # i /\ stream[c].phase # "none"
    <2>1. stream'[c] = stream[c]
      BY <1>2 DEF Restart
    <2>2. Registered(c) => Registered(c)'
      BY <1>2, RegisteredAt DEF LiveInv, LiveTypeOK, Registered, Restart
    <2>3. \A w \in Writer : c \in writer[w].todo \cup writer[w].slow => writer[w].at = stream[c].at
      BY <1>2 DEF LiveInv, HubInv, PublisherOK, ClientsOpen
    <2>4. \A w \in Writer : writer[w].at = stream[c].at => writer'[w] = writer[w]
      BY <1>2 DEF Restart
    <2> QED
      BY <2>1, <2>2, <2>3, <2>4 DEF Owed, Announced
  <1>3. CASE stream[c].at # i /\ stream[c].phase = "none"
    BY <1>3 DEF Restart, Owed
  <1> QED
    BY <1>1, <1>2, <1>3

LEMMA ChangeDue ==
  ASSUME LiveInv, FetchInv, NEW w \in Writer, NEW i \in Replica, Change(w, i)
  PROVE  StillDue
  <1> SUFFICES ASSUME NEW c \in Stream, Owed(c)
               PROVE  Owed(c)'
    BY StreamStepDue DEF Change
  <1>1. writer[w].todo = {} /\ writer[w].slow = {} /\ writer[w].phase = "idle"
    BY DEF LiveInv, HubInv, PublisherOK, Change
  <1>2. \A v \in Writer \ {w} : writer'[v] = writer[v]
    BY DEF LiveInv, LiveTypeOK, Change
  <1>3. stream'[c] = stream[c] /\ (Registered(c) => Registered(c)')
    BY DEF Registered, Change
  <1> QED
    BY <1>1, <1>2, <1>3 DEF Owed, Announced

\* publish takes the clients that are registered, under the lock.
LEMMA PublishDue ==
  ASSUME LiveInv, FetchInv, NEW w \in Writer, Publish(w)
  PROVE  StillDue
  <1> SUFFICES ASSUME NEW c \in Stream, Owed(c)
               PROVE  Owed(c)'
    BY StreamStepDue DEF Publish
  <1>1. /\ writer'[w].todo = hub[writer[w].at].clients /\ writer'[w].slow = writer[w].slow
        /\ writer[w].todo = {}
        /\ \A v \in Writer \ {w} : writer'[v] = writer[v]
    BY DEF LiveInv, LiveTypeOK, HubInv, PublisherOK, WriterState, Publish
  <1>2. stream'[c] = stream[c] /\ (Registered(c) => Registered(c)')
    BY DEF Registered, Publish
  <1>3. Registered(c) /\ writer[w].at = stream[c].at => c \in writer'[w].todo
    BY <1>1, RegisteredAt
  <1> QED
    BY <1>1, <1>2, <1>3 DEF Owed, Announced

LEMMA SendDue ==
  ASSUME LiveInv, FetchInv, NEW w \in Writer, NEW c \in Stream, Send(w, c)
  PROVE  StillDue
  <1> USE SendEffect
  <1> SUFFICES ASSUME NEW d \in Stream, Owed(d)
               PROVE  Owed(d)'
    BY StreamStepDue
  <1>1. CASE d = c
    BY <1>1 DEF Owed
  <1>2. CASE d # c
    <2>1. stream'[d] = stream[d] /\ (Registered(d) => Registered(d)')
      BY <1>2 DEF Registered
    <2>2. \A v \in Writer : /\ d \in writer[v].todo => d \in writer'[v].todo
                            /\ d \in writer[v].slow => d \in writer'[v].slow
                            /\ writer[v].phase = "changed" => writer'[v] = writer[v]
      <3>1. writer[w].phase = "sending"
        BY DEF Send
      <3> QED
        BY <1>2, <3>1
    <2> QED
      BY <2>1, <2>2 DEF Owed, Announced
  <1> QED
    BY <1>1, <1>2

LEMMA SentDue ==
  ASSUME LiveInv, FetchInv, NEW w \in Writer, Sent(w)
  PROVE  StillDue
  <1> SUFFICES ASSUME NEW c \in Stream, Owed(c)
               PROVE  Owed(c)'
    BY StreamStepDue DEF Sent
  <1>1. /\ writer[w].todo = {} /\ writer[w].phase = "sending"
        /\ writer'[w].slow = writer[w].slow
        /\ \A v \in Writer \ {w} : writer'[v] = writer[v]
    BY DEF LiveInv, LiveTypeOK, WriterState, Quiet, Sent
  <1>2. stream'[c] = stream[c] /\ (Registered(c) => Registered(c)')
    BY DEF Registered, Sent
  <1> QED
    BY <1>1, <1>2 DEF Owed, Announced

\* An evicted client has been told to end, whoever did it.
LEMMA EvictDue ==
  ASSUME LiveInv, FetchInv, NEW w \in Writer, NEW c \in Stream, Evict(w, c)
  PROVE  StillDue
  <1> USE EvictEffect
  <1> SUFFICES ASSUME NEW d \in Stream, Owed(d)
               PROVE  Owed(d)'
    BY StreamStepDue
  <1>1. CASE d = c
    BY <1>1 DEF Owed
  <1>2. CASE d # c
    <2>1. \A v \in Writer : /\ d \in writer[v].todo => d \in writer'[v].todo
                            /\ d \in writer[v].slow => d \in writer'[v].slow
                            /\ writer[v].phase = "changed" => writer'[v] = writer[v]
      BY <1>2
    <2> QED
      BY <1>2, <2>1 DEF Owed, Announced
  <1> QED
    BY <1>1, <1>2

LEMMA AcceptDue ==
  ASSUME LiveInv, FetchInv, NEW c \in Stream, NEW b \in Tab, NEW i \in Replica, Accept(c, b, i)
  PROVE  StillDue
  <1> SUFFICES ASSUME NEW a \in Tab, FetchDue(a)
               PROVE  FetchDue(a)'
    BY DEF StillDue
  <1>1. /\ tab'[a].dirty = tab[a].dirty /\ tab'[a].once = tab[a].once
        /\ tab'[a].phase = tab[a].phase
        /\ a # b => tab'[a].stream = tab[a].stream
        /\ tab[b].phase = "connecting"
    BY DEF LiveInv, LiveTypeOK, TabState, Accept
  <1>2. CASE tab[a].phase # "connected"
    BY <1>1, <1>2 DEF FetchDue
  <1>3. CASE tab[a].phase = "connected"
    <2>1. tab[a].stream \in Stream /\ tab[a].stream # c /\ tab'[a].stream = tab[a].stream
      BY <1>1, <1>3 DEF FetchInv, TabOK, Accept, Unreferenced
    <2>2. stream'[tab[a].stream] = stream[tab[a].stream] /\ UNCHANGED <<writer, hub>>
      BY <2>1 DEF LiveInv, LiveTypeOK, Accept
    <2> QED
      BY <1>1, <1>3, <2>1, <2>2 DEF FetchDue, Registered
  <1> QED
    BY <1>2, <1>3

LEMMA SubscribeDue ==
  ASSUME LiveInv, FetchInv, NEW c \in Stream, Subscribe(c)
  PROVE  StillDue
  <1> SUFFICES ASSUME NEW d \in Stream, Owed(d)
               PROVE  Owed(d)'
    BY StreamStepDue DEF Subscribe
  <1>a. stream[c].at \in Replica
    BY DEF LiveInv, HubInv, StreamOK, Subscribe
  <1>1. /\ stream'[d].at = stream[d].at /\ stream'[d].events = stream[d].events
        /\ d # c => stream'[d] = stream[d]
    BY DEF LiveInv, LiveTypeOK, StreamState, Subscribe
  <1>2. Registered(d) => Registered(d)'
    BY <1>a DEF LiveInv, LiveTypeOK, HubState, Registered, Subscribe
  <1>3. stream[c].phase = "accepted" /\ ~ stream[c].done
    BY DEF FetchInv, OpenOK, Subscribe
  <1>4. writer' = writer
    BY DEF Subscribe
  <1> QED
    BY <1>1, <1>2, <1>3, <1>4 DEF Owed, Announced

LEMMA ReturnDue ==
  ASSUME LiveInv, FetchInv, NEW c \in Stream, Return(c)
  PROVE  StillDue
  <1> SUFFICES ASSUME NEW d \in Stream, Owed(d)
               PROVE  Owed(d)'
    BY StreamStepDue DEF Return
  <1>a. stream[c].at \in Replica
    BY DEF LiveInv, HubInv, StreamOK, Return
  <1>1. CASE d = c
    <2>1. stream'[c].phase = "none"
      BY DEF LiveInv, LiveTypeOK, Free, Return
    <2> QED
      BY <1>1, <2>1 DEF Owed
  <1>2. CASE d # c
    <2>1. stream'[d] = stream[d] /\ writer' = writer
      BY <1>2 DEF LiveInv, LiveTypeOK, Return
    <2>2. Registered(d) => Registered(d)'
      BY <1>a, <1>2 DEF LiveInv, LiveTypeOK, HubState, Registered, Return
    <2> QED
      BY <2>1, <2>2 DEF Owed, Announced
  <1> QED
    BY <1>1, <1>2

\* The tab that gets the event will fetch; nobody else has the stream.
LEMMA ForwardDue ==
  ASSUME LiveInv, FetchInv, OwnerInv, NEW c \in Stream, Forward(c)
  PROVE  StillDue
  <1> DEFINE b == stream[c].tab
  <1> SUFFICES ASSUME NEW a \in Tab, FetchDue(a)
               PROVE  FetchDue(a)'
    BY DEF StillDue
  <1>a. b \in Tab
    BY DEF LiveInv, HubInv, StreamOK, Forward
  <1>1. CASE a = b
    <2>1. tab'[a].dirty
      BY <1>a, <1>1 DEF LiveInv, LiveTypeOK, TabState, Forward
    <2> QED
      BY <2>1 DEF FetchDue
  <1>2. CASE a # b
    <2>1. tab'[a] = tab[a]
      BY <1>a, <1>2 DEF LiveInv, LiveTypeOK, Forward
    <2>2. CASE tab[a].phase # "connected"
      BY <2>1, <2>2 DEF FetchDue
    <2>3. CASE tab[a].phase = "connected"
      <3>1. tab[a].stream \in Stream /\ tab[a].stream # c
        BY <1>2, <2>3 DEF FetchInv, TabOK, OwnerInv, StreamOfTab, Forward
      <3>2. stream'[tab[a].stream] = stream[tab[a].stream] /\ UNCHANGED <<writer, hub>>
        BY <3>1 DEF LiveInv, LiveTypeOK, Forward
      <3> QED
        BY <2>1, <2>3, <3>2 DEF FetchDue, Registered
    <2> QED
      BY <2>2, <2>3
  <1> QED
    BY <1>1, <1>2

\* The steps of a tab leave the other tabs alone.
LEMMA TabStepDue ==
  ASSUME LiveInv, FetchInv, NEW b \in Tab, UNCHANGED <<version, writer, hub, stream>>,
         \A a \in Tab \ {b} : tab'[a] = tab[a],
         FetchDue(b) => FetchDue(b)' \/ tab'[b].seen = version \/ tab'[b].phase = "hidden"
  PROVE  StillDue
  <1> SUFFICES ASSUME NEW a \in Tab, a # b, FetchDue(a)
               PROVE  FetchDue(a)'
    BY DEF StillDue
  <1> QED
    BY DEF FetchDue, Registered

LEMMA DropDue ==
  ASSUME LiveInv, FetchInv, NEW b \in Tab, NEW phase \in {"connecting", "waiting", "hidden"},
         Drop(b, phase)
  PROVE  StillDue
  <1>1. /\ tab'[b].phase = phase /\ tab'[b].dirty = tab[b].dirty /\ tab'[b].once = tab[b].once
        /\ \A a \in Tab \ {b} : tab'[a] = tab[a]
        /\ UNCHANGED <<version, writer, hub, stream>>
    BY DEF LiveInv, LiveTypeOK, TabState, Drop
  <1>2. FetchDue(b) => tab[b].dirty \/ tab[b].once
    BY DEF FetchDue, FetchInv, TabOK
  <1>3. FetchDue(b) => FetchDue(b)' \/ tab'[b].phase = "hidden"
    BY <1>1, <1>2 DEF FetchDue
  <1> QED
    BY <1>1, <1>3, TabStepDue

\* A tab that had connected before fetches everything again.
LEMMA ConnectedDue ==
  ASSUME LiveInv, FetchInv, NEW b \in Tab, Connected(b)
  PROVE  StillDue
  <1>1. /\ tab'[b].dirty = (tab[b].dirty \/ tab[b].once) /\ tab[b].phase = "connecting"
        /\ \A a \in Tab \ {b} : tab'[a] = tab[a]
        /\ UNCHANGED <<version, writer, hub, stream>>
    BY DEF LiveInv, LiveTypeOK, TabState, Connected
  <1>2. FetchDue(b) => FetchDue(b)'
    BY <1>1 DEF FetchDue
  <1> QED
    BY <1>1, <1>2, TabStepDue

LEMMA RefetchDue ==
  ASSUME LiveInv, FetchInv, NEW b \in Tab, Refetch(b)
  PROVE  StillDue
  <1>1. /\ tab'[b].seen = version
        /\ \A a \in Tab \ {b} : tab'[a] = tab[a]
        /\ UNCHANGED <<version, writer, hub, stream>>
    BY DEF LiveInv, LiveTypeOK, TabState, Refetch
  <1> QED
    BY <1>1, TabStepDue

LEMMA LiveNextDue == LiveInv /\ FetchInv /\ OwnerInv /\ [LiveNext]_liveVars => [StillDue]_liveVars
  <1> SUFFICES ASSUME LiveInv, FetchInv, OwnerInv, LiveNext
               PROVE  StillDue
    OBVIOUS
  <1>2. ASSUME NEW i \in Replica, Close(i) \/ Restart(i)
        PROVE  StillDue
    BY <1>2, CloseDue, RestartDue
  <1>3. ASSUME NEW w \in Writer, NEW i \in Replica, Change(w, i)
        PROVE  StillDue
    BY <1>3, ChangeDue
  <1>4. ASSUME NEW w \in Writer, PublishNext(w)
        PROVE  StillDue
    BY <1>4, PublishDue, SentDue, SendDue, EvictDue DEF PublishNext
  <1>5. ASSUME NEW c \in Stream, Subscribe(c) \/ Forward(c) \/ Return(c)
        PROVE  StillDue
    BY <1>5, SubscribeDue, ForwardDue, ReturnDue
  <1>6. ASSUME NEW c \in Stream, NEW b \in Tab, NEW i \in Replica, Accept(c, b, i)
        PROVE  StillDue
    BY <1>6, AcceptDue
  <1>7. ASSUME NEW b \in Tab, TabNext(b) \/ ConnectionFails(b) \/ Hide(b) \/ Show(b)
        PROVE  StillDue
    BY <1>7, ConnectedDue, RefetchDue, DropDue
       DEF TabNext, StreamEnds, Retry, ConnectionFails, Hide, Show
  <1> QED
    BY <1>2, <1>3, <1>4, <1>5, <1>6, <1>7 DEF LiveNext

\* A fetch that is due stays due until it is made or the tab is hidden, for every
\* step of the hubs, the publishers, the handlers, the tabs and the network.
THEOREM NoFetchForgotten == LiveSafety => DueUntilFetched
  <1>1. LiveInv /\ FetchInv /\ OwnerInv /\ [LiveNext]_liveVars =>
          [\A b \in Tab : FetchDue(b) =>
             FetchDue(b)' \/ tab'[b].seen = version \/ tab'[b].phase = "hidden"]_liveVars
    BY LiveNextDue DEF StillDue
  <1> QED
    BY <1>1, LiveInvariant, FetchInvariant, OwnerInvariant, PTL DEF LiveSafety, DueUntilFetched

=============================================================================
