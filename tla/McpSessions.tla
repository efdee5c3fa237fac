----------------------------- MODULE McpSessions -----------------------------
(***************************************************************************)
(* The HTTP front of the server (src/src/main.rs) and its settings         *)
(* (load_streamable_http_config in src/src/config.rs): which requests are  *)
(* served in a session, which without one, and what a client whose session *)
(* is gone still gets from the event store.                                *)
(*                                                                         *)
(* Sessions, streams and the event store belong to libraries and are       *)
(* modelled from how main.rs uses them: a session lives until it expires,  *)
(* is evicted or deleted, or the server ends; what it sends has ids 1, 2,  *)
(* ..., of which the store holds the latest; only a sqlite store outlives  *)
(* the process.  A header is a set: {} when it is absent, {Blank} when its *)
(* value is empty, one value otherwise.                                    *)
(***************************************************************************)
EXTENDS Integers, Sequences, FiniteSets

CONSTANTS
  Sessions,       \* session ids the manager can hand out
  Slots,          \* requests that can be under way at once
  Blank,          \* the value of an empty header
  MaxEvents,      \* bound on what a session sends
  Environments,   \* settings a server can be started with
  ManagerFails    \* whether has_session can fail

StoreValues  == {"unset", "blank", "off", "memory", "sqlite", "other"}
ResumeValues == {"unset", "blank", "off", "historyless", "replay", "other"}
Environment  == [store : StoreValues, resume : ResumeValues,
                 path : {"unset", "blank", "given"}, key : {"none", "good", "bad"},
                 streams : Int, ttl : Int, fallback : BOOLEAN,
                 bind : {"loopback", "other", "bad"}, nonLoopback : BOOLEAN,
                 hosts : BOOLEAN]

Config == [store : {"off", "memory", "sqlite"},
           resume : {"off", "historyless", "replay"},
           streams : Nat \ {0}, expires : BOOLEAN, fallback : BOOLEAN]

ASSUME SessionsAssumption ==
  /\ IsFiniteSet(Sessions)
  /\ MaxEvents \in Nat
  /\ Blank \notin Sessions \cup Int
  /\ Environments \subseteq Environment
  /\ ManagerFails \in BOOLEAN

VARIABLES
  server,     \* the configuration of the running server: no element or one
  live,       \* sessions the manager knows
  issued,     \* session ids handed out so far
  sent,       \* number of events each session has sent
  first,      \* the oldest of them the store still holds
  stream,     \* the event the open stream of a session gives next, 0 without one
  slot,       \* the requests
  got,        \* the event the client of a session got last, 0 for none
  lossy,      \* history: sessions of which it let an event pass, or the store did
  odd,        \* history: sessions of which it got an event twice or out of turn
  doubted     \* history: sessions whose lookup has failed

vars == <<server, live, issued, sent, first, stream, slot, got,
          lossy, odd, doubted>>

-----------------------------------------------------------------------------
(* Settings *)

StoreMode(e) == IF e.store \in {"memory", "sqlite"} THEN e.store ELSE "off"

ResumeMode(e) == CASE e.resume = "unset" -> "historyless"
                   [] e.resume = "blank" -> "off"
                   [] OTHER -> e.resume

\* load_streamable_http_config returns no error.
Loads(e) ==
  /\ e.store # "other"
  /\ e.resume # "other"
  /\ ResumeMode(e) = "replay" <=> StoreMode(e) # "off"
  /\ StoreMode(e) = "sqlite" => e.path # "blank"
  /\ e.key # "bad"

\* Mutant: no session at all may be configured.
StreamsUnclamped(e) ==
  [store |-> StoreMode(e), resume |-> ResumeMode(e), streams |-> e.streams,
   expires |-> e.ttl > 0, fallback |-> e.fallback]

StreamableHttpConfig(e) ==
  [store |-> StoreMode(e), resume |-> ResumeMode(e),
   streams |-> IF e.streams < 1 THEN 1 ELSE e.streams,
   expires |-> e.ttl > 0, fallback |-> e.fallback]

\* main refuses other addresses unless told so, and an empty list of hosts.
Starts(e) ==
  /\ Loads(e)
  /\ e.bind # "bad"
  /\ e.bind = "loopback" \/ e.nonLoopback
  /\ e.hosts

-----------------------------------------------------------------------------
(* Requests *)

Methods == {"POST", "GET", "DELETE", "OTHER"}
Bodies  == {"initialize", "batch", "call", "unreadable"}
Points  == {"idle", "dispatch", "replay", "session", "stateless", "answered"}
Answers == {"none", "host_refused", "bad_request", "not_found", "not_allowed",
            "opened", "session", "refused", "stateless", "replay"}

Header(V) == {{}, {Blank}} \cup {{v} : v \in V}

Request == [method : Methods, session : Header(Sessions),
            last : Header(1..MaxEvents), body : Bodies, host : BOOLEAN]

\* What the handler knows of a request: headers that are empty are none.
SessionId(q)   == q.session \ {Blank}
LastEventId(q) == q.last \ {Blank}

AtMostOne(V) == {{}} \cup {{v} : v \in V}
Slot == [at : Points, method : Methods, session : AtMostOne(Sessions),
         last : AtMostOne(1..MaxEvents), body : Bodies, answer : Answers]

EmptySlot == [at |-> "idle", method |-> "OTHER", session |-> {}, last |-> {},
              body |-> "call", answer |-> "none"]

\* A batch here is one with an initialize request among its items.
IsInitialize(body) == body \in {"initialize", "batch"}

Up == server # {}
Configured(c) == c \in server

Ids(s, from) == {i \in 1..sent[s] : i >= from /\ i >= first[s]}

-----------------------------------------------------------------------------
TypeOK ==
  /\ server \subseteq Config /\ Cardinality(server) <= 1
  /\ issued \subseteq Sessions
  /\ live \subseteq issued
  /\ sent \in [Sessions -> 0..MaxEvents]
  /\ first \in [Sessions -> 1..(MaxEvents + 1)]
  /\ stream \in [Sessions -> 0..(MaxEvents + 1)]
  /\ \A s \in Sessions \ live : stream[s] = 0
  /\ slot \in [Slots -> Slot]
  /\ got \in [Sessions -> 0..MaxEvents]
  /\ lossy \subseteq Sessions
  /\ odd \subseteq Sessions
  /\ doubted \subseteq Sessions

Init ==
  /\ server = {}
  /\ live = {}
  /\ issued = {}
  /\ sent = [s \in Sessions |-> 0]
  /\ first = [s \in Sessions |-> 1]
  /\ stream = [s \in Sessions |-> 0]
  /\ slot = [r \in Slots |-> EmptySlot]
  /\ got = [s \in Sessions |-> 0]
  /\ lossy = {}
  /\ odd = {}
  /\ doubted = {}

Close(S) == stream' = [s \in Sessions |-> IF s \in S THEN 0 ELSE stream[s]]

clients == <<got, lossy, odd>>
manager == <<live, issued, stream>>
store   == <<sent, first>>

-----------------------------------------------------------------------------
(* The process *)

Start(e) ==
  /\ ~Up
  /\ Starts(e)
  /\ server' = {StreamableHttpConfig(e)}
  /\ UNCHANGED <<manager, store, slot, clients, doubted>>

\* The end of the process, however it comes.
Stop ==
  /\ \E c \in server :
       first' = IF c.store = "sqlite" THEN first
                ELSE [s \in Sessions |-> sent[s] + 1]
  /\ server' = {}
  /\ live' = {}
  /\ Close(Sessions)
  /\ slot' = [r \in Slots |-> EmptySlot]
  /\ UNCHANGED <<issued, sent, clients, doubted>>

-----------------------------------------------------------------------------
(* Libraries: the session manager and the event store *)

\* A session sends an event; RecordingSessionManager records it if there is
\* a store.
Send(s) ==
  /\ s \in live
  /\ sent[s] < MaxEvents
  /\ sent' = [sent EXCEPT ![s] = @ + 1]
  /\ \E c \in server :
       first' = IF c.store = "off" THEN [first EXCEPT ![s] = sent[s] + 2] ELSE first
  /\ UNCHANGED <<server, manager, slot, clients, doubted>>

\* The events from..to reach the client.
Arrive(s, from, to) ==
  /\ got' = IF from <= to THEN [got EXCEPT ![s] = to] ELSE got
  /\ odd' = IF from <= to /\ from # got[s] + 1 /\ s \notin lossy'
            THEN odd \cup {s} ELSE odd

\* The open stream of a session gives its client the next event.
Deliver(s) ==
  /\ stream[s] \in 1..sent[s]
  /\ stream' = [stream EXCEPT ![s] = @ + 1]
  /\ UNCHANGED <<server, live, issued, store, slot, lossy, doubted>>
  /\ Arrive(s, stream[s], stream[s])

\* A connection breaks.
Disconnect(s) ==
  /\ stream[s] # 0
  /\ Close({s})
  /\ UNCHANGED <<server, live, issued, store, slot, clients, doubted>>

\* A session idles for too long, or gives way to a new one.
Expire(s) ==
  /\ s \in live
  /\ \E c \in server : c.expires \/ Cardinality(live) >= c.streams
  /\ live' = live \ {s}
  /\ Close({s})
  /\ UNCHANGED <<server, issued, store, slot, clients, doubted>>

\* max_events, max_streams or the time to live of the store.
Forget(s) ==
  /\ \E c \in server : c.store # "off"
  /\ first[s] <= sent[s]
  /\ first' = [first EXCEPT ![s] = @ + 1]
  /\ UNCHANGED <<server, manager, sent, slot, clients, doubted>>

-----------------------------------------------------------------------------
(* main.rs *)

Forward(r, to)    == slot' = [slot EXCEPT ![r].at = to]
Answer(r, answer) == slot' = [slot EXCEPT ![r] = [EmptySlot EXCEPT
                       !.at = "answered", !.session = slot[r].session,
                       !.answer = answer]]

\* What clients send: ids they were given, the id of the event they got last or
\* none, one stream per session.  Fields that nobody reads do not vary.
Asks(q) ==
  /\ q.session \subseteq issued \cup {Blank}
  /\ q.method # "POST" \/ q.session \ {Blank} # {} => q.body = "call"
  /\ q.method # "GET" => q.last = {}
  /\ ~q.host \/ q.method = "OTHER" => q.session = {} /\ q.body = "call"
  /\ q.last \ {Blank} # {} =>
       \E s \in q.session \ {Blank} : got[s] > 0 /\ q.last = {got[s]}
  /\ q.method = "GET" =>
       \A o \in Slots : slot[o].at \in {"dispatch", "replay", "session"}
                        => slot[o].method # "GET" \/ slot[o].session # q.session

\* A request arrives; host_guard comes before the handler.
Receive(r) ==
  /\ Up
  /\ slot[r].at \in {"idle", "answered"}
  /\ \E q \in Request :
       /\ Asks(q)
       /\ slot' = [slot EXCEPT ![r] =
            IF q.host
            THEN [at |-> "dispatch", method |-> q.method, session |-> SessionId(q),
                  last |-> LastEventId(q), body |-> q.body, answer |-> "none"]
            ELSE [EmptySlot EXCEPT !.at = "answered", !.answer = "host_refused"]]
       /\ Close(IF q.method = "GET" THEN q.session ELSE {})
  /\ UNCHANGED <<server, live, issued, store, clients, doubted>>

\* session_exists: a lookup that fails counts as "no".
Lookup(s, found) ==
  \/ found = (s \in live) /\ UNCHANGED doubted
  \/ ManagerFails /\ found = FALSE /\ doubted' = doubted \cup {s}

\* POST with a session header.
PostToSession(r) ==
  /\ slot[r].at = "dispatch"
  /\ slot[r].method = "POST"
  /\ \E s \in slot[r].session, c \in server, found \in BOOLEAN :
       /\ Lookup(s, found)
       /\ CASE found                -> Forward(r, "session")
            [] ~found /\ c.fallback -> Forward(r, "stateless")
            [] OTHER                -> Answer(r, "not_found")
  /\ UNCHANGED <<server, manager, store, clients>>

\* POST without one: only initialize opens a session.
PostWithoutSession(r) ==
  LET q == slot[r] IN
  /\ slot[r].at = "dispatch"
  /\ q.method = "POST"
  /\ q.session = {}
  /\ \E c \in server :
       CASE q.body = "unreadable"  -> Answer(r, "bad_request")
         [] IsInitialize(q.body)   -> Forward(r, "session")
         [] q.body = "call"        -> IF c.fallback THEN Forward(r, "stateless")
                                      ELSE Answer(r, "bad_request")
  /\ UNCHANGED <<server, manager, store, clients, doubted>>

\* Mutant: the store is asked before the session is looked up.
ReplayBeforeLookup(r) ==
  LET q == slot[r] IN
  /\ slot[r].at = "dispatch"
  /\ q.method \in {"GET", "DELETE"}
  /\ \/ q.session = {} /\ Answer(r, "bad_request") /\ UNCHANGED doubted
     \/ \E s \in q.session, c \in server, found \in BOOLEAN :
          /\ Lookup(s, found)
          /\ CASE /\ q.method = "GET"
                  /\ c.resume = "replay"
                  /\ q.last # {} -> Forward(r, "replay")
               [] found -> Forward(r, "session")
               [] OTHER -> Answer(r, "not_found")
  /\ UNCHANGED <<server, manager, store, clients>>

\* GET and DELETE need a session; only a GET may be answered by a replay.
GetOrDelete(r) ==
  LET q == slot[r] IN
  /\ slot[r].at = "dispatch"
  /\ q.method \in {"GET", "DELETE"}
  /\ \/ q.session = {} /\ Answer(r, "bad_request") /\ UNCHANGED doubted
     \/ \E s \in q.session, c \in server, found \in BOOLEAN :
          /\ Lookup(s, found)
          /\ CASE found -> Forward(r, "session")
               [] /\ ~found
                  /\ q.method = "GET"
                  /\ c.resume = "replay"
                  /\ q.last # {} -> Forward(r, "replay")
               [] OTHER -> Answer(r, "not_found")
  /\ UNCHANGED <<server, manager, store, clients>>

OtherMethod(r) ==
  /\ slot[r].at = "dispatch"
  /\ slot[r].method = "OTHER"
  /\ Answer(r, "not_allowed")
  /\ UNCHANGED <<server, manager, store, clients, doubted>>

\* Mutant: the event the client names is sent again.
ReplayWithLast(r) ==
  /\ slot[r].at = "replay"
  /\ \E s \in slot[r].session, last \in slot[r].last :
       \/ /\ \E c \in server : c.store # "off"
          /\ Ids(s, last + 1) # {}
          /\ Answer(r, "replay")
          /\ LET from == IF first[s] > last THEN first[s] ELSE last IN
             /\ lossy' = IF from > last + 1 THEN lossy \cup {s} ELSE lossy
             /\ \E to \in (from - 1)..sent[s] : Arrive(s, from, to)
       \/ Answer(r, "not_found") /\ UNCHANGED clients
  /\ UNCHANGED <<server, manager, store, doubted>>

\* replay_from_event_store: the events of the session after the last one the
\* client names.  The connection may break before all have arrived.
ReplayFromEventStore(r) ==
  /\ slot[r].at = "replay"
  /\ \E s \in slot[r].session, last \in slot[r].last :
       \/ /\ \E c \in server : c.store # "off"
          /\ Ids(s, last + 1) # {}
          /\ Answer(r, "replay")
          /\ LET from == IF first[s] > last + 1 THEN first[s] ELSE last + 1 IN
             /\ lossy' = IF from > last + 1 THEN lossy \cup {s} ELSE lossy
             /\ \E to \in (from - 1)..sent[s] : Arrive(s, from, to)
       \/ \* no store, no events left, or the store reports an error
          Answer(r, "not_found") /\ UNCHANGED clients
  /\ UNCHANGED <<server, manager, store, doubted>>

-----------------------------------------------------------------------------
(* The services the handler forwards to *)

\* initialize: a new session, or none.
OpenSession(r) ==
  /\ slot[r].at = "session"
  /\ slot[r].session = {}
  /\ \/ /\ \E c \in server : Cardinality(live) < c.streams
        /\ \E s \in Sessions \ issued : live' = live \cup {s} /\ issued' = issued \cup {s}
        /\ Answer(r, "opened")
     \/ Answer(r, "refused") /\ UNCHANGED <<live, issued>>
  /\ UNCHANGED <<server, stream, store, clients, doubted>>

\* The session may have gone since the handler looked.
ServeInSession(r) ==
  LET q == slot[r] IN
  /\ slot[r].at = "session"
  /\ \E s \in q.session :
       IF s \notin live
       THEN Answer(r, "refused") /\ UNCHANGED <<manager, clients>>
       ELSE /\ Answer(r, "session")
            /\ live' = IF q.method = "DELETE" THEN live \ {s} ELSE live
            /\ \E c \in server :
                 LET resumed == c.resume = "replay" /\ q.last # {}
                     next == 1 + IF resumed THEN CHOOSE i \in q.last : TRUE ELSE sent[s]
                 IN /\ stream' = [stream EXCEPT ![s] =
                                    CASE q.method = "GET"    -> next
                                      [] q.method = "DELETE" -> 0
                                      [] OTHER               -> @]
                    /\ lossy' = IF q.method = "GET" /\ next > got[s] + 1
                                THEN lossy \cup {s} ELSE lossy
            /\ UNCHANGED <<issued, got, odd>>
  /\ UNCHANGED <<server, store, doubted>>

ServeStateless(r) ==
  /\ slot[r].at = "stateless"
  /\ Answer(r, "stateless")
  /\ UNCHANGED <<server, manager, store, clients, doubted>>

Handle(r) ==
  \/ PostToSession(r) \/ PostWithoutSession(r) \/ GetOrDelete(r) \/ OtherMethod(r)
  \/ ReplayFromEventStore(r) \/ OpenSession(r) \/ ServeInSession(r)
  \/ ServeStateless(r)

Next ==
  \/ \E e \in Environments : Start(e)
  \/ Stop
  \/ \E s \in Sessions : Send(s) \/ Deliver(s) \/ Disconnect(s) \/ Expire(s) \/ Forget(s)
  \/ \E r \in Slots : Receive(r) \/ Handle(r)

Spec == Init /\ [][Next]_vars
-----------------------------------------------------------------------------
(* Properties *)

\* A client that is told its session is gone, or is served as if it were, finds
\* it gone from then on: no later request of it runs in that session
\* (handle_mcp looks first and forwards or replays after an await).
GoneIsGone ==
  \A r \in Slots : \A s \in slot[r].session \ doubted :
    \/ slot[r].at \in {"stateless", "replay"}
    \/ slot[r].answer \in {"not_found", "refused", "stateless", "replay"}
    => s \notin live

\* What a client gets on streams, on resumed streams and by replay, also after
\* its session is gone and after a restart, is what the session sent, nothing
\* twice and nothing left out, unless it let an event pass or the store dropped
\* one (replay_from_event_store, the headers handle_mcp reads).
NothingLostOrRepeated ==
  /\ odd = {}
  /\ \A s \in Sessions : got[s] <= sent[s]

\* A running server replays exactly if it records: neither setting is ever
\* accepted without the other (load_streamable_http_config).
ReplayHasItsStore ==
  \A c \in server : c.resume = "replay" <=> c.store # "off"
=============================================================================
