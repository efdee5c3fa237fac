-------------------------- MODULE McpSessionsProofs --------------------------
(***************************************************************************)
(* Theorems about the HTTP front for every set of sessions and requests,   *)
(* every number of events and every configuration.                         *)
(***************************************************************************)
EXTENDS McpSessions, FiniteSetTheorems, TLAPS

-----------------------------------------------------------------------------
(* Type correctness. *)

LEMMA ConfigType ==
  ASSUME NEW e \in Environments, Loads(e)
  PROVE  /\ StreamableHttpConfig(e) \in Config
         /\ StreamableHttpConfig(e).resume = "replay"
              <=> StreamableHttpConfig(e).store # "off"
<1>1. e \in Environment
  BY SessionsAssumption
<1>2. StoreMode(e) \in {"off", "memory", "sqlite"}
  BY DEF StoreMode
<1>3. ResumeMode(e) \in {"off", "historyless", "replay"}
  BY <1>1 DEF ResumeMode, Loads, Environment, ResumeValues
<1>4. (IF e.streams < 1 THEN 1 ELSE e.streams) \in Nat \ {0}
  BY <1>1 DEF Environment
<1>5. (e.ttl > 0) \in BOOLEAN /\ e.fallback \in BOOLEAN
  BY <1>1 DEF Environment
<1> QED
  BY <1>2, <1>3, <1>4, <1>5 DEF StreamableHttpConfig, Config, Loads

LEMMA EmptySlotType == EmptySlot \in Slot
BY DEF EmptySlot, Slot, Points, Methods, AtMostOne, Bodies, Answers

LEMMA ForwardType ==
  ASSUME TypeOK, NEW r \in Slots, NEW to \in Points, Forward(r, to)
  PROVE  slot' \in [Slots -> Slot]
BY DEF Forward, TypeOK, Slot

LEMMA AnswerType ==
  ASSUME TypeOK, NEW r \in Slots, NEW a \in Answers, Answer(r, a)
  PROVE  slot' \in [Slots -> Slot]
<1>1. slot[r].session \in AtMostOne(Sessions)
  BY DEF TypeOK, Slot
<1>2. [EmptySlot EXCEPT !.at = "answered", !.session = slot[r].session,
                        !.answer = a] \in Slot
  BY <1>1, EmptySlotType DEF Slot, Points, EmptySlot
<1> QED
  BY <1>2 DEF Answer, TypeOK

\* A request that is received fits into its slot.
LEMMA ReceiveType ==
  ASSUME TypeOK, NEW r \in Slots, Receive(r)
  PROVE  slot' \in [Slots -> Slot]
<1>1. PICK q \in Request :
        slot' = [slot EXCEPT ![r] =
            IF q.host
            THEN [at |-> "dispatch", method |-> q.method, session |-> SessionId(q),
                  last |-> LastEventId(q), body |-> q.body, answer |-> "none"]
            ELSE [EmptySlot EXCEPT !.at = "answered", !.answer = "host_refused"]]
  BY DEF Receive
<1>2. SessionId(q) \in AtMostOne(Sessions)
  BY DEF Request, Header, SessionId, AtMostOne
<1>3. LastEventId(q) \in AtMostOne(1..MaxEvents)
  BY DEF Request, Header, LastEventId, AtMostOne
<1>4. [at |-> "dispatch", method |-> q.method, session |-> SessionId(q),
       last |-> LastEventId(q), body |-> q.body, answer |-> "none"] \in Slot
  BY <1>2, <1>3 DEF Request, Slot, Points, Answers
<1>5. [EmptySlot EXCEPT !.at = "answered", !.answer = "host_refused"] \in Slot
  BY EmptySlotType DEF Slot, Points, Answers, EmptySlot
<1> QED
  BY <1>1, <1>4, <1>5 DEF TypeOK

LEMMA CloseType ==
  ASSUME TypeOK, NEW S, Close(S)
  PROVE  /\ stream' \in [Sessions -> 0..(MaxEvents + 1)]
         /\ \A s \in Sessions : s \in S => stream'[s] = 0
         /\ \A s \in Sessions : s \notin S => stream'[s] = stream[s]
BY SessionsAssumption DEF Close, TypeOK

LEMMA InitType == Init => TypeOK
<1> SUFFICES ASSUME Init PROVE TypeOK
  OBVIOUS
<1>1. EmptySlot \in Slot
  BY DEF EmptySlot, Slot, Points, Methods, AtMostOne, Bodies, Answers
<1>2. Cardinality({}) <= 1
  BY FS_EmptySet
<1> QED
  BY <1>1, <1>2, SessionsAssumption DEF Init, TypeOK

\* Whatever the handler does with a request, the slot stays well formed.
LEMMA HandleSlotType ==
  ASSUME TypeOK, NEW r \in Slots, Handle(r)
  PROVE  slot' \in [Slots -> Slot]
<1>1. CASE PostToSession(r)
  <2>1. \/ Forward(r, "session") \/ Forward(r, "stateless")
        \/ Answer(r, "not_found")
    BY <1>1 DEF PostToSession
  <2> QED
    BY <2>1, ForwardType, AnswerType DEF Points, Answers
<1>2. CASE PostWithoutSession(r)
  <2>1. \/ Forward(r, "session") \/ Forward(r, "stateless")
        \/ Answer(r, "bad_request")
    <3>1. slot[r].body \in Bodies
      BY DEF TypeOK, Slot
    <3> QED
      BY <1>2, <3>1 DEF PostWithoutSession, IsInitialize, Bodies
  <2> QED
    BY <2>1, ForwardType, AnswerType DEF Points, Answers
<1>3. CASE GetOrDelete(r)
  <2>1. \/ Forward(r, "session") \/ Forward(r, "replay")
        \/ Answer(r, "not_found") \/ Answer(r, "bad_request")
    BY <1>3 DEF GetOrDelete
  <2> QED
    BY <2>1, ForwardType, AnswerType DEF Points, Answers
<1>4. CASE OtherMethod(r) \/ ReplayFromEventStore(r) \/ OpenSession(r)
           \/ ServeStateless(r)
  <2>1. \E a \in Answers : Answer(r, a)
    BY <1>4 DEF OtherMethod, ReplayFromEventStore, OpenSession, ServeStateless,
                Answers
  <2> QED
    BY <2>1, AnswerType
<1>5. CASE ServeInSession(r)
  <2>1. \E a \in Answers : Answer(r, a)
    BY <1>5 DEF ServeInSession, Answers
  <2> QED
    BY <2>1, AnswerType
<1> QED
  BY <1>1, <1>2, <1>3, <1>4, <1>5 DEF Handle

\* What replayed and delivered events do to the client's view.
LEMMA ArriveType ==
  ASSUME TypeOK, NEW s \in Sessions, NEW from \in Int, NEW to \in 0..MaxEvents,
         from <= to => from > 0, Arrive(s, from, to)
  PROVE  got' \in [Sessions -> 0..MaxEvents] /\ odd' \subseteq Sessions
BY DEF Arrive, TypeOK

LEMMA StepType == TypeOK /\ [Next]_vars => TypeOK'
<1> SUFFICES ASSUME TypeOK, [Next]_vars PROVE TypeOK'
  OBVIOUS
<1> USE DEF manager, store, clients
<1>0. /\ MaxEvents \in Nat
      /\ \A s \in Sessions : /\ sent[s] \in 0..MaxEvents
                            /\ first[s] \in 1..(MaxEvents + 1)
                            /\ stream[s] \in 0..(MaxEvents + 1)
  BY SessionsAssumption DEF TypeOK
<1>1. ASSUME NEW e \in Environments, Start(e) PROVE TypeOK'
  <2>1. server' \subseteq Config
    BY <1>1, ConfigType DEF Start, Starts
  <2>2. Cardinality(server') <= 1
    BY <1>1, FS_Singleton DEF Start
  <2> QED
    BY <1>1, <2>1, <2>2 DEF Start, TypeOK
<1>2. CASE Stop
  <2>1. first' \in [Sessions -> 1..(MaxEvents + 1)]
    BY <1>0, <1>2 DEF Stop, TypeOK
  <2>2. slot' \in [Slots -> Slot]
    BY <1>2, EmptySlotType DEF Stop
  <2>3. /\ stream' \in [Sessions -> 0..(MaxEvents + 1)]
        /\ \A s \in Sessions : stream'[s] = 0
    BY <1>2, CloseType DEF Stop
  <2>4. Cardinality({}) <= 1
    BY FS_EmptySet
  <2> QED
    BY <1>2, <2>1, <2>2, <2>3, <2>4 DEF Stop, TypeOK
<1>3. ASSUME NEW s \in Sessions, Send(s) PROVE TypeOK'
  <2>1. sent' \in [Sessions -> 0..MaxEvents]
    BY <1>0, <1>3 DEF Send, TypeOK
  <2>2. first' \in [Sessions -> 1..(MaxEvents + 1)]
    BY <1>0, <1>3 DEF Send, TypeOK
  <2> QED
    BY <1>3, <2>1, <2>2 DEF Send, TypeOK
<1>4. ASSUME NEW s \in Sessions, Deliver(s) PROVE TypeOK'
  <2>1. stream' \in [Sessions -> 0..(MaxEvents + 1)]
    BY <1>0, <1>4 DEF Deliver, TypeOK
  <2>2. \A q \in Sessions \ live : stream'[q] = 0
    BY <1>0, <1>4 DEF Deliver, TypeOK
  <2>3. got' \in [Sessions -> 0..MaxEvents] /\ odd' \subseteq Sessions
    BY <1>0, <1>4, ArriveType DEF Deliver
  <2> QED
    BY <1>4, <2>1, <2>2, <2>3 DEF Deliver, TypeOK
<1>5. ASSUME NEW s \in Sessions, Disconnect(s) \/ Expire(s) PROVE TypeOK'
  <2>1. /\ stream' \in [Sessions -> 0..(MaxEvents + 1)]
        /\ \A q \in Sessions : q \in {s} => stream'[q] = 0
        /\ \A q \in Sessions : q \notin {s} => stream'[q] = stream[q]
    BY <1>5, CloseType DEF Disconnect, Expire
  <2> QED
    BY <1>5, <2>1 DEF Disconnect, Expire, TypeOK
<1>6. ASSUME NEW s \in Sessions, Forget(s) PROVE TypeOK'
  <2>1. first' \in [Sessions -> 1..(MaxEvents + 1)]
    BY <1>0, <1>6 DEF Forget, TypeOK
  <2> QED
    BY <1>6, <2>1 DEF Forget, TypeOK
<1>7. ASSUME NEW r \in Slots, Receive(r) PROVE TypeOK'
  <2>1. PICK S : Close(S)
    BY <1>7 DEF Receive
  <2>2. /\ stream' \in [Sessions -> 0..(MaxEvents + 1)]
        /\ \A s \in Sessions \ live : stream'[s] = 0
    BY <2>1, CloseType DEF TypeOK
  <2>3. slot' \in [Slots -> Slot]
    BY <1>7, ReceiveType
  <2> QED
    BY <1>7, <2>2, <2>3 DEF Receive, TypeOK
<1>8. ASSUME NEW r \in Slots, Handle(r) PROVE TypeOK'
  <2>0. slot' \in [Slots -> Slot]
    BY <1>8, HandleSlotType
  <2>1. CASE PostToSession(r) \/ GetOrDelete(r)
    <3>1. doubted' \subseteq Sessions
      <4>1. slot[r].session \subseteq Sessions
        BY DEF TypeOK, Slot, AtMostOne
      <4> QED
        BY <2>1, <4>1 DEF PostToSession, GetOrDelete, Lookup, TypeOK
    <3> QED
      BY <2>0, <2>1, <3>1 DEF PostToSession, GetOrDelete, TypeOK
  <2>2. CASE PostWithoutSession(r) \/ OtherMethod(r) \/ ServeStateless(r)
    BY <2>0, <2>2 DEF PostWithoutSession, OtherMethod, ServeStateless, TypeOK
  <2>3. CASE ReplayFromEventStore(r)
    <3>1. PICK s \in slot[r].session, last \in slot[r].last :
            \/ LET from == IF first[s] > last + 1 THEN first[s] ELSE last + 1 IN
               /\ lossy' = IF from > last + 1 THEN lossy \cup {s} ELSE lossy
               /\ \E to \in (from - 1)..sent[s] : Arrive(s, from, to)
            \/ UNCHANGED clients
      BY <2>3 DEF ReplayFromEventStore
    <3>2. s \in Sessions /\ last \in 1..MaxEvents
      BY DEF TypeOK, Slot, AtMostOne
    <3> DEFINE from == IF first[s] > last + 1 THEN first[s] ELSE last + 1
    <3>3. CASE UNCHANGED clients
      BY <2>0, <2>3, <3>3 DEF ReplayFromEventStore, TypeOK
    <3>4. CASE /\ lossy' = IF from > last + 1 THEN lossy \cup {s} ELSE lossy
               /\ \E to \in (from - 1)..sent[s] : Arrive(s, from, to)
      <4>1. from \in Int /\ from > 1 - 1 /\ from - 1 >= 0
        BY <1>0, <3>2
      <4>2. PICK to \in (from - 1)..sent[s] : Arrive(s, from, to)
        BY <3>4
      <4>3. to \in 0..MaxEvents
        BY <1>0, <3>2, <4>1, <4>2
      <4>4. got' \in [Sessions -> 0..MaxEvents] /\ odd' \subseteq Sessions
        BY <3>2, <4>1, <4>2, <4>3, ArriveType
      <4>5. lossy' \subseteq Sessions
        BY <3>2, <3>4 DEF TypeOK
      <4> QED
        BY <2>0, <2>3, <4>4, <4>5 DEF ReplayFromEventStore, TypeOK
    <3> QED
      BY <3>1, <3>3, <3>4
  <2>4. CASE OpenSession(r)
    BY <2>0, <2>4 DEF OpenSession, TypeOK
  <2>5. CASE ServeInSession(r)
    <3>1. PICK s \in slot[r].session :
            IF s \notin live THEN UNCHANGED <<manager, clients>>
            ELSE /\ live' = IF slot[r].method = "DELETE" THEN live \ {s} ELSE live
                 /\ \E next \in 0..(MaxEvents + 1) :
                      stream' = [stream EXCEPT ![s] =
                                    CASE slot[r].method = "GET"    -> next
                                      [] slot[r].method = "DELETE" -> 0
                                      [] OTHER               -> @]
                 /\ lossy' = lossy \cup {s} \/ lossy' = lossy
                 /\ UNCHANGED <<issued, got, odd>>
      <4>1. ASSUME NEW s \in slot[r].session
            PROVE  /\ sent[s] \in 0..MaxEvents
                   /\ slot[r].last # {} =>
                        (CHOOSE i \in slot[r].last : TRUE) \in 1..MaxEvents
        <5>1. s \in Sessions /\ slot[r].last \subseteq 1..MaxEvents
          BY DEF TypeOK, Slot, AtMostOne
        <5> QED
          BY <1>0, <5>1
      <4> QED
        BY <1>0, <2>5, <4>1 DEF ServeInSession
    <3>2. s \in Sessions
      BY DEF TypeOK, Slot, AtMostOne
    <3>3. CASE s \notin live
      BY <2>0, <2>5, <3>1, <3>3 DEF ServeInSession, TypeOK
    <3>4. CASE s \in live
      <4>1. stream' \in [Sessions -> 0..(MaxEvents + 1)]
        BY <1>0, <3>1, <3>2, <3>4 DEF TypeOK
      <4>2. \A q \in Sessions \ live' : stream'[q] = 0
        BY <3>1, <3>2, <3>4 DEF TypeOK
      <4> QED
        BY <2>0, <2>5, <3>1, <3>2, <3>4, <4>1, <4>2 DEF ServeInSession, TypeOK
    <3> QED
      BY <3>3, <3>4
  <2> QED
    BY <1>8, <2>1, <2>2, <2>3, <2>4, <2>5 DEF Handle
<1>9. CASE UNCHANGED vars
  BY <1>9 DEF vars, TypeOK
<1> QED
  BY <1>1, <1>2, <1>3, <1>4, <1>5, <1>6, <1>7, <1>8, <1>9 DEF Next

\* TypeOK: the state of the front keeps its shape.
THEOREM TypeCorrect == Spec => []TypeOK
BY InitType, StepType, PTL DEF Spec

-----------------------------------------------------------------------------
(* Recording and replaying go together. *)

\* ReplayHasItsStore: no configuration that loads replays without a store or
\* records what it never replays.
THEOREM ReplayRecords == Spec => []ReplayHasItsStore
<1>1. Init => ReplayHasItsStore
  BY DEF Init, ReplayHasItsStore
<1>2. ReplayHasItsStore /\ [Next]_vars => ReplayHasItsStore'
  <2> SUFFICES ASSUME ReplayHasItsStore, [Next]_vars PROVE ReplayHasItsStore'
    OBVIOUS
  <2>1. ASSUME NEW e \in Environments, Start(e) PROVE ReplayHasItsStore'
    BY <2>1, ConfigType DEF Start, Starts, ReplayHasItsStore
  <2>2. CASE Stop
    BY <2>2 DEF Stop, ReplayHasItsStore
  <2>3. ASSUME server' = server PROVE ReplayHasItsStore'
    BY <2>3 DEF ReplayHasItsStore
  <2>4. ASSUME NEW s \in Sessions,
               Send(s) \/ Deliver(s) \/ Disconnect(s) \/ Expire(s) \/ Forget(s)
        PROVE  server' = server
    BY <2>4 DEF Send, Deliver, Disconnect, Expire, Forget
  <2>5. ASSUME NEW r \in Slots, Receive(r) \/ Handle(r) PROVE server' = server
    BY <2>5 DEF Receive, Handle, PostToSession, PostWithoutSession, GetOrDelete,
                OtherMethod, ReplayFromEventStore, OpenSession, ServeInSession,
                ServeStateless
  <2> QED
    BY <2>1, <2>2, <2>3, <2>4, <2>5 DEF Next, vars
<1> QED
  BY <1>1, <1>2, PTL DEF Spec

-----------------------------------------------------------------------------
(* A session that is gone stays gone. *)

\* Nobody names a session that has yet to be opened, and a request without an
\* answer has none from the request before it.
Named ==
  /\ \A r \in Slots : slot[r].session \subseteq issued
  /\ \A r \in Slots : slot[r].at \in {"dispatch", "session"} => slot[r].answer = "none"

\* A step that leaves a slot alone and opens none of its sessions keeps it.
LEMMA OtherSlots ==
  ASSUME TypeOK, Named, GoneIsGone, NEW r \in Slots,
         slot'[r].session = slot[r].session,
         slot'[r].at = slot[r].at, slot'[r].answer = slot[r].answer,
         live' \cap issued \subseteq live, doubted \subseteq doubted',
         issued \subseteq issued'
  PROVE  /\ slot'[r].session \subseteq issued'
         /\ slot'[r].at \in {"dispatch", "session"} => slot'[r].answer = "none"
         /\ \A s \in slot'[r].session \ doubted' :
              \/ slot'[r].at \in {"stateless", "replay"}
              \/ slot'[r].answer \in {"not_found", "refused", "stateless", "replay"}
              => s \notin live'
BY DEF Named, GoneIsGone

LEMMA StepGone ==
  TypeOK /\ Named /\ GoneIsGone /\ [Next]_vars => Named' /\ GoneIsGone'
<1> SUFFICES ASSUME TypeOK, Named, GoneIsGone, [Next]_vars
             PROVE  Named' /\ GoneIsGone'
  OBVIOUS
<1> DEFINE Keeps(r) ==
      /\ slot'[r].session \subseteq issued'
      /\ slot'[r].at \in {"dispatch", "session"} => slot'[r].answer = "none"
      /\ \A s \in slot'[r].session \ doubted' :
           \/ slot'[r].at \in {"stateless", "replay"}
           \/ slot'[r].answer \in {"not_found", "refused", "stateless", "replay"}
           => s \notin live'
<1>a. SUFFICES \A r \in Slots : Keeps(r)
  BY DEF Named, GoneIsGone
<1> USE DEF manager, store, clients
<1>b. live \subseteq issued /\ slot \in [Slots -> Slot]
  BY DEF TypeOK
<1>1. ASSUME NEW e \in Environments, Start(e), NEW r \in Slots PROVE Keeps(r)
  BY <1>1, OtherSlots DEF Start
<1>2. ASSUME Stop, NEW r \in Slots PROVE Keeps(r)
  BY <1>2 DEF Stop, EmptySlot
<1>3. ASSUME NEW s \in Sessions,
             Send(s) \/ Deliver(s) \/ Disconnect(s) \/ Expire(s) \/ Forget(s),
             NEW r \in Slots
      PROVE  Keeps(r)
  BY <1>3, OtherSlots DEF Send, Deliver, Disconnect, Expire, Forget
<1>4. ASSUME NEW o \in Slots, Receive(o), NEW r \in Slots PROVE Keeps(r)
  <2>1. live' = live /\ issued' = issued /\ doubted' = doubted
    BY <1>4 DEF Receive
  <2>2. CASE r # o
    BY <1>4, <1>b, <2>1, <2>2, OtherSlots DEF Receive
  <2>3. CASE r = o
    BY <1>4, <1>b, <2>1, <2>3 DEF Receive, Asks, SessionId, EmptySlot
  <2> QED
    BY <2>2, <2>3
<1>5. ASSUME NEW o \in Slots, Handle(o), NEW r \in Slots PROVE Keeps(r)
  <2>1. /\ doubted \subseteq doubted' /\ issued \subseteq issued'
        /\ live' \cap issued \subseteq live
        /\ \/ \E to \in Points : Forward(o, to)
           \/ \E a \in Answers : Answer(o, a)
    <3>1. CASE PostToSession(o) \/ GetOrDelete(o)
      BY <3>1 DEF PostToSession, GetOrDelete, Lookup, Points, Answers
    <3>2. CASE PostWithoutSession(o)
      <4>1. slot[o].body \in Bodies
        BY <1>b DEF Slot
      <4> QED
        BY <3>2, <4>1 DEF PostWithoutSession, IsInitialize, Bodies, Points, Answers
    <3>3. CASE OtherMethod(o) \/ ReplayFromEventStore(o) \/ ServeStateless(o)
      BY <3>3 DEF OtherMethod, ReplayFromEventStore, ServeStateless, Answers
    <3>4. CASE OpenSession(o)
      BY <3>4 DEF OpenSession, Answers
    <3>5. CASE ServeInSession(o)
      BY <3>5 DEF ServeInSession, Answers
    <3> QED
      BY <1>5, <3>1, <3>2, <3>3, <3>4, <3>5 DEF Handle
  <2>2. CASE r # o
    <3>1. slot'[r] = slot[r]
      BY <1>b, <2>1, <2>2 DEF Forward, Answer
    <3> QED
      BY <2>1, <3>1, OtherSlots
  <2>3. CASE r = o
    <3>1. slot'[r].session = slot[r].session
      BY <1>b, <2>1, <2>3 DEF Forward, Answer, EmptySlot, Slot
    <3>2. ASSUME NEW to \in Points, Forward(r, to)
          PROVE  slot'[r].at = to /\ slot'[r].answer = slot[r].answer
      BY <1>b, <3>2 DEF Forward, Slot
    <3>3. ASSUME NEW a \in Answers, Answer(r, a)
          PROVE  slot'[r].at = "answered" /\ slot'[r].answer = a
      BY <1>b, <3>3 DEF Answer, EmptySlot, Slot
    <3>4. \A s, t \in slot[r].session : s = t
      BY <1>b DEF Slot, AtMostOne
    <3> HIDE DEF Keeps
    <3>5. CASE PostToSession(r)
      <4>1. PICK s \in slot[r].session, found \in BOOLEAN :
              /\ Lookup(s, found)
              /\ \/ found /\ Forward(r, "session")
                 \/ ~found /\ Forward(r, "stateless")
                 \/ ~found /\ Answer(r, "not_found")
        BY <3>5 DEF PostToSession
      <4>2. live' = live /\ issued' = issued /\ slot[r].at = "dispatch"
        BY <3>5 DEF PostToSession
      <4> QED
        BY <3>1, <3>2, <3>3, <3>4, <4>1, <4>2
        DEF Lookup, Keeps, Named, Points, Answers
    <3>6. CASE GetOrDelete(r)
      <4>1. \/ slot[r].session = {} /\ Answer(r, "bad_request")
            \/ \E s \in slot[r].session, found \in BOOLEAN :
                 /\ Lookup(s, found)
                 /\ \/ found /\ Forward(r, "session")
                    \/ ~found /\ Forward(r, "replay")
                    \/ ~found /\ Answer(r, "not_found")
        BY <3>6 DEF GetOrDelete
      <4>2. live' = live /\ issued' = issued /\ slot[r].at = "dispatch"
        BY <3>6 DEF GetOrDelete
      <4> QED
        BY <3>1, <3>2, <3>3, <3>4, <4>1, <4>2
        DEF Lookup, Keeps, Named, Points, Answers
    <3>7. CASE PostWithoutSession(r)
      <4>1. /\ slot[r].session = {}
            /\ \/ Forward(r, "session") \/ Forward(r, "stateless")
               \/ Answer(r, "bad_request")
        <5>1. slot[r].body \in Bodies
          BY <1>b DEF Slot
        <5> QED
          BY <3>7, <5>1 DEF PostWithoutSession, IsInitialize, Bodies
      <4>2. slot[r].at = "dispatch" /\ issued' = issued
        BY <3>7 DEF PostWithoutSession
      <4> QED
        BY <3>1, <3>2, <3>3, <4>1, <4>2 DEF Keeps, Named, Points, Answers
    <3>8. CASE OtherMethod(r)
      <4>1. Answer(r, "not_allowed") /\ issued' = issued
        BY <3>8 DEF OtherMethod
      <4> QED
        BY <3>1, <3>3, <4>1 DEF Keeps, Named, Answers
    <3>9. CASE ReplayFromEventStore(r) \/ ServeStateless(r)
      <4>1. /\ live' = live /\ issued' = issued /\ doubted' = doubted
            /\ slot[r].at \in {"replay", "stateless"}
            /\ \E a \in Answers : Answer(r, a)
        BY <3>9 DEF ReplayFromEventStore, ServeStateless, Answers
      <4> QED
        BY <3>1, <3>3, <4>1 DEF Keeps, Named, GoneIsGone
    <3>10. CASE OpenSession(r)
      <4>1. slot[r].session = {} /\ \E a \in Answers : Answer(r, a)
        BY <3>10 DEF OpenSession, Answers
      <4> QED
        BY <3>1, <3>3, <4>1 DEF Keeps
    <3>11. CASE ServeInSession(r)
      <4>1. /\ issued' = issued /\ doubted' = doubted
            /\ \E s \in slot[r].session :
                 \/ s \notin live /\ live' = live /\ Answer(r, "refused")
                 \/ Answer(r, "session")
        BY <3>11 DEF ServeInSession
      <4> QED
        BY <3>1, <3>3, <3>4, <4>1 DEF Keeps, Named, Answers
    <3> QED
      BY <1>5, <2>3, <3>5, <3>6, <3>7, <3>8, <3>9, <3>10, <3>11 DEF Handle
  <2> QED
    BY <2>2, <2>3
<1>6. ASSUME UNCHANGED vars, NEW r \in Slots PROVE Keeps(r)
  BY <1>6, OtherSlots DEF vars
<1> QED
  BY <1>1, <1>2, <1>3, <1>4, <1>5, <1>6 DEF Next

\* GoneIsGone: a client that is told its session is gone, or is served as if it
\* were, finds it gone from then on.
THEOREM GoneForGood == Spec => []GoneIsGone
<1>1. Init => Named /\ GoneIsGone
  BY DEF Init, EmptySlot, Named, GoneIsGone
<1> QED
  BY <1>1, StepGone, TypeCorrect, PTL DEF Spec

-----------------------------------------------------------------------------
(* What a client gets is what the session sent. *)

\* A GET that has yet to be answered; while there is one its session has no
\* stream, and the event it names is the last one its client got.
UnderWay(r) ==
  slot[r].at \in {"dispatch", "replay", "session"} /\ slot[r].method = "GET"

Following ==
  /\ \A s \in Sessions : got[s] <= sent[s]
  /\ \A s \in Sessions \ lossy : stream[s] # 0 => stream[s] = got[s] + 1
  /\ \A r \in Slots : slot[r].at = "replay" => slot[r].method = "GET"
  /\ \A r \in Slots : \A s \in slot[r].session :
       UnderWay(r) => /\ stream[s] = 0
                      /\ slot[r].last # {} => slot[r].last = {got[s]}
  /\ \A r, o \in Slots : \A s \in slot[r].session \cap slot[o].session :
       UnderWay(r) /\ UnderWay(o) => r = o

\* Steps that give no client an event and open no stream.
LEMMA Quiet ==
  ASSUME TypeOK, Following, odd = {}, odd' = odd, got' = got, lossy' = lossy,
         \A s \in Sessions : sent'[s] >= sent[s] /\ sent'[s] \in Nat,
         \A s \in Sessions : stream'[s] = stream[s] \/ stream'[s] = 0,
         \A r \in Slots :
           \/ /\ slot'[r].session = slot[r].session
              /\ slot'[r].last = slot[r].last
              /\ slot'[r].method = slot[r].method
              /\ UnderWay(r)' => UnderWay(r)
              /\ slot'[r].at = "replay" => slot[r].method = "GET"
           \/ slot'[r].at \notin {"dispatch", "replay", "session"}
  PROVE  Following' /\ odd' = {}
<1>1. /\ \A s \in Sessions : got[s] \in Nat /\ sent[s] \in Nat
      /\ \A r \in Slots : slot[r].session \subseteq Sessions
  BY SessionsAssumption DEF TypeOK, Slot, AtMostOne
<1>2. \A r \in Slots : UnderWay(r)' => /\ UnderWay(r)
                                      /\ slot'[r].session = slot[r].session
                                      /\ slot'[r].last = slot[r].last
  BY DEF UnderWay
<1>3. \A s \in Sessions : got'[s] <= sent'[s]
  BY <1>1 DEF Following
<1>4. \A s \in Sessions \ lossy' : stream'[s] # 0 => stream'[s] = got'[s] + 1
  BY DEF Following
<1>5. \A r \in Slots : slot'[r].at = "replay" => slot'[r].method = "GET"
  OBVIOUS
<1>6. ASSUME NEW r \in Slots, NEW s \in slot'[r].session, UnderWay(r)'
      PROVE  stream'[s] = 0 /\ (slot'[r].last # {} => slot'[r].last = {got'[s]})
  BY <1>1, <1>2, <1>6 DEF Following
<1>7. ASSUME NEW r \in Slots, NEW o \in Slots,
             NEW s \in slot'[r].session \cap slot'[o].session,
             UnderWay(r)', UnderWay(o)'
      PROVE  r = o
  BY <1>2, <1>7 DEF Following
<1> QED
  BY <1>3, <1>4, <1>5, <1>6, <1>7 DEF Following

LEMMA DeliverFollows ==
  ASSUME TypeOK, Following, odd = {}, NEW s \in Sessions, Deliver(s)
  PROVE  Following' /\ odd' = {}
<1>1. /\ stream[s] \in 1..sent[s] /\ slot' = slot /\ sent' = sent
      /\ lossy' = lossy /\ stream' = [stream EXCEPT ![s] = @ + 1]
      /\ Arrive(s, stream[s], stream[s])
  BY DEF Deliver, store
<1>2. /\ got \in [Sessions -> 0..MaxEvents]
      /\ stream \in [Sessions -> 0..(MaxEvents + 1)]
      /\ sent \in [Sessions -> 0..MaxEvents] /\ MaxEvents \in Nat
      /\ \A r \in Slots : slot[r].session \subseteq Sessions
  BY SessionsAssumption DEF TypeOK, Slot, AtMostOne
<1>3. got' = [got EXCEPT ![s] = stream[s]]
  BY <1>1, <1>2 DEF Arrive
<1>4. s \in lossy \/ stream[s] = got[s] + 1
  BY <1>1, <1>2 DEF Following
<1>5. odd' = {}
  BY <1>1, <1>4 DEF Arrive
<1>6. \A r \in Slots : UnderWay(r) => s \notin slot[r].session
  BY <1>1, <1>2 DEF Following
<1>7. \A r \in Slots : UnderWay(r)' = UnderWay(r)
  BY <1>1 DEF UnderWay
<1> QED
  BY <1>1, <1>2, <1>3, <1>5, <1>6, <1>7 DEF Following

LEMMA ReceiveFollows ==
  ASSUME TypeOK, Following, odd = {}, NEW r \in Slots, Receive(r)
  PROVE  Following' /\ odd' = {}
<1> USE DEF clients, store
<1>1. PICK q \in Request :
        /\ Asks(q)
        /\ slot' = [slot EXCEPT ![r] =
            IF q.host
            THEN [at |-> "dispatch", method |-> q.method, session |-> SessionId(q),
                  last |-> LastEventId(q), body |-> q.body, answer |-> "none"]
            ELSE [EmptySlot EXCEPT !.at = "answered", !.answer = "host_refused"]]
        /\ Close(IF q.method = "GET" THEN q.session ELSE {})
  BY DEF Receive
<1>2. /\ got' = got /\ sent' = sent /\ lossy' = lossy /\ odd' = odd
      /\ slot \in [Slots -> Slot]
      /\ \A s \in Sessions : sent[s] \in Nat
      /\ \A o \in Slots : slot[o].session \subseteq Sessions
  BY SessionsAssumption DEF Receive, TypeOK, Slot, AtMostOne
<1>3. \A s \in Sessions : stream'[s] = stream[s] \/ stream'[s] = 0
  BY <1>1, CloseType
<1>4. \A o \in Slots \ {r} : slot'[o] = slot[o] /\ UnderWay(o)' = UnderWay(o)
  BY <1>1, <1>2 DEF UnderWay
<1>5. CASE ~(q.host /\ q.method = "GET")
  <2>1. ~UnderWay(r)' /\ slot'[r].at # "replay"
    BY <1>1, <1>2, <1>5 DEF UnderWay, EmptySlot
  <2>2. \A o \in Slots : UnderWay(o)' => o # r
    BY <2>1
  <2> QED
    BY <1>2, <1>3, <1>4, <2>1, <2>2 DEF Following
<1>6. CASE q.host /\ q.method = "GET"
  <2>1. /\ slot'[r].session = q.session \ {Blank}
        /\ slot'[r].last = q.last \ {Blank}
        /\ slot'[r].at = "dispatch"
    BY <1>1, <1>2, <1>6 DEF SessionId, LastEventId
  <2>2. \A s \in slot'[r].session : s \in Sessions /\ stream'[s] = 0
    BY <1>1, <1>6, <2>1, CloseType DEF Request, Header
  <2>3. \A s, t \in slot'[r].session : s = t
    BY <2>1 DEF Request, Header
  <2>4. ASSUME NEW s \in slot'[r].session, slot'[r].last # {}
        PROVE  slot'[r].last = {got[s]}
    <3>1. \E t \in q.session \ {Blank} : got[t] > 0 /\ q.last = {got[t]}
      BY <1>1, <2>1, <2>4 DEF Asks
    <3> QED
      BY <2>1, <2>3, <2>4, <3>1
  <2>5. \A o \in Slots : UnderWay(o) =>
          slot[o].session # q.session
    BY <1>1, <1>6 DEF Asks, UnderWay
  <2>6. ASSUME NEW o \in Slots, NEW s \in slot[o].session \cap slot'[r].session,
               UnderWay(o)
        PROVE  FALSE
    <3>1. slot[o].session = {s}
      BY <1>2, <2>6 DEF Slot, AtMostOne
    <3>2. q.session = {s}
      BY <2>1, <2>6 DEF Request, Header
    <3> QED
      BY <2>5, <2>6, <3>1, <3>2
  <2>7. ASSUME NEW o \in Slots, NEW u \in Slots,
               NEW s \in slot'[o].session \cap slot'[u].session,
               UnderWay(o)', UnderWay(u)'
        PROVE  o = u
    BY <1>4, <2>6, <2>7 DEF Following
  <2>8. ASSUME NEW o \in Slots, NEW s \in slot'[o].session, UnderWay(o)'
        PROVE  stream'[s] = 0 /\ (slot'[o].last # {} => slot'[o].last = {got'[s]})
    BY <1>2, <1>3, <1>4, <2>2, <2>4, <2>8 DEF Following
  <2>9. \A o \in Slots : slot'[o].at = "replay" => slot'[o].method = "GET"
    BY <1>4, <2>1 DEF Following
  <2>10. /\ \A s \in Sessions : got'[s] <= sent'[s]
         /\ \A s \in Sessions \ lossy' : stream'[s] # 0 => stream'[s] = got'[s] + 1
    BY <1>2, <1>3 DEF Following
  <2> QED
    BY <1>2, <2>7, <2>8, <2>9, <2>10 DEF Following
<1> QED
  BY <1>5, <1>6

\* What Answer leaves of a request.
LEMMA Answered ==
  ASSUME TypeOK, NEW r \in Slots, NEW a \in Answers, Answer(r, a)
  PROVE  /\ slot'[r].at = "answered" /\ ~UnderWay(r)'
         /\ \A o \in Slots \ {r} : slot'[o] = slot[o] /\ UnderWay(o)' = UnderWay(o)
<1>1. slot \in [Slots -> Slot]
  BY DEF TypeOK
<1>2. slot'[r].at = "answered" /\ \A o \in Slots \ {r} : slot'[o] = slot[o]
  BY <1>1 DEF Answer, EmptySlot
<1> QED
  BY <1>2 DEF UnderWay

LEMMA ReplayFollows ==
  ASSUME TypeOK, Following, odd = {}, NEW r \in Slots, ReplayFromEventStore(r)
  PROVE  Following' /\ odd' = {}
<1> USE DEF manager, store, clients
<1>1. /\ sent' = sent /\ stream' = stream /\ slot[r].at = "replay"
      /\ \E a \in Answers : Answer(r, a)
  BY DEF ReplayFromEventStore, Answers
<1>2. /\ got \in [Sessions -> 0..MaxEvents] /\ MaxEvents \in Nat
      /\ sent \in [Sessions -> 0..MaxEvents]
      /\ first \in [Sessions -> 1..(MaxEvents + 1)]
      /\ \A o \in Slots : slot[o].session \subseteq Sessions
  BY SessionsAssumption DEF TypeOK, Slot, AtMostOne
<1>3. /\ slot'[r].at = "answered" /\ ~UnderWay(r)'
      /\ \A o \in Slots \ {r} : slot'[o] = slot[o] /\ UnderWay(o)' = UnderWay(o)
  BY <1>1, Answered
<1>4. UnderWay(r)
  BY <1>1 DEF UnderWay, Following
<1>5. PICK s \in slot[r].session, last \in slot[r].last :
        \/ LET from == IF first[s] > last + 1 THEN first[s] ELSE last + 1 IN
           /\ lossy' = IF from > last + 1 THEN lossy \cup {s} ELSE lossy
           /\ \E to \in (from - 1)..sent[s] : Arrive(s, from, to)
        \/ UNCHANGED clients
  BY DEF ReplayFromEventStore
<1>6. s \in Sessions /\ stream[s] = 0 /\ last = got[s]
  BY <1>2, <1>4, <1>5 DEF Following
<1>7. CASE UNCHANGED clients
  <2>1. \A o \in Slots : UnderWay(o)' => o # r
    BY <1>3
  <2> QED
    BY <1>1, <1>2, <1>3, <1>7, <2>1 DEF Following
<1> DEFINE from == IF first[s] > last + 1 THEN first[s] ELSE last + 1
<1>8. CASE /\ lossy' = IF from > last + 1 THEN lossy \cup {s} ELSE lossy
           /\ \E to \in (from - 1)..sent[s] : Arrive(s, from, to)
  <2>1. PICK to \in (from - 1)..sent[s] : Arrive(s, from, to)
    BY <1>8
  <2>2. from \in Nat /\ from >= last + 1 /\ last \in Nat /\ sent[s] \in Nat
    BY <1>2, <1>6
  <2>3. from = got[s] + 1 \/ s \in lossy'
    BY <1>6, <1>8, <2>2
  <2>4. odd' = {}
    BY <2>1, <2>3 DEF Arrive
  <2>5. /\ \A t \in Sessions \ {s} : got'[t] = got[t]
        /\ got'[s] = got[s] \/ got'[s] = to
    BY <1>2, <1>6, <2>1 DEF Arrive
  <2>6. \A t \in Sessions : got'[t] <= sent'[t]
    BY <1>1, <1>2, <2>1, <2>2, <2>5 DEF Following
  <2>7. \A t \in Sessions \ lossy' : stream'[t] # 0 => stream'[t] = got'[t] + 1
    BY <1>1, <1>6, <1>8, <2>5 DEF Following
  <2>8. \A o \in Slots : UnderWay(o)' =>
          o # r /\ UnderWay(o) /\ slot'[o] = slot[o] /\ s \notin slot[o].session
    BY <1>3, <1>4, <1>5 DEF Following
  <2>9. ASSUME NEW o \in Slots, NEW t \in slot'[o].session, UnderWay(o)'
        PROVE  stream'[t] = 0 /\ (slot'[o].last # {} => slot'[o].last = {got'[t]})
    BY <1>1, <1>2, <2>5, <2>8, <2>9 DEF Following
  <2>10. \A o, u \in Slots : \A t \in slot'[o].session \cap slot'[u].session :
           UnderWay(o)' /\ UnderWay(u)' => o = u
    BY <2>8 DEF Following
  <2>11. \A o \in Slots : slot'[o].at = "replay" => slot'[o].method = "GET"
    BY <1>3 DEF Following
  <2> QED
    BY <2>4, <2>6, <2>7, <2>9, <2>10, <2>11 DEF Following
<1> QED
  BY <1>5, <1>7, <1>8

LEMMA ServeFollows ==
  ASSUME TypeOK, Following, odd = {}, NEW r \in Slots, ServeInSession(r)
  PROVE  Following' /\ odd' = {}
<1> USE DEF manager, store, clients
<1>1. /\ sent' = sent /\ got' = got /\ odd' = odd /\ slot[r].at = "session"
      /\ \E a \in Answers : Answer(r, a)
  BY DEF ServeInSession, Answers
<1>2. /\ got \in [Sessions -> 0..MaxEvents] /\ MaxEvents \in Nat
      /\ sent \in [Sessions -> 0..MaxEvents]
      /\ stream \in [Sessions -> 0..(MaxEvents + 1)]
      /\ \A o \in Slots : slot[o].session \subseteq Sessions
  BY SessionsAssumption DEF TypeOK, Slot, AtMostOne
<1>3. /\ slot'[r].at = "answered" /\ ~UnderWay(r)'
      /\ \A o \in Slots \ {r} : slot'[o] = slot[o] /\ UnderWay(o)' = UnderWay(o)
  BY <1>1, Answered
<1>4. \A o \in Slots : UnderWay(o)' =>
        o # r /\ UnderWay(o) /\ slot'[o] = slot[o]
  BY <1>3
<1>5. \A o \in Slots : slot'[o].at = "replay" => slot'[o].method = "GET"
  BY <1>3 DEF Following
<1>6. \A o, u \in Slots : \A t \in slot'[o].session \cap slot'[u].session :
        UnderWay(o)' /\ UnderWay(u)' => o = u
  BY <1>4 DEF Following
<1>7. ASSUME \A t \in Sessions :
               \/ stream'[t] = stream[t]
               \/ stream'[t] = 0
               \/ t \in slot[r].session /\ UnderWay(r)
                  /\ (t \in lossy' \/ stream'[t] = got[t] + 1),
             lossy \subseteq lossy'
      PROVE  Following'
  <2>1. \A t \in Sessions \ lossy' : stream'[t] # 0 => stream'[t] = got'[t] + 1
    BY <1>1, <1>7 DEF Following
  <2>2. ASSUME NEW o \in Slots, NEW t \in slot'[o].session, UnderWay(o)'
        PROVE  stream'[t] = 0 /\ (slot'[o].last # {} => slot'[o].last = {got'[t]})
    BY <1>1, <1>2, <1>4, <1>7, <2>2 DEF Following
  <2> QED
    BY <1>1, <1>5, <1>6, <2>1, <2>2 DEF Following
<1>8. PICK s \in slot[r].session :
        \/ stream' = stream /\ lossy' = lossy
        \/ \E c \in server :
             LET resumed == c.resume = "replay" /\ slot[r].last # {}
                 next == 1 + IF resumed THEN CHOOSE i \in slot[r].last : TRUE
                             ELSE sent[s]
             IN /\ stream' = [stream EXCEPT ![s] =
                                CASE slot[r].method = "GET"    -> next
                                  [] slot[r].method = "DELETE" -> 0
                                  [] OTHER               -> @]
                /\ lossy' = IF slot[r].method = "GET" /\ next > got[s] + 1
                            THEN lossy \cup {s} ELSE lossy
  BY DEF ServeInSession
<1>9. CASE stream' = stream /\ lossy' = lossy
  BY <1>1, <1>7, <1>9
<1>10. CASE slot[r].method # "GET" /\ ~(stream' = stream /\ lossy' = lossy)
  <2>1. lossy' = lossy /\ \A t \in Sessions : stream'[t] = stream[t] \/ stream'[t] = 0
    BY <1>2, <1>8, <1>10
  <2> QED
    BY <1>1, <1>7, <2>1
<1>11. CASE slot[r].method = "GET" /\ ~(stream' = stream /\ lossy' = lossy)
  <2>1. UnderWay(r) /\ s \in Sessions
    BY <1>1, <1>2, <1>11 DEF UnderWay
  <2>2. slot[r].last # {} => slot[r].last = {got[s]}
    BY <2>1 DEF Following
  <2>3. PICK next : /\ next = got[s] + 1 \/ next = sent[s] + 1
                    /\ stream' = [stream EXCEPT ![s] = next]
                    /\ lossy' = IF next > got[s] + 1 THEN lossy \cup {s} ELSE lossy
    <3>1. slot[r].last # {} => (CHOOSE i \in slot[r].last : TRUE) = got[s]
      BY <2>2
    <3>2. 1 + got[s] = got[s] + 1 /\ 1 + sent[s] = sent[s] + 1
      BY <1>2, <2>1
    <3> QED
      BY <1>8, <1>11, <3>1, <3>2
  <2>4. s \in lossy' \/ next = got[s] + 1
    BY <1>2, <2>1, <2>3 DEF Following
  <2>5. /\ \A t \in Sessions \ {s} : stream'[t] = stream[t]
        /\ stream'[s] = next
    BY <1>2, <2>1, <2>3
  <2>6. lossy \subseteq lossy'
    BY <2>3
  <2> QED
    BY <1>1, <1>7, <2>1, <2>4, <2>5, <2>6
<1> QED
  BY <1>9, <1>10, <1>11

LEMMA StepFollows ==
  TypeOK /\ Following /\ odd = {} /\ [Next]_vars => Following' /\ odd' = {}
<1> SUFFICES ASSUME TypeOK, Following, odd = {}, [Next]_vars
             PROVE  Following' /\ odd' = {}
  OBVIOUS
<1> USE DEF manager, store, clients
<1>0. /\ sent \in [Sessions -> 0..MaxEvents] /\ MaxEvents \in Nat
      /\ slot \in [Slots -> Slot]
      /\ \A s \in Sessions : sent[s] >= sent[s] /\ sent[s] \in Nat
  BY SessionsAssumption DEF TypeOK
<1>1. ASSUME NEW e \in Environments, Start(e) PROVE Following' /\ odd' = {}
  BY <1>0, <1>1, Quiet DEF Start, UnderWay, Following
<1>2. CASE Stop
  <2>1. \A s \in Sessions : stream'[s] = 0
    BY <1>2, CloseType DEF Stop
  <2>2. \A r \in Slots : slot'[r].at = "idle"
    BY <1>2 DEF Stop, EmptySlot
  <2> QED
    BY <1>0, <1>2, <2>1, <2>2, Quiet DEF Stop
<1>3. ASSUME NEW s \in Sessions, Send(s) PROVE Following' /\ odd' = {}
  <2>1. \A t \in Sessions : sent'[t] >= sent[t] /\ sent'[t] \in Nat
    BY <1>0, <1>3 DEF Send
  <2> QED
    BY <1>3, <2>1, Quiet DEF Send, UnderWay, Following
<1>4. ASSUME NEW s \in Sessions, Disconnect(s) \/ Expire(s)
      PROVE  Following' /\ odd' = {}
  <2>1. \A t \in Sessions : stream'[t] = stream[t] \/ stream'[t] = 0
    BY <1>4, CloseType DEF Disconnect, Expire
  <2> QED
    BY <1>0, <1>4, <2>1, Quiet DEF Disconnect, Expire, UnderWay, Following
<1>5. ASSUME NEW s \in Sessions, Forget(s) PROVE Following' /\ odd' = {}
  BY <1>0, <1>5, Quiet DEF Forget, UnderWay, Following
<1>6. ASSUME NEW r \in Slots,
             PostToSession(r) \/ PostWithoutSession(r) \/ GetOrDelete(r)
               \/ OtherMethod(r) \/ OpenSession(r) \/ ServeStateless(r)
      PROVE  Following' /\ odd' = {}
  <2>1. /\ sent' = sent /\ got' = got /\ lossy' = lossy /\ odd' = odd
        /\ stream' = stream
    BY <1>6 DEF PostToSession, PostWithoutSession, GetOrDelete, OtherMethod,
                OpenSession, ServeStateless
  <2>2. \/ \E to \in {"session", "stateless"} :
             slot[r].at = "dispatch" /\ Forward(r, to)
        \/ slot[r].at = "dispatch" /\ slot[r].method = "GET" /\ Forward(r, "replay")
        \/ \E a \in Answers : Answer(r, a)
    <3>1. slot[r].body \in Bodies
      BY <1>0 DEF Slot
    <3> QED
      BY <1>6, <3>1 DEF PostToSession, PostWithoutSession, GetOrDelete,
         OtherMethod, OpenSession, ServeStateless, IsInitialize, Bodies, Answers
  <2>3. \A o \in Slots :
          \/ /\ slot'[o].session = slot[o].session
             /\ slot'[o].last = slot[o].last
             /\ slot'[o].method = slot[o].method
             /\ UnderWay(o)' => UnderWay(o)
             /\ slot'[o].at = "replay" => slot[o].method = "GET"
          \/ slot'[o].at \notin {"dispatch", "replay", "session"}
    <3>1. CASE \E a \in Answers : Answer(r, a)
      BY <3>1, Answered DEF Following
    <3>2. ASSUME NEW to \in {"session", "stateless", "replay"}, Forward(r, to),
                 slot[r].at = "dispatch", to = "replay" => slot[r].method = "GET",
                 NEW o \in Slots
          PROVE  /\ slot'[o].session = slot[o].session
                 /\ slot'[o].last = slot[o].last
                 /\ slot'[o].method = slot[o].method
                 /\ UnderWay(o)' => UnderWay(o)
                 /\ slot'[o].at = "replay" => slot[o].method = "GET"
      BY <1>0, <3>2 DEF Forward, Slot, UnderWay, Following
    <3> QED
      BY <2>2, <3>1, <3>2
  <2> QED
    BY <1>0, <2>1, <2>3, Quiet
<1>7. CASE UNCHANGED vars
  BY <1>0, <1>7, Quiet DEF vars, UnderWay, Following
<1> QED
  BY <1>1, <1>2, <1>3, <1>4, <1>5, <1>6, <1>7, DeliverFollows, ReceiveFollows,
     ReplayFollows, ServeFollows DEF Next, Handle

\* NothingLostOrRepeated: on streams, on resumed streams and by replay, a client
\* gets what the session sent, nothing twice and nothing left out.
THEOREM NoneLostOrRepeated == Spec => []NothingLostOrRepeated
<1> DEFINE Inv == Following /\ odd = {}
<1>1. Init => Inv
  BY DEF Init, EmptySlot, Following, UnderWay
<1>2. TypeOK /\ Inv /\ [Next]_vars => Inv'
  BY StepFollows
<1>3. Inv => NothingLostOrRepeated
  BY DEF Following, NothingLostOrRepeated
<1> HIDE DEF Inv
<1> QED
  BY <1>1, <1>2, <1>3, TypeCorrect, PTL DEF Spec

=============================================================================
