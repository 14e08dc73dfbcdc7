----------------------------- MODULE EventStore -----------------------------
(***************************************************************************)
(* Events: the handles of event.move with their identifiers (guid.move,    *)
(* account.move, object.move), module events, and the context that keeps   *)
(* what a transaction emitted (natives/src/event.rs).                      *)
(*                                                                         *)
(* A transaction runs a payload and then an epilogue, which emits one      *)
(* module event and follows the payload whether it succeeded or not.  The  *)
(* virtual machine makes a context for each of the two, or, with           *)
(* continuous sessions, one for both.                                      *)
(***************************************************************************)
EXTENDS Integers, Sequences, FiniteSets

CONSTANTS Addresses,
          Types,         \* types of events
          Fee,           \* the type of the epilogue's event
          GuidLimit,     \* 2^50, scaled down: MAX_GUID_CREATION_NUM and INIT_GUID_CREATION_NUM
          Continuous,    \* one context for payload and epilogue?
          MaxEvents,     \* bound: events stored or emitted
          MaxGuids       \* bound: identifiers given out

ASSUME EventStoreAssumption ==
  /\ GuidLimit \in Nat /\ GuidLimit >= 2 /\ Fee \notin Types
  /\ Continuous \in BOOLEAN /\ MaxEvents \in Nat /\ MaxGuids \in Nat

VARIABLES
  stored,    \* resources: the guid_creation_num of accounts and objects, and the handles
  log,       \* the events of all transactions
  phase,     \* "idle", "payload" or "epilogue"
  event_session,   \* the resources as the session sees them
  events,    \* NativeEventContext
  failed     \* auxiliary: how many of these an aborted payload emitted

event_vars == <<stored, log, phase, event_session, events, failed>>

NoResource == 0    \* no account, or no object, at an address
Identifier(addr, number) == [addr |-> addr, creation_num |-> number]
Handle(guid, type, counter) == [guid |-> guid, type |-> type, counter |-> counter]
V1(guid, number, type) == [version |-> 1, guid |-> guid, seq |-> number, type |-> type]
V2(type) == [version |-> 2, type |-> type]

EventsInit ==
  /\ stored = [account |-> [a \in Addresses |-> NoResource],
               object |-> [a \in Addresses |-> NoResource], handles |-> {}]
  /\ log = <<>> /\ events = <<>> /\ failed = 0
  /\ phase = "idle"
  /\ event_session = stored

-----------------------------------------------------------------------------
(* Handles *)

\* guid::create, with the next number of an account or an object.
NewEventHandle(addr, number, type) == Handle(Identifier(addr, number), type, 0)

\* An account starts with the handles of CoinRegisterEvent and KeyRotationEvent.
CreateAccount(addr) ==
  /\ phase = "payload" /\ event_session.account[addr] = NoResource
  /\ \E type \in Types :
       event_session' = [event_session EXCEPT !.account[addr] = 2,
                           !.handles = @ \cup {NewEventHandle(addr, 0, type), NewEventHandle(addr, 1, type)}]
  /\ UNCHANGED <<stored, log, phase, events, failed>>

CreateObject(addr) ==
  /\ phase = "payload" /\ event_session.object[addr] = NoResource
  /\ \E type \in Types :
       event_session' = [event_session EXCEPT !.object[addr] = GuidLimit + 1,
                           !.handles = @ \cup {NewEventHandle(addr, GuidLimit, type)}]
  /\ UNCHANGED <<stored, log, phase, events, failed>>

AccountHandle(addr, type) ==
  /\ phase = "payload" /\ event_session.account[addr] # NoResource
  /\ event_session.account[addr] + 1 < GuidLimit
  /\ event_session' = [event_session EXCEPT !.account[addr] = @ + 1,
                         !.handles = @ \cup {NewEventHandle(addr, event_session.account[addr], type)}]
  /\ UNCHANGED <<stored, log, phase, events, failed>>

ObjectHandle(addr, type) ==
  /\ phase = "payload" /\ event_session.object[addr] # NoResource
  /\ event_session.object[addr] - GuidLimit < MaxGuids
  /\ event_session' = [event_session EXCEPT !.object[addr] = @ + 1,
                         !.handles = @ \cup {NewEventHandle(addr, event_session.object[addr], type)}]
  /\ UNCHANGED <<stored, log, phase, events, failed>>

DestroyHandle(handle) ==
  /\ phase = "payload"
  /\ event_session' = [event_session EXCEPT !.handles = @ \ {handle}]
  /\ UNCHANGED <<stored, log, phase, events, failed>>

-----------------------------------------------------------------------------
(* Emitting; the bound leaves room for the epilogue *)

Push(event) == events' = Append(events, event)

\* emit_event with write_to_event_store
EmitEvent(handle) ==
  /\ phase = "payload" /\ Len(log) + Len(events) + 1 < MaxEvents
  /\ Push(V1(handle.guid, handle.counter, handle.type))
  /\ event_session' = [event_session EXCEPT !.handles = (@ \ {handle}) \cup {[handle EXCEPT !.counter = @ + 1]}]
  /\ UNCHANGED <<stored, log, phase, failed>>

\* emit with write_module_event_to_store, called by the module of the type
Emit(type) ==
  /\ phase = "payload" /\ Len(log) + Len(events) + 1 < MaxEvents
  /\ Push(V2(type))
  /\ UNCHANGED <<stored, log, phase, event_session, failed>>

\* emitted_v1_events: the places of the events emitted_events_by_handle answers with
EmittedEventsByHandle(handle) ==
  {i \in DOMAIN events : events[i].version = 1 /\ events[i].guid = handle.guid /\ events[i].type = handle.type}

-----------------------------------------------------------------------------
(* Sessions *)

StartPayload ==
  /\ phase = "idle" /\ Len(log) < MaxEvents
  /\ phase' = "payload"
  /\ events' = <<>> /\ failed' = 0
  /\ UNCHANGED <<stored, log, event_session>>

\* what the payload did to the resources is kept until the transaction ends
Succeed ==
  /\ phase = "payload"
  /\ phase' = "epilogue"
  /\ UNCHANGED <<stored, log, event_session, events, failed>>

\* Mutant: resources are rolled back, and the context is as the payload left it.
FailKeepingEvents ==
  /\ phase = "payload"
  /\ phase' = "epilogue"
  /\ event_session' = stored
  /\ failed' = Len(events)
  /\ UNCHANGED <<stored, log, events>>

\* A payload that fails: its resources are rolled back.  Its context is dropped with its session,
\* or told to abort, which does nothing.
Fail ==
  /\ phase = "payload"
  /\ phase' = "epilogue"
  /\ event_session' = stored
  /\ events' = IF Continuous THEN events ELSE <<>>
  /\ failed' = IF Continuous THEN Len(events) ELSE 0
  /\ UNCHANGED <<stored, log>>

\* The epilogue emits its event, and the transaction is committed with the events of the context.
Epilogue ==
  /\ phase = "epilogue"
  /\ phase' = "idle"
  /\ log' = log \o Append(events, V2(Fee))
  /\ stored' = event_session
  /\ events' = <<>> /\ failed' = 0
  /\ UNCHANGED event_session

EventsNext ==
  \/ StartPayload \/ Succeed \/ Fail \/ Epilogue
  \/ \E addr \in Addresses : CreateAccount(addr) \/ CreateObject(addr)
  \/ \E addr \in Addresses, type \in Types : AccountHandle(addr, type) \/ ObjectHandle(addr, type)
  \/ \E handle \in event_session.handles : DestroyHandle(handle) \/ EmitEvent(handle)
  \/ \E type \in Types : Emit(type)

EventsSpec == EventsInit /\ [][EventsNext]_event_vars

-----------------------------------------------------------------------------
(* Properties *)

\* The places of a stream's events in a sequence.
Stream(seq, guid) == {i \in DOMAIN seq : seq[i].version = 1 /\ seq[i].guid = guid}

\* An identifier belongs to one handle, also where an account and an object share an address
\* (MAX_GUID_CREATION_NUM, INIT_GUID_CREATION_NUM).
GuidsAreUnique ==
  \A h, k \in event_session.handles : h.guid = k.guid => h = k

\* The stored events of a stream are numbered without gap or repetition, all of one type, and the
\* handle's counter says how many there are ("Storage can use this handle to prove the total number
\* of events"): failed payloads, handles destroyed and created since notwithstanding.
StreamsAreComplete ==
  /\ \A h \in stored.handles : Cardinality(Stream(log, h.guid)) = h.counter
  /\ \A i \in DOMAIN log : log[i].version = 1 =>
       LET stream == Stream(log, log[i].guid)
       IN  /\ log[i].seq = Cardinality({j \in stream : j < i})
           /\ \A j \in stream : log[j].type = log[i].type

\* In the middle of a payload, the context holds the events a handle's counter has moved by.
CountersMatchContext ==
  phase = "payload" =>
    \A h \in event_session.handles :
      LET before == {k \in stored.handles : k.guid = h.guid}
      IN  h.counter = Cardinality(EmittedEventsByHandle(h)) +
            (IF before = {} THEN 0 ELSE (CHOOSE k \in before : TRUE).counter)

\* What an aborted session emitted is gone: "State is handled by finish-abort" (event.rs:40).
AbortDropsEvents == failed = 0

\* The stored events of a handle are numbered without gap by its counter, whatever failed payloads
\* emitted, and a handle's identifier is its own (event.rs).
EventStreamsAreComplete == StreamsAreComplete /\ GuidsAreUnique /\ CountersMatchContext
=============================================================================
