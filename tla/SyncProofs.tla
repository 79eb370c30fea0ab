----------------------------- MODULE SyncProofs -----------------------------
(***************************************************************************)
(* What SyncClient's calls return, for any set of entities, any number of   *)
(* calls and any number of lost connections.  The two properties are about  *)
(* the step in which a call returns; what makes them true is collected in   *)
(* SyncInv, an invariant of the calls, the handlers and the messages that   *)
(* are on their way.                                                        *)
(***************************************************************************)
EXTENDS SyncClient, FiniteSetTheorems, TLAPS

MessageIds == Ids \cup {"Entity"}

Messages == [id : MessageIds, entity : Entities, session : Nat]

Ops == {"none", "connect", "connect_list", "list_entities", "device_info", "serial_proxy",
        "disconnect"}

Requested == {"SubscribeStatesRequest", "ListEntitiesRequest", "DeviceInfoRequest"}

CallType == [op : Ops, n : Nat, done : BOOLEAN, ok : BOOLEAN, info : Nat]

(* The types of what the calls and the connection share. *)
SyncTypes ==
    /\ conn \in {"Disconnected", "Connecting", "Connected", "Closing", "Closed", "Failed"}
    /\ connecting \in Nat /\ calls \in Nat /\ session \in Nat
    /\ handlers \in [Ids -> Nat]
    /\ call \in CallType
    /\ outbox \in Seq(Requested) /\ inbox \in Seq(Messages)
    /\ stored \subseteq Entities

(* Nothing of an earlier session is on its way: the queues are empty unless    *)
(* the session is open, and what they hold is of this session.                 *)
QueuesOfSession ==
    /\ conn \notin {"Connected", "Closing"} => inbox = <<>> /\ outbox = <<>>
    /\ \A i \in DOMAIN inbox : inbox[i].session = session

(* An attempt that is under way has a completion, and it belongs to the call  *)
(* that runs and waits for it.                                                 *)
ConnectWaits ==
    conn = "Connecting" =>
        connecting # 0 /\ call.n = connecting /\ call.op = "connect" /\ ~call.done

(* The handlers that are installed are those of this and of earlier calls, and *)
(* a handler of this call is the one that it waits for.                        *)
HandlersOfCalls ==
    /\ call.n <= calls
    /\ \A id \in Ids :
          /\ handlers[id] <= calls
          /\ call.n # 0 /\ handlers[id] = call.n =>
                 call.op \in DOMAIN Awaited /\ Awaited[call.op] = id

(* Before the end of a list each entity has been taken in or comes first.      *)
ListedBefore(box, e, i) == \E j \in 1..(i - 1) : box[j].id = "Entity" /\ box[j].entity = e

EndsComplete(box, known) ==
    \A i \in DOMAIN box :
        box[i].id = "ListEntitiesDoneResponse" =>
            \A e \in Entities : e \in known \/ ListedBefore(box, e, i)

ListEndsComplete == EndsComplete(inbox, stored)

(* What a call has that is about to return. *)
DoneHasAnswer ==
    call.done =>
        /\ call.op = "device_info" => call.info = session
        /\ call.op \in {"list_entities", "connect_list"} => stored = Entities

(* What device_info() has returned the client holds, until the next connect(). *)
InfoHeld ==
    /\ call.done /\ call.op = "device_info" => cached = session
    /\ /\ outcome.op = "device_info" /\ outcome.how = "returned"
       /\ call.op \notin {"connect", "connect_list"}
       => cached = session /\ outcome.info = session

SyncInv ==
    /\ SyncTypes /\ QueuesOfSession /\ ConnectWaits
    /\ HandlersOfCalls /\ ListEndsComplete /\ DoneHasAnswer /\ InfoHeld

-----------------------------------------------------------------------------
(* The entities in the order in which the device lists them: all of them. *)
LEMMA EveryEntityListed ==
  /\ Cardinality(Entities) \in Nat
  /\ SetToSeq(Entities) \in [1..Cardinality(Entities) -> Entities]
  /\ \A e \in Entities : \E i \in 1..Cardinality(Entities) : SetToSeq(Entities)[i] = e
  <1> DEFINE n == Cardinality(Entities)
             s == SetToSeq(Entities)
  <1>1. IsFiniteSet(Entities)
    BY SyncAssumption
  <1>2. n \in Nat /\ ExistsBijection(1..n, Entities)
    BY <1>1, FS_CardinalityType
  <1>3. \E f \in [1..n -> Entities] : IsInjective(f)
    BY <1>2 DEF ExistsBijection, Bijection, Injection
  <1>4. s \in [1..n -> Entities] /\ IsInjective(s)
    BY <1>3, Zenon DEF SetToSeq
  <1>5. s \in Injection(1..n, Entities)
    BY <1>4 DEF Injection
  <1>6. IsFiniteSet(1..n) /\ Cardinality(1..n) = n
    BY <1>2, FS_Interval
  <1>7. s \in Surjection(1..n, Entities)
    BY <1>1, <1>5, <1>6, FS_Injection
  <1> QED
    BY <1>2, <1>4, <1>7 DEF Surjection

(* An answer is a sequence of messages of this session, and a list ends after *)
(* all of its entities.                                                       *)
LEMMA AnswerFacts ==
  ASSUME session \in Nat, NEW r \in Requested
  PROVE  /\ Answer(r) \in Seq(Messages)
         /\ \A i \in DOMAIN Answer(r) : Answer(r)[i].session = session
         /\ EndsComplete(Answer(r), {})
  <1> DEFINE n == Cardinality(Entities)
             es == [i \in 1..n |-> Message("Entity", SetToSeq(Entities)[i])]
             last == Message("ListEntitiesDoneResponse", NoEntity)
  <1>0. /\ n \in Nat
        /\ SetToSeq(Entities) \in [1..n -> Entities]
        /\ \A e \in Entities : \E i \in 1..n : SetToSeq(Entities)[i] = e
    BY EveryEntityListed
  <1>e. NoEntity \in Entities
    BY SyncAssumption, Zenon DEF NoEntity
  <1>m. \A id \in MessageIds, e \in Entities : Message(id, e) \in Messages
    BY DEF Message, Messages
  <1>1. CASE r = "ListEntitiesRequest"
    <2>1. Answer(r) = es \o <<last>>
      BY <1>1, Zenon DEF Answer
    <2>2. es \in Seq(Messages) /\ Len(es) = n
      BY <1>0, <1>m DEF MessageIds
    <2>3. last \in Messages
      BY <1>e, <1>m DEF MessageIds, Ids
    <2>4. /\ Len(es \o <<last>>) = n + 1
          /\ es \o <<last>> \in Seq(Messages)
          /\ \A i \in 1..n : (es \o <<last>>)[i] = es[i]
          /\ (es \o <<last>>)[n + 1] = last
      BY <1>0, <2>2, <2>3, SMTT(40)
    <2>5. /\ \A i \in 1..n : /\ es[i].id = "Entity" /\ es[i].session = session
                             /\ es[i].entity = SetToSeq(Entities)[i]
          /\ last.session = session
      BY DEF Message
    <2> HIDE DEF es, last, n
    <2>6. \A i \in 1..(n + 1) : i \in 1..n \/ i = n + 1
      BY <1>0
    <2>d. DOMAIN Answer(r) = 1..(n + 1)
      BY <2>1, <2>4
    <2>7. ASSUME NEW i \in DOMAIN Answer(r), Answer(r)[i].id = "ListEntitiesDoneResponse",
                 NEW e \in Entities
          PROVE  ListedBefore(Answer(r), e, i)
      <3>1. i = n + 1
        BY <2>1, <2>4, <2>5, <2>6, <2>7, <2>d
      <3>2. PICK j \in 1..n : SetToSeq(Entities)[j] = e
        BY <1>0
      <3>3. j \in 1..(i - 1)
        BY <1>0, <3>1
      <3> QED
        BY <2>1, <2>4, <2>5, <3>2, <3>3, Zenon DEF ListedBefore
    <2>8. EndsComplete(Answer(r), {})
      BY <2>7, Zenon DEF EndsComplete
    <2>9. \A i \in DOMAIN Answer(r) : Answer(r)[i].session = session
      BY <2>1, <2>4, <2>5, <2>6, <2>d
    <2> QED
      BY <2>1, <2>4, <2>8, <2>9
  <1>2. CASE r = "DeviceInfoRequest"
    <2>1. Answer(r) = <<Message("DeviceInfoResponse", NoEntity)>>
      BY <1>2 DEF Answer
    <2>2. Message("DeviceInfoResponse", NoEntity) \in Messages
      BY <1>e, <1>m DEF MessageIds, Ids
    <2> QED
      BY <2>1, <2>2 DEF EndsComplete, Message
  <1>3. CASE r = "SubscribeStatesRequest"
    <2>1. Answer(r) = <<>>
      BY <1>3 DEF Answer
    <2> QED
      BY <2>1 DEF EndsComplete
  <1> QED
    BY <1>1, <1>2, <1>3 DEF Requested

(* An answer behind what waits: the lists stay complete. *)
LEMMA AppendedComplete ==
  ASSUME NEW box \in Seq(Messages), NEW more \in Seq(Messages), NEW known,
         EndsComplete(box, known), EndsComplete(more, {})
  PROVE  EndsComplete(box \o more, known)
  <1> DEFINE all == box \o more
  <1>0. /\ all \in Seq(Messages) /\ Len(all) = Len(box) + Len(more)
        /\ Len(box) \in Nat /\ Len(more) \in Nat
        /\ DOMAIN box = 1..Len(box) /\ DOMAIN more = 1..Len(more) /\ DOMAIN all = 1..Len(all)
        /\ \A i \in 1..Len(box) : all[i] = box[i]
        /\ \A i \in 1..Len(more) : all[Len(box) + i] = more[i]
    OBVIOUS
  <1> HIDE DEF all
  <1>1. ASSUME NEW i \in DOMAIN all, all[i].id = "ListEntitiesDoneResponse", NEW e \in Entities
        PROVE  e \in known \/ ListedBefore(all, e, i)
    <2>1. CASE i \in 1..Len(box)
      <3>1. e \in known \/ ListedBefore(box, e, i)
        BY <1>0, <1>1, <2>1 DEF EndsComplete
      <3>2. \A j \in 1..(i - 1) : j \in 1..Len(box)
        BY <1>0, <2>1
      <3> QED
        BY <1>0, <3>1, <3>2 DEF ListedBefore
    <2>2. CASE i \notin 1..Len(box)
      <3>1. PICK k \in 1..Len(more) : i = Len(box) + k
        <4>1. i - Len(box) \in 1..Len(more) /\ i = Len(box) + (i - Len(box))
          BY <1>0, <2>2
        <4> QED
          BY <4>1
      <3>2. ListedBefore(more, e, k)
        BY <1>0, <1>1, <3>1, Zenon DEF EndsComplete
      <3>3. PICK j \in 1..(k - 1) : more[j].id = "Entity" /\ more[j].entity = e
        BY <3>2 DEF ListedBefore
      <3>4. Len(box) + j \in 1..(i - 1) /\ j \in 1..Len(more)
        BY <1>0, <3>1
      <3> QED
        BY <1>0, <3>3, <3>4 DEF ListedBefore
    <2> QED
      BY <2>1, <2>2
  <1>2. EndsComplete(all, known)
    BY <1>1, Zenon DEF EndsComplete
  <1> QED
    BY <1>2 DEF all

(* The first message taken in: the rest is complete, and a list that ends with *)
(* it has all of its entities in the store.                                    *)
LEMMA TakenComplete ==
  ASSUME NEW box \in Seq(Messages), box # <<>>, NEW known,
         EndsComplete(box, known)
  PROVE  /\ Head(box) = box[1] /\ box[1] \in Messages /\ 1 \in DOMAIN box
         /\ Tail(box) \in Seq(Messages)
         /\ \A i \in DOMAIN Tail(box) : i + 1 \in DOMAIN box /\ Tail(box)[i] = box[i + 1]
         /\ box[1].id = "ListEntitiesDoneResponse" => Entities \subseteq known
         /\ box[1].id = "Entity" => EndsComplete(Tail(box), known \cup {box[1].entity})
         /\ box[1].id # "Entity" => EndsComplete(Tail(box), known)
  <1> DEFINE rest == Tail(box)
  <1>0. /\ Len(box) \in Nat /\ Len(box) > 0 /\ DOMAIN box = 1..Len(box)
        /\ rest \in Seq(Messages) /\ DOMAIN rest = 1..Len(rest) /\ Len(rest) = Len(box) - 1
        /\ Head(box) = box[1]
        /\ \A i \in DOMAIN rest : rest[i] = box[i + 1]
    OBVIOUS
  <1> HIDE DEF rest
  <1>1. 1 \in DOMAIN box /\ box[1] \in Messages
    BY <1>0
  <1>2. \A i \in DOMAIN rest : i + 1 \in DOMAIN box
    BY <1>0
  <1>3. ASSUME box[1].id = "ListEntitiesDoneResponse" PROVE Entities \subseteq known
    <2>1. ASSUME NEW e \in Entities PROVE e \in known
      <3>1. e \in known \/ ListedBefore(box, e, 1)
        BY <1>1, <1>3 DEF EndsComplete
      <3>2. ~ListedBefore(box, e, 1)
        BY DEF ListedBefore
      <3> QED
        BY <3>1, <3>2
    <2> QED
      BY <2>1
  <1>4. ASSUME NEW i \in DOMAIN rest, rest[i].id = "ListEntitiesDoneResponse", NEW e \in Entities
        PROVE  \/ e \in known \/ ListedBefore(rest, e, i)
               \/ box[1].id = "Entity" /\ box[1].entity = e
    <2>1. e \in known \/ ListedBefore(box, e, i + 1)
      BY <1>0, <1>2, <1>4 DEF EndsComplete
    <2>2. ASSUME ListedBefore(box, e, i + 1), ~(box[1].id = "Entity" /\ box[1].entity = e)
          PROVE  ListedBefore(rest, e, i)
      <3>1. PICK j \in 1..((i + 1) - 1) : box[j].id = "Entity" /\ box[j].entity = e
        BY <2>2 DEF ListedBefore
      <3>2. j # 1
        BY <2>2, <3>1
      <3>3. j - 1 \in 1..(i - 1) /\ j - 1 \in DOMAIN rest /\ (j - 1) + 1 = j
        BY <1>0, <3>1, <3>2
      <3>4. rest[j - 1] = box[j]
        BY <1>0, <3>3, Zenon
      <3> QED
        BY <3>1, <3>3, <3>4 DEF ListedBefore
    <2> QED
      BY <2>1, <2>2
  <1>5. box[1].id = "Entity" => EndsComplete(rest, known \cup {box[1].entity})
    BY <1>4 DEF EndsComplete
  <1>6. box[1].id # "Entity" => EndsComplete(rest, known)
    BY <1>4, Zenon DEF EndsComplete
  <1> QED
    BY <1>0, <1>1, <1>2, <1>3, <1>5, <1>6 DEF rest
(* Nothing waits at all. *)
LEMMA NothingWaits == \A known : EndsComplete(<<>>, known)
  BY DEF EndsComplete

(* No call, no message, nothing installed. *)
LEMMA SyncInitInd == SyncInit => SyncInv
  <1> SUFFICES ASSUME SyncInit PROVE SyncInv
    OBVIOUS
  <1>1. SyncTypes
    BY DEF SyncInit, SyncTypes, CallType, Idle, Ops
  <1>2. ListEndsComplete
    BY NothingWaits DEF SyncInit, ListEndsComplete
  <1> QED
    BY <1>1, <1>2 DEF SyncInit, SyncInv, QueuesOfSession, ConnectWaits,
        HandlersOfCalls, DoneHasAnswer, InfoHeld, Idle, NoOutcome, Ids

(* A call that begins. *)
LEMMA StartedTyped ==
  ASSUME calls \in Nat
  PROVE  /\ Started("list_entities") \in CallType /\ Started("device_info") \in CallType
         /\ Started("connect") \in CallType /\ Started("disconnect") \in CallType
         /\ Started("serial_proxy") \in CallType
         /\ Idle \in CallType
  BY DEF Started, CallType, Ops, Idle

(* A new session starts with empty queues and a call of its own. *)
LEMMA ConnectInd == SyncInv /\ connect => SyncInv'
  <1> SUFFICES ASSUME SyncInv, connect PROVE SyncInv'
    OBVIOUS
  <1> USE DEF SyncInv, connect, Begins
  <1>1. SyncTypes'
    BY StartedTyped DEF SyncTypes
  <1>2. QueuesOfSession'
    BY DEF QueuesOfSession, SyncTypes
  <1>3. ConnectWaits'
    BY DEF ConnectWaits, SyncTypes, Started, Idle
  <1>4. InfoHeld'
    BY DEF InfoHeld, DoneHasAnswer, SyncTypes, Started, Idle
  <1>5. HandlersOfCalls'
    BY DEF HandlersOfCalls, SyncTypes, CallType, Ids, Started, Idle
  <1>6. ListEndsComplete'
    <2>1. inbox' = <<>>
      BY DEF QueuesOfSession
    <2> QED
      BY <2>1, NothingWaits, Zenon DEF ListEndsComplete
  <1>7. DoneHasAnswer'
    BY DEF DoneHasAnswer, SyncTypes, Started, Idle
  <1> QED
    BY <1>1, <1>2, <1>3, <1>4, <1>5, <1>6, <1>7

(* The call waits for its own handler, or it is refused. *)
LEMMA ListInd == SyncInv /\ list_entities => SyncInv'
  <1> SUFFICES ASSUME SyncInv, list_entities PROVE SyncInv'
    OBVIOUS
  <1> USE DEF SyncInv, list_entities, Begins, is_connected, Requests, Refused, net_vars, Awaited
  <1>1. SyncTypes'
    <2>1. call' \in CallType /\ calls' \in Nat
      BY StartedTyped DEF SyncTypes
    <2>2. CASE is_connected
      <3>1. <<"ListEntitiesRequest">> \in Seq(Requested)
        BY DEF Requested
      <3>2. outbox' = outbox \o <<"ListEntitiesRequest">>
        BY <2>2, Zenon
      <3>3. outbox' \in Seq(Requested)
        BY <3>1, <3>2 DEF SyncTypes
      <3>4. handlers' \in [Ids -> Nat]
        BY <2>2, StartedTyped DEF SyncTypes, CallType
      <3>5. UNCHANGED <<conn, connecting, inbox, stored, session>>
        BY <2>2, Zenon
      <3> QED
        BY <2>1, <3>3, <3>4, <3>5 DEF SyncTypes
    <2>3. CASE ~is_connected
      <3>1. UNCHANGED <<conn, connecting, outbox, inbox, stored, session, handlers>>
        BY <2>3, Zenon
      <3> QED
        BY <2>1, <3>1 DEF SyncTypes
    <2> QED
      BY <2>2, <2>3
  <1>2. QueuesOfSession'
    BY DEF QueuesOfSession, SyncTypes
  <1>3. ConnectWaits'
    BY DEF ConnectWaits, SyncTypes, Started, Idle
  <1>4. InfoHeld'
    BY DEF InfoHeld, DoneHasAnswer, SyncTypes, Started, Idle
  <1>5. HandlersOfCalls'
    BY DEF HandlersOfCalls, SyncTypes, CallType, Ids, Started, Idle
  <1>6. ListEndsComplete'
    BY DEF ListEndsComplete
  <1>7. DoneHasAnswer'
    BY DEF DoneHasAnswer, SyncTypes, Started, Idle
  <1> QED
    BY <1>1, <1>2, <1>3, <1>4, <1>5, <1>6, <1>7

(* The same for device_info(). *)
LEMMA InfoInd == SyncInv /\ device_info => SyncInv'
  <1> SUFFICES ASSUME SyncInv, device_info PROVE SyncInv'
    OBVIOUS
  <1> USE DEF SyncInv, device_info, Begins, is_connected, Requests, Refused, net_vars, Awaited
  <1>1. SyncTypes'
    <2>1. call' \in CallType /\ calls' \in Nat
      BY StartedTyped DEF SyncTypes
    <2>2. CASE is_connected
      <3>1. <<"DeviceInfoRequest">> \in Seq(Requested)
        BY DEF Requested
      <3>2. outbox' = outbox \o <<"DeviceInfoRequest">>
        BY <2>2, Zenon
      <3>3. outbox' \in Seq(Requested)
        BY <3>1, <3>2 DEF SyncTypes
      <3>4. handlers' \in [Ids -> Nat]
        BY <2>2, StartedTyped, Zenon DEF SyncTypes, CallType
      <3>5. UNCHANGED <<conn, connecting, inbox, stored, session>>
        BY <2>2, Zenon
      <3> QED
        BY <2>1, <3>3, <3>4, <3>5 DEF SyncTypes
    <2>3. CASE ~is_connected
      <3>1. UNCHANGED <<conn, connecting, outbox, inbox, stored, session, handlers>>
        BY <2>3, Zenon
      <3> QED
        BY <2>1, <3>1 DEF SyncTypes
    <2> QED
      BY <2>2, <2>3
  <1>2. QueuesOfSession'
    BY DEF QueuesOfSession, SyncTypes
  <1>3. ConnectWaits'
    BY DEF ConnectWaits, SyncTypes, Started, Idle
  <1>4. InfoHeld'
    BY DEF InfoHeld, DoneHasAnswer, SyncTypes, Started, Idle
  <1>5. HandlersOfCalls'
    BY SMTT(40) DEF HandlersOfCalls, SyncTypes, CallType, Ids, Started, Idle
  <1>6. ListEndsComplete'
    BY DEF ListEndsComplete
  <1>7. DoneHasAnswer'
    BY DEF DoneHasAnswer, SyncTypes, Started, Idle
  <1> QED
    BY <1>1, <1>2, <1>3, <1>4, <1>5, <1>6, <1>7

(* The same for serial_proxy(), unless what the client holds will do. *)
LEMMA NameInd == SyncInv /\ serial_proxy => SyncInv'
  <1> SUFFICES ASSUME SyncInv, serial_proxy PROVE SyncInv'
    OBVIOUS
  <1> USE DEF SyncInv, serial_proxy, Begins, is_connected, Requests, Refused, net_vars,
           Awaited, Looks_up
  <1>1. SyncTypes'
    <2>1. call' \in CallType /\ calls' \in Nat
      BY StartedTyped DEF SyncTypes
    <2>2. CASE cached = 0 /\ is_connected
      <3>1. <<"DeviceInfoRequest">> \in Seq(Requested)
        BY DEF Requested
      <3>2. outbox' = outbox \o <<"DeviceInfoRequest">>
        BY <2>2, Zenon
      <3>3. outbox' \in Seq(Requested)
        BY <3>1, <3>2 DEF SyncTypes
      <3>4. handlers' \in [Ids -> Nat]
        BY <2>2, StartedTyped, Zenon DEF SyncTypes, CallType
      <3>5. UNCHANGED <<conn, connecting, inbox, stored, session>>
        BY <2>2, Zenon
      <3> QED
        BY <2>1, <3>3, <3>4, <3>5 DEF SyncTypes
    <2>3. CASE ~(cached = 0 /\ is_connected)
      <3>1. UNCHANGED <<conn, connecting, outbox, inbox, stored, session, handlers>>
        BY <2>3, Zenon
      <3> QED
        BY <2>1, <3>1 DEF SyncTypes
    <2> QED
      BY <2>2, <2>3
  <1>2. QueuesOfSession'
    BY DEF QueuesOfSession, SyncTypes
  <1>3. ConnectWaits'
    BY DEF ConnectWaits, SyncTypes, Started, Idle
  <1>4. InfoHeld'
    BY DEF InfoHeld, DoneHasAnswer, SyncTypes, Started, Idle
  <1>5. HandlersOfCalls'
    BY SMTT(40) DEF HandlersOfCalls, SyncTypes, CallType, Ids, Started, Idle
  <1>6. ListEndsComplete'
    BY DEF ListEndsComplete
  <1>7. DoneHasAnswer'
    BY DEF DoneHasAnswer, SyncTypes, Started, Idle
  <1> QED
    BY <1>1, <1>2, <1>3, <1>4, <1>5, <1>6, <1>7

(* disconnect() installs nothing. *)
LEMMA DisconnectInd == SyncInv /\ disconnect => SyncInv'
  <1> SUFFICES ASSUME SyncInv, disconnect PROVE SyncInv'
    OBVIOUS
  <1> USE DEF SyncInv, disconnect, Begins, is_connected
  <1>1. SyncTypes'
    <2>1. call' \in CallType
      BY StartedTyped, Zenon DEF SyncTypes
    <2>2. calls' \in Nat
      BY DEF SyncTypes
    <2> QED
      BY <2>1, <2>2 DEF SyncTypes
  <1>2. QueuesOfSession'
    BY DEF QueuesOfSession, SyncTypes
  <1>3. ConnectWaits'
    BY DEF ConnectWaits, SyncTypes, Started, Idle
  <1>4. InfoHeld'
    BY DEF InfoHeld, DoneHasAnswer, SyncTypes, Started, Idle
  <1>5. HandlersOfCalls'
    BY DEF HandlersOfCalls, SyncTypes, CallType, Ids, Started, Idle
  <1>6. ListEndsComplete'
    BY DEF ListEndsComplete
  <1>7. DoneHasAnswer'
    BY DEF DoneHasAnswer, SyncTypes, Started, Idle
  <1> QED
    BY <1>1, <1>2, <1>3, <1>4, <1>5, <1>6, <1>7

(* connect() ends, or waits for the list under its own number. *)
LEMMA GoesOnInd == SyncInv /\ connect_goes_on => SyncInv'
  <1> SUFFICES ASSUME SyncInv, connect_goes_on PROVE SyncInv'
    OBVIOUS
  <1> DEFINE waits == [call EXCEPT !.op = "connect_list", !.done = FALSE]
  <1>0. /\ call.op = "connect"
        /\ UNCHANGED <<conn, connecting, inbox, stored, session, calls>>
        /\ \/ call' = Idle /\ UNCHANGED <<handlers, outbox>>
           \/ /\ call' = waits /\ is_connected
              /\ handlers' = [handlers EXCEPT !["ListEntitiesDoneResponse"] = waits.n]
              /\ outbox' = outbox \o <<"SubscribeStatesRequest", "ListEntitiesRequest">>
    BY Zenon DEF connect_goes_on, Ends, Requests, net_vars
  <1>t. /\ call \in CallType /\ outbox \in Seq(Requested) /\ handlers \in [Ids -> Nat]
        /\ calls \in Nat
    BY DEF SyncInv, SyncTypes
  <1>w. waits \in CallType /\ waits.op = "connect_list" /\ waits.n = call.n /\ ~waits.done
    BY <1>t, Zenon DEF CallType, Ops
  <1> HIDE DEF waits
  <1>1. SyncTypes'
    <2>1. <<"SubscribeStatesRequest", "ListEntitiesRequest">> \in Seq(Requested)
      BY DEF Requested
    <2>2. outbox' \in Seq(Requested)
      BY <1>0, <1>t, <2>1
    <2>3. call' \in CallType
      BY <1>0, <1>t, <1>w, StartedTyped, Zenon
    <2>4. call.n \in Nat
      BY <1>t DEF CallType
    <2>5. handlers' \in [Ids -> Nat]
      BY <1>0, <1>t, <1>w, <2>4
    <2> QED
      BY <1>0, <2>2, <2>3, <2>5 DEF SyncInv, SyncTypes
  <1>2. QueuesOfSession'
    BY <1>0 DEF SyncInv, QueuesOfSession, is_connected
  <1>3. ConnectWaits'
    BY <1>0 DEF SyncInv, ConnectWaits, connect_goes_on
  <1>4. InfoHeld'
    <2>1. (outcome' = outcome /\ call' = waits) \/ outcome'.op = "connect"
      <3>1. \/ Ends("threw", 0) \/ Ends("returned", 0)
            \/ (call' = waits /\ outcome' = outcome)
        BY Zenon DEF connect_goes_on, Requests, waits
      <3> QED
        BY <1>0, <3>1 DEF Ends
    <2>2. ~(call'.done /\ call'.op = "device_info")
      BY <1>0, <1>w DEF Idle
    <2> QED
      BY <1>w, <2>1, <2>2 DEF InfoHeld
  <1>5. HandlersOfCalls'
    <2>0. /\ call.n \in Nat /\ call.n <= calls
          /\ \A id \in Ids : handlers[id] <= calls /\ (call.n # 0 => handlers[id] # call.n)
      BY <1>0, <1>t DEF SyncInv, HandlersOfCalls, CallType, Awaited
    <2>1. CASE call' = Idle /\ UNCHANGED handlers
      BY <1>0, <1>t, <2>0, <2>1 DEF HandlersOfCalls, Idle
    <2>2. CASE call' = waits /\ handlers' = [handlers EXCEPT !["ListEntitiesDoneResponse"] = waits.n]
      <3>1. /\ handlers'["ListEntitiesDoneResponse"] = call.n
            /\ handlers'["DeviceInfoResponse"] = handlers["DeviceInfoResponse"]
        BY <1>t, <1>w, <2>2 DEF Ids
      <3> QED
        BY <1>0, <1>t, <1>w, <2>0, <2>2, <3>1 DEF HandlersOfCalls, Ids, Awaited
    <2> QED
      BY <1>0, <2>1, <2>2
  <1>6. ListEndsComplete'
    BY <1>0 DEF SyncInv, ListEndsComplete
  <1>7. DoneHasAnswer'
    BY <1>0, <1>w DEF DoneHasAnswer, Idle
  <1> QED
    BY <1>1, <1>2, <1>3, <1>4, <1>5, <1>6, <1>7 DEF SyncInv

(* The handler of the call goes with it. *)
LEMMA ReturnsInd == SyncInv /\ request_returns => SyncInv'
  <1> SUFFICES ASSUME SyncInv, request_returns PROVE SyncInv'
    OBVIOUS
  <1> USE DEF SyncInv, request_returns, Ends, net_vars, Awaited
  <1>1. SyncTypes'
    BY StartedTyped, Zenon DEF SyncTypes
  <1>2. QueuesOfSession'
    BY DEF QueuesOfSession, SyncTypes
  <1>3. ConnectWaits'
    BY DEF ConnectWaits, SyncTypes, Started, Idle
  <1>4. InfoHeld'
    <2>1. CASE call.op = "serial_proxy"
      BY <2>1 DEF InfoHeld, Looks_up, Idle
    <2>2. CASE call.op # "serial_proxy"
      BY <2>2 DEF InfoHeld, DoneHasAnswer, Idle
    <2> QED
      BY <2>1, <2>2
  <1>5. HandlersOfCalls'
    BY DEF HandlersOfCalls, SyncTypes, CallType, Ids, Started, Idle
  <1>6. ListEndsComplete'
    BY DEF ListEndsComplete
  <1>7. DoneHasAnswer'
    BY DEF DoneHasAnswer, SyncTypes, Started, Idle
  <1> QED
    BY <1>1, <1>2, <1>3, <1>4, <1>5, <1>6, <1>7

(* Nothing was installed. *)
LEMMA DisconnectedInd == SyncInv /\ disconnect_returns => SyncInv'
  <1> SUFFICES ASSUME SyncInv, disconnect_returns PROVE SyncInv'
    OBVIOUS
  <1> USE DEF SyncInv, disconnect_returns, Ends, net_vars
  <1>1. SyncTypes'
    BY StartedTyped DEF SyncTypes
  <1>2. QueuesOfSession'
    BY DEF QueuesOfSession, SyncTypes
  <1>3. ConnectWaits'
    BY DEF ConnectWaits, SyncTypes, Started, Idle
  <1>4. InfoHeld'
    BY DEF InfoHeld, DoneHasAnswer, SyncTypes, Started, Idle
  <1>5. HandlersOfCalls'
    BY DEF HandlersOfCalls, SyncTypes, CallType, Ids, Started, Idle
  <1>6. ListEndsComplete'
    BY DEF ListEndsComplete
  <1>7. DoneHasAnswer'
    BY DEF DoneHasAnswer, SyncTypes, Started, Idle
  <1> QED
    BY <1>1, <1>2, <1>3, <1>4, <1>5, <1>6, <1>7

(* The handler stays, under the number of a call that is over. *)
LEMMA TimesOutInd == SyncInv /\ pump_times_out => SyncInv'
  <1> SUFFICES ASSUME SyncInv, pump_times_out PROVE SyncInv'
    OBVIOUS
  <1> USE DEF SyncInv, pump_times_out, Ends, net_vars
  <1>1. SyncTypes'
    BY StartedTyped DEF SyncTypes
  <1>2. QueuesOfSession'
    BY DEF QueuesOfSession, SyncTypes
  <1>3. ConnectWaits'
    BY DEF ConnectWaits, SyncTypes, Awaited
  <1>4. InfoHeld'
    BY DEF InfoHeld, DoneHasAnswer, SyncTypes, Started, Idle
  <1>5. HandlersOfCalls'
    BY DEF HandlersOfCalls, SyncTypes, CallType, Ids, Started, Idle
  <1>6. ListEndsComplete'
    BY DEF ListEndsComplete
  <1>7. DoneHasAnswer'
    BY DEF DoneHasAnswer, SyncTypes, Idle
  <1> QED
    BY <1>1, <1>2, <1>3, <1>4, <1>5, <1>6, <1>7

(* The completion of connect() reaches the call that waits for it. *)
LEMMA EstablishedInd == SyncInv /\ connection_established => SyncInv'
  <1> SUFFICES ASSUME SyncInv, connection_established PROVE SyncInv'
    OBVIOUS
  <1> USE DEF SyncInv, connection_established, OnDone
  <1>1. SyncTypes'
    <2>1. [call EXCEPT !.done = TRUE, !.ok = TRUE] \in CallType
      BY Zenon DEF SyncTypes, CallType
    <2>2. call' \in CallType
      BY <2>1, Zenon DEF SyncTypes
    <2> QED
      BY <2>2 DEF SyncTypes
  <1>2. QueuesOfSession'
    BY DEF QueuesOfSession, SyncTypes
  <1>3. ConnectWaits'
    BY DEF ConnectWaits, SyncTypes, Started, Idle
  <1>4. InfoHeld'
    <2>1. call.op = "connect" /\ call'.op = "connect"
      BY DEF ConnectWaits, SyncTypes
    <2> QED
      BY <2>1, Zenon DEF InfoHeld
  <1>5. HandlersOfCalls'
    BY DEF HandlersOfCalls, SyncTypes, CallType, Ids, Started, Idle
  <1>6. ListEndsComplete'
    BY DEF ListEndsComplete
  <1>7. DoneHasAnswer'
    <2>1. call.op = "connect" /\ call.n = connecting
      BY DEF ConnectWaits
    <2>2. call'.op = "connect"
      BY <2>1 DEF SyncTypes
    <2> QED
      BY <2>2 DEF DoneHasAnswer
  <1> QED
    BY <1>1, <1>2, <1>3, <1>4, <1>5, <1>6, <1>7

(* The same when the attempt fails. *)
LEMMA FailsInd == SyncInv /\ connection_fails => SyncInv'
  <1> SUFFICES ASSUME SyncInv, connection_fails PROVE SyncInv'
    OBVIOUS
  <1> USE DEF SyncInv, connection_fails, OnDone
  <1>1. SyncTypes'
    <2>1. [call EXCEPT !.done = TRUE, !.ok = FALSE] \in CallType
      BY Zenon DEF SyncTypes, CallType
    <2>2. call' \in CallType
      BY <2>1, Zenon DEF SyncTypes
    <2> QED
      BY <2>2 DEF SyncTypes
  <1>2. QueuesOfSession'
    BY DEF QueuesOfSession, SyncTypes
  <1>3. ConnectWaits'
    BY DEF ConnectWaits, SyncTypes, Started, Idle
  <1>4. InfoHeld'
    <2>1. call.op = "connect" /\ call'.op = "connect"
      BY DEF ConnectWaits, SyncTypes
    <2> QED
      BY <2>1, Zenon DEF InfoHeld
  <1>5. HandlersOfCalls'
    BY DEF HandlersOfCalls, SyncTypes, CallType, Ids, Started, Idle
  <1>6. ListEndsComplete'
    BY DEF ListEndsComplete
  <1>7. DoneHasAnswer'
    <2>1. call.op = "connect" /\ call.n = connecting
      BY DEF ConnectWaits
    <2>2. call'.op = "connect"
      BY <2>1 DEF SyncTypes
    <2> QED
      BY <2>2 DEF DoneHasAnswer
  <1> QED
    BY <1>1, <1>2, <1>3, <1>4, <1>5, <1>6, <1>7

(* An attempt that ends without a word: the call waits on. *)
LEMMA ClosedEarlyInd == SyncInv /\ connection_closed_early => SyncInv'
  <1> SUFFICES ASSUME SyncInv, connection_closed_early PROVE SyncInv'
    OBVIOUS
  <1>1. /\ conn = "Connecting" /\ conn' = "Closed"
        /\ UNCHANGED <<connecting, handlers, call, calls, outbox, inbox, stored, session>>
        /\ UNCHANGED <<cached, outcome>>
    BY DEF connection_closed_early
  <1> QED
    BY <1>1 DEF SyncInv, SyncTypes, QueuesOfSession, ConnectWaits, HandlersOfCalls,
        ListEndsComplete, DoneHasAnswer, InfoHeld

(* What was on its way is dropped with the session. *)
LEMMA ClosesInd == SyncInv /\ connection_closes => SyncInv'
  <1> SUFFICES ASSUME SyncInv, connection_closes PROVE SyncInv'
    OBVIOUS
  <1> USE DEF SyncInv, connection_closes
  <1>1. SyncTypes'
    BY StartedTyped DEF SyncTypes
  <1>2. QueuesOfSession'
    BY DEF QueuesOfSession, SyncTypes
  <1>3. ConnectWaits'
    BY DEF ConnectWaits, SyncTypes, Started, Idle
  <1>4. InfoHeld'
    BY DEF InfoHeld, DoneHasAnswer, SyncTypes, Started, Idle
  <1>5. HandlersOfCalls'
    BY DEF HandlersOfCalls, SyncTypes, CallType, Ids, Started, Idle
  <1>6. ListEndsComplete'
    <2>1. inbox' = <<>>
      OBVIOUS
    <2> QED
      BY <2>1, NothingWaits, Zenon DEF ListEndsComplete
  <1>7. DoneHasAnswer'
    BY DEF DoneHasAnswer, SyncTypes, Started, Idle
  <1> QED
    BY <1>1, <1>2, <1>3, <1>4, <1>5, <1>6, <1>7

(* The same when the connection is lost. *)
LEMMA DropInd == SyncInv /\ Drop => SyncInv'
  <1> SUFFICES ASSUME SyncInv, Drop PROVE SyncInv'
    OBVIOUS
  <1> USE DEF SyncInv, Drop, is_connected
  <1>1. SyncTypes'
    BY StartedTyped DEF SyncTypes
  <1>2. QueuesOfSession'
    BY DEF QueuesOfSession, SyncTypes
  <1>3. ConnectWaits'
    BY DEF ConnectWaits, SyncTypes, Started, Idle
  <1>4. InfoHeld'
    BY DEF InfoHeld, DoneHasAnswer, SyncTypes, Started, Idle
  <1>5. HandlersOfCalls'
    BY DEF HandlersOfCalls, SyncTypes, CallType, Ids, Started, Idle
  <1>6. ListEndsComplete'
    <2>1. inbox' = <<>>
      OBVIOUS
    <2> QED
      BY <2>1, NothingWaits, Zenon DEF ListEndsComplete
  <1>7. DoneHasAnswer'
    BY DEF DoneHasAnswer, SyncTypes, Started, Idle
  <1> QED
    BY <1>1, <1>2, <1>3, <1>4, <1>5, <1>6, <1>7
(* A message reaches the call that waits for it, and the store.  What ends the *)
(* wait of a list comes behind the list's entities, of the same session.       *)
LEMMA FrameInd == SyncInv /\ handle_frame => SyncInv'
  <1> SUFFICES ASSUME SyncInv, handle_frame PROVE SyncInv'
    OBVIOUS
  <1> DEFINE m == inbox[1]
             run == {id \in Ids : resolves(id, m) /\ handlers[id] # 0}
             mine == {id \in run : handlers[id] = call.n}
             answered == [call EXCEPT !.done = TRUE, !.info = m.session]
  <1>t. SyncTypes /\ QueuesOfSession /\ ConnectWaits /\ HandlersOfCalls /\ DoneHasAnswer
        /\ InfoHeld
    BY DEF SyncInv
  <1>0. /\ inbox # <<>> /\ inbox \in Seq(Messages) /\ EndsComplete(inbox, stored)
        /\ stored \subseteq Entities /\ conn \in {"Connected", "Closing"}
    BY DEF handle_frame, SyncInv, SyncTypes, ListEndsComplete
  <1>1. /\ Head(inbox) = m /\ m \in Messages /\ 1 \in DOMAIN inbox
        /\ Tail(inbox) \in Seq(Messages)
        /\ \A i \in DOMAIN Tail(inbox) : i + 1 \in DOMAIN inbox /\ Tail(inbox)[i] = inbox[i + 1]
        /\ m.id = "ListEntitiesDoneResponse" => Entities \subseteq stored
        /\ m.id = "Entity" => EndsComplete(Tail(inbox), stored \cup {m.entity})
        /\ m.id # "Entity" => EndsComplete(Tail(inbox), stored)
    BY <1>0, TakenComplete, Zenon
  <1>2. /\ call' = IF mine # {} THEN answered ELSE call
        /\ stored' = IF m.id = "Entity" THEN stored \cup {m.entity} ELSE stored
        /\ inbox' = Tail(inbox)
        /\ UNCHANGED <<conn, connecting, handlers, calls, outbox, session, outcome>>
        /\ cached' = IF m.id = "DeviceInfoResponse" THEN m.session ELSE cached
    BY <1>1, Zenon DEF handle_frame, remember
  <1>m. m.entity \in Entities /\ m.session = session /\ session \in Nat
    BY <1>t, <1>1 DEF Messages, QueuesOfSession, SyncTypes
  <1>a. /\ answered \in CallType /\ answered.op = call.op /\ answered.n = call.n
        /\ answered.done /\ answered.info = session
    BY <1>t, <1>m, Zenon DEF SyncTypes, CallType
  <1>i. ASSUME mine # {}
        PROVE  /\ call.op \in DOMAIN Awaited /\ m.id = Awaited[call.op]
               /\ call.n # 0
    <2>1. PICK id \in Ids : resolves(id, m) /\ handlers[id] # 0 /\ handlers[id] = call.n
      BY <1>i
    <2> QED
      BY <1>t, <2>1 DEF resolves, HandlersOfCalls
  <1> HIDE DEF m, mine, run, answered
  <1>3. stored' \subseteq Entities
    BY <1>0, <1>2, <1>m
  <1>4. SyncTypes'
    BY <1>t, <1>1, <1>2, <1>a, <1>3 DEF SyncTypes
  <1>5. QueuesOfSession'
    BY <1>t, <1>0, <1>1, <1>2 DEF QueuesOfSession
  <1>6. ConnectWaits'
    BY <1>t, <1>0, <1>2 DEF ConnectWaits
  <1>7. HandlersOfCalls'
    BY <1>t, <1>2, <1>a DEF HandlersOfCalls
  <1>8. ListEndsComplete'
    BY <1>1, <1>2 DEF ListEndsComplete
  <1>9. DoneHasAnswer'
    <2>1. CASE mine # {}
      <3>1. call'.op \in {"list_entities", "connect_list"} => m.id = "ListEntitiesDoneResponse"
        BY <1>i, <1>2, <1>a, <2>1 DEF Awaited
      <3>2. m.id = "ListEntitiesDoneResponse" => stored' = Entities
        BY <1>0, <1>1, <1>2, Zenon
      <3> QED
        BY <1>2, <1>a, <2>1, <3>1, <3>2 DEF DoneHasAnswer
    <2>2. CASE mine = {}
      <3>1. stored = Entities => stored' = Entities
        BY <1>2, <1>m
      <3> QED
        BY <1>t, <1>2, <2>2, <3>1 DEF DoneHasAnswer
    <2> QED
      BY <2>1, <2>2
  <1>h. InfoHeld'
    <2>1. cached = session => cached' = session'
      BY <1>2, <1>m
    <2>2. call'.op = call.op
      BY <1>2, <1>a
    <2>3. ASSUME call'.done, call'.op = "device_info" PROVE cached' = session'
      <3>1. CASE mine # {}
        BY <1>i, <1>2, <1>m, <2>2, <2>3, <3>1 DEF Awaited
      <3>2. CASE mine = {}
        BY <1>t, <1>2, <2>1, <2>3, <3>2 DEF InfoHeld
      <3> QED
        BY <3>1, <3>2
    <2> QED
      BY <1>t, <1>2, <2>1, <2>2, <2>3 DEF InfoHeld
  <1> QED
    BY <1>4, <1>5, <1>6, <1>7, <1>8, <1>9, <1>h DEF SyncInv

(* The device's answers are of this session, and its lists complete. *)
LEMMA DeviceInd == SyncInv /\ DeviceAnswers => SyncInv'
  <1> SUFFICES ASSUME SyncInv, DeviceAnswers PROVE SyncInv'
    OBVIOUS
  <1> DEFINE more == Answer(Head(outbox))
  <1>0. /\ outbox # <<>> /\ outbox \in Seq(Requested) /\ inbox \in Seq(Messages)
        /\ session \in Nat /\ EndsComplete(inbox, stored) /\ conn = "Connected"
        /\ \A i \in DOMAIN inbox : inbox[i].session = session
    BY DEF DeviceAnswers, SyncInv, SyncTypes, ListEndsComplete, QueuesOfSession, is_connected
  <1>1. /\ inbox' = inbox \o more /\ outbox' = Tail(outbox)
        /\ UNCHANGED <<conn, connecting, handlers, call, calls, stored, session>>
    BY DEF DeviceAnswers
  <1>2. Head(outbox) \in Requested /\ Tail(outbox) \in Seq(Requested)
    BY <1>0
  <1>3. /\ more \in Seq(Messages) /\ EndsComplete(more, {})
        /\ \A i \in DOMAIN more : more[i].session = session
    BY <1>0, <1>2, AnswerFacts
  <1> HIDE DEF more
  <1>4. EndsComplete(inbox \o more, stored)
    BY <1>0, <1>3, AppendedComplete
  <1>5. inbox' \in Seq(Messages) /\ \A i \in DOMAIN inbox' : inbox'[i].session = session
    <2>1. /\ inbox \o more \in Seq(Messages)
          /\ \A i \in DOMAIN (inbox \o more) :
                \/ i \in DOMAIN inbox /\ (inbox \o more)[i] = inbox[i]
                \/ i - Len(inbox) \in DOMAIN more /\ (inbox \o more)[i] = more[i - Len(inbox)]
      BY <1>0, <1>3
    <2> QED
      BY <1>0, <1>1, <1>3, <2>1, Zenon
  <1>6. SyncTypes'
    BY <1>1, <1>2, <1>5 DEF SyncInv, SyncTypes
  <1>7. QueuesOfSession'
    BY <1>0, <1>1, <1>5, Zenon DEF QueuesOfSession
  <1>8. ListEndsComplete'
    BY <1>1, <1>4 DEF ListEndsComplete
  <1>9. ConnectWaits' /\ HandlersOfCalls' /\ DoneHasAnswer' /\ InfoHeld'
    BY <1>1 DEF DeviceAnswers, SyncInv, ConnectWaits, HandlersOfCalls, DoneHasAnswer, InfoHeld
  <1> QED
    BY <1>6, <1>7, <1>8, <1>9 DEF SyncInv

(* Every step keeps the invariant. *)
LEMMA SyncStep == SyncInv /\ [SyncNext]_sync_vars => SyncInv'
  <1> SUFFICES ASSUME SyncInv, [SyncNext]_sync_vars PROVE SyncInv'
    OBVIOUS
  <1>1. CASE SyncNext
    BY <1>1, ConnectInd, ListInd, InfoInd, NameInd, DisconnectInd, GoesOnInd,
       ReturnsInd, DisconnectedInd, TimesOutInd, EstablishedInd, FailsInd, ClosedEarlyInd,
       FrameInd, ClosesInd,
       DeviceInd, DropInd, Zenon DEF SyncNext
  <1>2. CASE UNCHANGED sync_vars
    BY <1>2 DEF sync_vars, SyncInv, SyncTypes, QueuesOfSession, ConnectWaits,
        HandlersOfCalls, ListEndsComplete, DoneHasAnswer, InfoHeld
  <1> QED
    BY <1>1, <1>2

(* SyncInv holds of every behaviour: whatever calls time out, whatever the      *)
(* device leaves unanswered and however often the connection is lost, what is   *)
(* on its way and what is installed belong to this session and to its calls.    *)
THEOREM SyncInvariance == SyncSpec => []SyncInv
  <1>1. SyncInit => SyncInv
    BY SyncInitInd
  <1>2. SyncInv /\ [SyncNext]_sync_vars => SyncInv'
    BY SyncStep
  <1> QED
    BY <1>1, <1>2, PTL DEF SyncSpec

-----------------------------------------------------------------------------
(* The steps in which a call may return: only request_returns() ends a request *)
(* with an answer, and what it returns is what the call holds.                 *)
LEMMA WhoReturns ==
  ASSUME SyncInv, SyncNext, outcome' # outcome, outcome'.how = "returned",
         outcome'.op \in {"list_entities", "connect_list", "device_info"}
  PROVE  /\ call.done /\ outcome'.op = call.op /\ outcome'.info = call.info
         /\ stored' = stored
  <1>1. connect_goes_on => outcome' = outcome \/ outcome'.op = "connect"
    BY DEF connect_goes_on, Ends, Requests, net_vars
  <1>2. disconnect_returns => outcome'.op = "disconnect"
    BY DEF disconnect_returns, Ends
  <1>3. pump_times_out => outcome'.how = "threw" \/ outcome'.op = "disconnect"
    BY DEF pump_times_out, Ends
  <1>4. list_entities \/ device_info => outcome' = outcome \/ outcome'.how = "threw"
    BY DEF list_entities, device_info, Refused
  <1>5. connect \/ disconnect \/ connection_established \/ connection_fails
           \/ connection_closed_early \/ handle_frame
           \/ connection_closes \/ DeviceAnswers \/ Drop => outcome' = outcome
    BY DEF connect, disconnect, connection_established, connection_fails, OnDone,
        connection_closed_early, handle_frame, connection_closes, DeviceAnswers, Drop
  <1>n. serial_proxy => outcome' = outcome \/ outcome'.op = "serial_proxy"
    BY DEF serial_proxy, Looks_up, Refused, Requests, net_vars
  <1>6. request_returns
    BY <1>1, <1>2, <1>3, <1>4, <1>5, <1>n, Zenon DEF SyncNext
  <1>7. call.op # "serial_proxy"
    BY <1>6 DEF request_returns, Looks_up
  <1> QED
    BY <1>6, <1>7 DEF request_returns, Ends, net_vars

(* The steps in which serial_proxy() may answer: both go by what is held. *)
LEMMA WhoLooksUp ==
  ASSUME SyncInv, SyncNext, outcome' # outcome, outcome'.op = "serial_proxy",
         outcome'.info # 0
  PROVE  outcome'.info = cached /\ call.op \in {"none", "serial_proxy"}
  <1>1. connect_goes_on => outcome' = outcome \/ outcome'.op = "connect"
    BY DEF connect_goes_on, Ends, Requests, net_vars
  <1>2. disconnect_returns => outcome'.op = "disconnect"
    BY DEF disconnect_returns, Ends
  <1>3. pump_times_out => outcome'.info = 0
    BY DEF pump_times_out, Ends
  <1>4. list_entities \/ device_info => outcome' = outcome \/ outcome'.info = 0
    BY DEF list_entities, device_info, Refused
  <1>5. connect \/ disconnect \/ connection_established \/ connection_fails
           \/ connection_closed_early \/ handle_frame
           \/ connection_closes \/ DeviceAnswers \/ Drop => outcome' = outcome
    BY DEF connect, disconnect, connection_established, connection_fails, OnDone,
        connection_closed_early, handle_frame, connection_closes, DeviceAnswers, Drop
  <1>6. request_returns \/ serial_proxy
    BY <1>1, <1>2, <1>3, <1>4, <1>5, Zenon DEF SyncNext
  <1>7. CASE request_returns
    <2>1. outcome'.op = call.op \/ call.op = "serial_proxy"
      BY <1>7 DEF request_returns, Ends
    <2> QED
      BY <1>7, <2>1 DEF request_returns, Looks_up
  <1>8. CASE serial_proxy
    <2>1. call = Idle /\ call.op = "none"
      BY <1>8 DEF serial_proxy, Begins, Idle
    <2> QED
      BY <1>8, <2>1 DEF serial_proxy, Looks_up, Refused
  <1> QED
    BY <1>6, <1>7, <1>8

(* ListIsComplete, for any set of entities: when list_entities() or the list   *)
(* of connect() returns, all of them are in the store, also when the answer    *)
(* that ended the wait was one to an earlier call that had timed out.          *)
THEOREM ListIsCompleteHolds == SyncSpec => ListIsComplete
  <1>1. SyncInv /\ [SyncNext]_sync_vars =>
           [outcome' # outcome /\ outcome'.how = "returned"
               /\ outcome'.op \in {"list_entities", "connect_list"}
            => stored' = Entities]_sync_vars
    <2> SUFFICES ASSUME SyncInv, SyncNext, outcome' # outcome, outcome'.how = "returned",
                        outcome'.op \in {"list_entities", "connect_list"}
                 PROVE  stored' = Entities
      BY Zenon DEF sync_vars
    <2>1. call.done /\ outcome'.op = call.op /\ stored' = stored
      BY WhoReturns
    <2> QED
      BY <2>1 DEF SyncInv, DoneHasAnswer
  <1> QED
    BY <1>1, SyncInvariance, PTL DEF SyncSpec, ListIsComplete

(* InfoIsOfThisSession, for any number of lost connections: device_info()      *)
(* never returns what an earlier session left behind.                          *)
THEOREM InfoIsOfThisSessionHolds == SyncSpec => InfoIsOfThisSession
  <1>1. SyncInv /\ [SyncNext]_sync_vars =>
           [outcome' # outcome /\ outcome'.op = "device_info" /\ outcome'.how = "returned"
            => outcome'.info = session]_sync_vars
    <2> SUFFICES ASSUME SyncInv, SyncNext, outcome' # outcome, outcome'.how = "returned",
                        outcome'.op = "device_info"
                 PROVE  outcome'.info = session
      BY Zenon DEF sync_vars
    <2>1. call.done /\ outcome'.op = call.op /\ outcome'.info = call.info
      BY WhoReturns
    <2> QED
      BY <2>1 DEF SyncInv, DoneHasAnswer
  <1> QED
    BY <1>1, SyncInvariance, PTL DEF SyncSpec, InfoIsOfThisSession

(* NameFollowsInfo, for any number of calls and sessions: what serial_proxy()  *)
(* goes by right after device_info() is what device_info() returned.           *)
THEOREM NameFollowsInfoHolds == SyncSpec => NameFollowsInfo
  <1>1. SyncInv /\ [SyncNext]_sync_vars =>
           [outcome' # outcome /\ outcome'.op = "serial_proxy" /\ outcome'.info # 0
               /\ outcome.op = "device_info" /\ outcome.how = "returned"
            => outcome'.info = outcome.info]_sync_vars
    <2> SUFFICES ASSUME SyncInv, SyncNext, outcome' # outcome,
                        outcome'.op = "serial_proxy", outcome'.info # 0,
                        outcome.op = "device_info", outcome.how = "returned"
                 PROVE  outcome'.info = outcome.info
      BY Zenon DEF sync_vars
    <2>1. outcome'.info = cached /\ call.op \in {"none", "serial_proxy"}
      BY WhoLooksUp
    <2> QED
      BY <2>1 DEF SyncInv, InfoHeld
  <1> QED
    BY <1>1, SyncInvariance, PTL DEF SyncSpec, NameFollowsInfo
=============================================================================
