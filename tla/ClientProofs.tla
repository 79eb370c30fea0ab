---------------------------- MODULE ClientProofs ----------------------------
(***************************************************************************)
(* The safety of the client's entity cache (Client.tla) for any device, any *)
(* configurations and any number of calls, changes and lost connections.    *)
(*                                                                          *)
(* The properties speak of what an accessor returns.  The invariant says    *)
(* what may be stored: under a key the description of an entity that has it *)
(* and a state of an entity that has it (StoreOfEntities), and of the       *)
(* states of an entity that shares its key with none the last one on its    *)
(* way, or the stored one when none is, is the device's (Current).          *)
(***************************************************************************)
EXTENDS Client, FiniteSetTheorems, TLAPS

StateMessages(e) == {StateMessage(e, v) : v \in Int}

(* What arrives. *)
Incoming ==
    {ListDone} \cup {ListMessage(e) : e \in AllEntities}
                   \cup UNION {StateMessages(e) : e \in AllEntities}

Requests ==
    {[kind |-> "ListEntitiesRequest"], [kind |-> "SubscribeStatesRequest"]}
        \cup [kind : {"Command"}, type : EntityDomains, key : {e.key : e \in AllEntities},
              value : Int]

(* The states that may be stored under a key. *)
StatesAt(k) == {NoMessage} \cup UNION {StateMessages(e) : e \in {f \in AllEntities : f.key = k}}

(* The entries with the domain of e: listed or not, with a state or without. *)
EntriesOf(e) ==
    {x \in [type : {e.type}, object_id : {<<>>, OidOf(e)}, info : {NoMessage, ListMessage(e)},
            state : StatesAt(e.key)] :
        x.info = NoMessage <=> x.object_id = <<>>}

StoreOfEntities ==
    \A k \in DOMAIN store : \E e \in AllEntities : e.key = k /\ store[k] \in EntriesOf(e)

ClientTypes ==
    /\ inbox \in Seq(Incoming) /\ outbox \in Seq(Requests)
    /\ config \in Configs /\ value \in [AllEntities -> Int]
    /\ subscribed \in BOOLEAN

(* A state of the entity e, the last one in the sequence s at position i. *)
Reports(m, e) == m.kind = "state" /\ m.key = e.key

LastReport(s, i, e) ==
    i \in DOMAIN s /\ Reports(s[i], e) /\ \A j \in DOMAIN s : j > i => ~Reports(s[j], e)

(* The newest state of e that the client has or will be told is v. *)
Newest(box, st, e, v) ==
    /\ \A i \in DOMAIN box : LastReport(box, i, e) => box[i].value = v
    /\ (\A i \in DOMAIN box : ~Reports(box[i], e)) =>
          (e.key \in DOMAIN st /\ st[e.key].state # NoMessage => st[e.key].state.value = v)

Current ==
    subscribed => \A e \in config : OwnKey(e) => Newest(inbox, store, e, value[e])

ClientInv == ClientTypes /\ StoreOfEntities /\ Current

-----------------------------------------------------------------------------
(* No domain is called as the type that is not known. *)
LEMMA DomainsKnown == Unknown \notin EntityDomains
  BY DEF Unknown, EntityDomains, TypesOf

(* The elements of a finite set in some order: all of them and no others. *)
LEMMA InOrder ==
  ASSUME NEW S, IsFiniteSet(S)
  PROVE  /\ SetToSeq(S) \in Seq(S)
         /\ \A x \in S : \E i \in DOMAIN SetToSeq(S) : SetToSeq(S)[i] = x
  <1> DEFINE n == Cardinality(S)
             s == SetToSeq(S)
  <1>2. n \in Nat /\ ExistsBijection(1..n, S)
    BY FS_CardinalityType
  <1>3. \E f \in [1..n -> S] : IsInjective(f)
    BY <1>2 DEF ExistsBijection, Bijection, Injection
  <1>4. s \in [1..n -> S] /\ IsInjective(s)
    BY <1>3, Zenon DEF SetToSeq
  <1>5. s \in Injection(1..n, S)
    BY <1>4 DEF Injection
  <1>6. IsFiniteSet(1..n) /\ Cardinality(1..n) = n
    BY <1>2, FS_Interval
  <1>7. s \in Surjection(1..n, S)
    BY <1>5, <1>6, FS_Injection
  <1>8. \A x \in S : \E i \in 1..n : s[i] = x
    BY <1>7 DEF Surjection
  <1>9. s \in Seq(S) /\ DOMAIN s = 1..n
    BY <1>2, <1>4
  <1> QED
    BY <1>8, <1>9, Zenon

(* Facts about the records. *)
LEMMA MessageFacts ==
  /\ \A e, v : /\ StateMessage(e, v).kind = "state" /\ StateMessage(e, v).token = e.type
               /\ StateMessage(e, v).key = e.key /\ StateMessage(e, v).value = v
               /\ StateMessage(e, v) # NoMessage
  /\ \A e : /\ ListMessage(e).kind = "list" /\ ListMessage(e).token = e.type
            /\ ListMessage(e).key = e.key /\ ListMessage(e).name = e.name
            /\ ListMessage(e) # NoMessage
            /\ ListMessage(e).object_id \in {<<>>, OidOf(e)}
  /\ ListDone.kind = "other" /\ NoMessage.value = 0
  BY DEF StateMessage, ListMessage, ListDone, NoMessage, OidOf

(* A key of its own belongs to one entity, and every entity has a domain. *)
LEMMA OneEntity ==
  ASSUME NEW e \in AllEntities, NEW f \in AllEntities
  PROVE  /\ OwnKey(e) /\ f.key = e.key => f = e
         /\ e.type = f.type /\ e.key = f.key => e = f
         /\ OidOf(e) # <<>> /\ e.type \in EntityDomains /\ e.type # Unknown
         /\ entity_type_from_token(e.type) = e.type
  BY EntityAssumption, DomainsKnown, Zenon DEF OidOf, OwnKey, entity_type_from_token

-----------------------------------------------------------------------------
(* Storing a message. *)

(* The members of an entry under the key of e, before its domain is known or after. *)
Members(f) ==
    [type : {f.type, Unknown}, object_id : {<<>>, OidOf(f)}, info : {NoMessage, ListMessage(f)},
     state : StatesAt(f.key)]

(* What a message of e finds under its key is of an entity with that key. *)
LEMMA MembersBefore ==
  ASSUME StoreOfEntities, NEW e \in AllEntities
  PROVE  \E f \in AllEntities :
            /\ f.key = e.key /\ entry(store, e.key) \in Members(f)
            /\ entry(store, e.key).info = NoMessage <=> entry(store, e.key).object_id = <<>>
            /\ entry(store, e.key).type = Unknown => entry(store, e.key).info = NoMessage
            /\ entry(store, e.key).type = Unknown => f = e
  <1>1. CASE e.key \in DOMAIN store
    <2>1. PICK f \in AllEntities : f.key = e.key /\ store[e.key] \in EntriesOf(f)
      BY <1>1, Zenon DEF StoreOfEntities
    <2> DEFINE x == store[e.key]
    <2>2. /\ x \in [type : {f.type}, object_id : {<<>>, OidOf(f)},
                    info : {NoMessage, ListMessage(f)}, state : StatesAt(f.key)]
          /\ x.info = NoMessage <=> x.object_id = <<>>
      BY <2>1, Zenon DEF EntriesOf
    <2>3. x \in Members(f) /\ x.type = f.type
      <3> HIDE DEF x
      <3> QED
        BY <2>2 DEF Members
    <2>4. f.type # Unknown /\ entry(store, e.key) = x
      BY <1>1, OneEntity, Zenon DEF entry
    <2> QED
      BY <2>1, <2>2, <2>3, <2>4, Zenon
  <1>2. CASE e.key \notin DOMAIN store
    <2>1. entry(store, e.key) = StoredEntity
      BY <1>2, Zenon DEF entry
    <2>2. /\ StoredEntity \in Members(e) /\ StoredEntity.info = NoMessage
          /\ StoredEntity.object_id = <<>>
      BY DEF StoredEntity, Members, StatesAt
    <2> QED
      BY <2>1, <2>2, Zenon
  <1> QED
    BY <1>1, <1>2, Zenon

(* Members with the domain of e make an entry. *)
LEMMA EntryIs ==
  ASSUME NEW e, NEW y \in Members(e), y.type = e.type,
         y.info = NoMessage <=> y.object_id = <<>>
  PROVE  y \in EntriesOf(e)
  <1>1. y \in [type : {e.type}, object_id : {<<>>, OidOf(e)},
               info : {NoMessage, ListMessage(e)}, state : StatesAt(e.key)]
    BY DEF Members
  <1> QED
    BY <1>1, Zenon DEF EntriesOf

(* A state is kept with what else is known. *)
LEMMA IngestState ==
  ASSUME StoreOfEntities, NEW e \in AllEntities, NEW v \in Int
  PROVE  LET m == StateMessage(e, v)
             new == ingest_state(store, m)
         IN  /\ DOMAIN new = DOMAIN store \cup {e.key}
             /\ \E f \in AllEntities : f.key = e.key /\ new[e.key] \in EntriesOf(f)
             /\ new[e.key].state = m
             /\ \A k \in DOMAIN store : k # e.key => new[k] = store[k]
  <1> DEFINE m == StateMessage(e, v)
             x == entry(store, e.key)
             y == [x EXCEPT !.type = IF @ = Unknown THEN entity_type_from_token(m.token) ELSE @,
                            !.state = m]
  <1>m. m.key = e.key /\ m.token = e.type /\ m \in StatesAt(e.key)
    <2>1. m \in StateMessages(e)
      BY Zenon DEF StateMessages
    <2> QED
      BY <2>1, MessageFacts, Zenon DEF StatesAt
  <1>1. ingest_state(store, m) =
            [k \in DOMAIN store \cup {e.key} |-> IF k = e.key THEN y ELSE store[k]]
    BY <1>m, Zenon DEF ingest_state, set_entry
  <1>2. \E f \in AllEntities : f.key = e.key /\ y \in EntriesOf(f) /\ y.state = m
    <2>1. PICK f \in AllEntities :
              /\ f.key = e.key /\ x \in Members(f)
              /\ x.info = NoMessage <=> x.object_id = <<>>
              /\ x.type = Unknown => f = e
      BY MembersBefore, Zenon
    <2>2. y = [x EXCEPT !.type = IF @ = Unknown THEN e.type ELSE @, !.state = m]
      BY <1>m, OneEntity, Zenon
    <2>3. m \in StatesAt(f.key)
      BY <1>m, <2>1, Zenon
    <2> HIDE DEF x, y, m
    <2>4. /\ y \in Members(f) /\ y.type = f.type /\ y.state = m
          /\ y.object_id = x.object_id /\ y.info = x.info
      BY <2>1, <2>2, <2>3 DEF Members
    <2> QED
      BY <2>1, <2>4, EntryIs, Zenon
  <1> HIDE DEF y
  <1> QED
    BY <1>1, <1>2, <1>m, Zenon

(* A description is kept with the state that came before it. *)
LEMMA IngestList ==
  ASSUME StoreOfEntities, NEW e \in AllEntities
  PROVE  LET m == ListMessage(e)
             new == ingest_list(store, m)
         IN  /\ DOMAIN new = DOMAIN store \cup {e.key}
             /\ \E f \in AllEntities : f.key = e.key /\ new[e.key] \in EntriesOf(f)
             /\ e.key \in DOMAIN store => new[e.key].state = store[e.key].state
             /\ e.key \notin DOMAIN store => new[e.key].state = NoMessage
             /\ \A k \in DOMAIN store : k # e.key => new[k] = store[k]
  <1> DEFINE m == ListMessage(e)
             x == entry(store, e.key)
             id == IF m.object_id = <<>> THEN object_id_from_name(m.name) ELSE m.object_id
             y == [x EXCEPT !.type = entity_type_from_token(m.token), !.object_id = id,
                            !.info = m]
  <1>m. /\ m.key = e.key /\ m.token = e.type /\ m.name = e.name
        /\ m.object_id \in {<<>>, OidOf(e)} /\ m # NoMessage
    BY MessageFacts, Zenon
  <1>t. entity_type_from_token(e.type) = e.type /\ OidOf(e) # <<>>
    BY OneEntity, Zenon
  <1>i. id = OidOf(e)
    BY <1>m, Zenon DEF OidOf
  <1> HIDE DEF id
  <1>1. ingest_list(store, m) =
            [k \in DOMAIN store \cup {e.key} |-> IF k = e.key THEN y ELSE store[k]]
    BY <1>m, Zenon DEF ingest_list, set_entry, id
  <1>2. y \in EntriesOf(e) /\ y.state = x.state
    <2>1. PICK f \in AllEntities : f.key = e.key /\ x \in Members(f)
      BY MembersBefore, Zenon
    <2>2. y = [x EXCEPT !.type = e.type, !.object_id = OidOf(e), !.info = ListMessage(e)]
      BY <1>t, <1>i, <1>m, Zenon
    <2> HIDE DEF x, y
    <2>4. /\ y \in Members(e) /\ y.type = e.type /\ y.state = x.state
          /\ y.object_id = OidOf(e) /\ y.info = ListMessage(e)
      BY <2>1, <2>2 DEF Members
    <2> QED
      BY <1>m, <1>t, <2>4, EntryIs, Zenon
  <1>3. /\ e.key \in DOMAIN store => x.state = store[e.key].state
        /\ e.key \notin DOMAIN store => x.state = NoMessage
    BY DEF StoredEntity, entry
  <1> HIDE DEF y
  <1> QED
    BY <1>1, <1>2, <1>3, <1>m, Zenon

(* What the store keeps when the entry of e changes. *)
LEMMA StoreKeeps ==
  ASSUME StoreOfEntities, NEW e \in AllEntities, NEW new,
         DOMAIN new = DOMAIN store \cup {e.key},
         \E f \in AllEntities : f.key = e.key /\ new[e.key] \in EntriesOf(f),
         \A k \in DOMAIN store : k # e.key => new[k] = store[k]
  PROVE  \A k \in DOMAIN new : \E f \in AllEntities : f.key = k /\ new[k] \in EntriesOf(f)
  <1>1. ASSUME NEW k \in DOMAIN new
        PROVE  \E f \in AllEntities : f.key = k /\ new[k] \in EntriesOf(f)
    <2>1. CASE k = e.key
      BY <2>1, Zenon
    <2>2. CASE k # e.key
      <3>1. k \in DOMAIN store /\ new[k] = store[k]
        BY <2>2, <1>1, Zenon
      <3> QED
        BY <3>1, Zenon DEF StoreOfEntities
    <2> QED
      BY <2>1, <2>2, Zenon
  <1> QED
    BY <1>1, Zenon

-----------------------------------------------------------------------------
(* The queue of messages. *)

(* A queue without its first message. *)
LEMMA Taken ==
  ASSUME NEW S, NEW s \in Seq(S), s # <<>>
  PROVE  /\ Head(s) \in S /\ Tail(s) \in Seq(S) /\ 1 \in DOMAIN s /\ s[1] = Head(s)
         /\ \A i \in DOMAIN s : i \in Int /\ (i > 1 => i - 1 \in DOMAIN Tail(s))
                                /\ (i = 1 \/ i > 1)
         /\ \A i \in DOMAIN Tail(s) :
               /\ i \in Int /\ i + 1 \in DOMAIN s /\ Tail(s)[i] = s[i + 1] /\ i + 1 > 1
  OBVIOUS

(* A queue with more messages behind it. *)
LEMMA Joined ==
  ASSUME NEW S, NEW s \in Seq(S), NEW t \in Seq(S)
  PROVE  /\ s \o t \in Seq(S) /\ Len(s) \in Int
         /\ \A i \in DOMAIN s : i \in Int /\ i \in DOMAIN (s \o t) /\ (s \o t)[i] = s[i]
         /\ \A i \in DOMAIN t :
               i \in Int /\ i > 0 /\ Len(s) + i \in DOMAIN (s \o t) /\ (s \o t)[Len(s) + i] = t[i]
         /\ \A i \in DOMAIN (s \o t) :
               /\ i \in Int
               /\ \/ i \in DOMAIN s /\ i <= Len(s)
                  \/ i > Len(s) /\ i - Len(s) \in DOMAIN t /\ (s \o t)[i] = t[i - Len(s)]
  OBVIOUS

(* A last state of e that is not the first message stays the last one. *)
LEMMA LastStays ==
  ASSUME NEW S, NEW box \in Seq(S), box # <<>>, NEW st, NEW e, NEW v, Newest(box, st, e, v)
  PROVE  \A i \in DOMAIN Tail(box) : LastReport(Tail(box), i, e) => Tail(box)[i].value = v
  <1>1. ASSUME NEW i \in DOMAIN Tail(box), LastReport(Tail(box), i, e)
        PROVE  Tail(box)[i].value = v
    <2>1. i \in Int /\ i + 1 \in DOMAIN box /\ Tail(box)[i] = box[i + 1]
      BY Taken
    <2>2. ASSUME NEW j \in DOMAIN box, j > i + 1 PROVE ~Reports(box[j], e)
      <3>1. j \in Int /\ (j = 1 \/ j > 1)
        BY Taken
      <3>2. j > 1 /\ j - 1 > i
        BY <2>1, <2>2, <3>1, <1>1, Taken
      <3>3. j - 1 \in DOMAIN Tail(box) /\ Tail(box)[j - 1] = box[(j - 1) + 1] /\ (j - 1) + 1 = j
        BY <3>1, <3>2, Taken
      <3>4. ~Reports(Tail(box)[j - 1], e)
        BY <1>1, <3>2, <3>3, Zenon DEF LastReport
      <3> QED
        BY <3>3, <3>4, Zenon
    <2>3. LastReport(box, i + 1, e)
      BY <1>1, <2>1, <2>2, Zenon DEF LastReport
    <2> QED
      BY <2>1, <2>3, Zenon DEF Newest
  <1> QED
    BY <1>1, Zenon

(* Taking a message that is no state of e keeps the newest state of e. *)
LEMMA TakeOther ==
  ASSUME NEW S, NEW box \in Seq(S), box # <<>>, NEW st, NEW new, NEW e, NEW v,
         Newest(box, st, e, v), ~Reports(Head(box), e),
         e.key \in DOMAIN new /\ new[e.key].state # NoMessage =>
             e.key \in DOMAIN st /\ st[e.key].state = new[e.key].state
  PROVE  Newest(Tail(box), new, e, v)
  <1>1. \A i \in DOMAIN Tail(box) : LastReport(Tail(box), i, e) => Tail(box)[i].value = v
    BY LastStays
  <1>2. ASSUME \A i \in DOMAIN Tail(box) : ~Reports(Tail(box)[i], e)
        PROVE  \A i \in DOMAIN box : ~Reports(box[i], e)
    <2>1. ASSUME NEW i \in DOMAIN box PROVE ~Reports(box[i], e)
      <3>1. CASE i = 1
        BY <3>1, Taken, Zenon
      <3>2. CASE i > 1
        <4>1. i - 1 \in DOMAIN Tail(box) /\ Tail(box)[i - 1] = box[(i - 1) + 1] /\ (i - 1) + 1 = i
          BY <2>1, <3>2, Taken
        <4> QED
          BY <1>2, <4>1, Zenon
      <3> QED
        BY <2>1, <3>1, <3>2, Taken, Zenon
    <2> QED
      BY <2>1, Zenon
  <1> QED
    BY <1>1, <1>2, Zenon DEF Newest

(* Taking a state of e stores it, and it is the newest if it was the last. *)
LEMMA TakeReport ==
  ASSUME NEW S, NEW box \in Seq(S), box # <<>>, NEW st, NEW new, NEW e, NEW v,
         Newest(box, st, e, v), Reports(Head(box), e),
         e.key \in DOMAIN new, new[e.key].state = Head(box)
  PROVE  Newest(Tail(box), new, e, v)
  <1>1. \A i \in DOMAIN Tail(box) : LastReport(Tail(box), i, e) => Tail(box)[i].value = v
    BY LastStays
  <1>2. ASSUME \A i \in DOMAIN Tail(box) : ~Reports(Tail(box)[i], e)
        PROVE  new[e.key].state.value = v
    <2>1. ASSUME NEW j \in DOMAIN box, j > 1 PROVE ~Reports(box[j], e)
      <3>1. j - 1 \in DOMAIN Tail(box) /\ Tail(box)[j - 1] = box[(j - 1) + 1] /\ (j - 1) + 1 = j
        BY <2>1, Taken
      <3> QED
        BY <1>2, <3>1, Zenon
    <2>2. 1 \in DOMAIN box /\ box[1] = Head(box)
      BY Taken, Zenon
    <2>3. LastReport(box, 1, e)
      BY <2>1, <2>2, Zenon DEF LastReport
    <2> QED
      BY <2>2, <2>3, Zenon DEF Newest
  <1> QED
    BY <1>1, <1>2, Zenon DEF Newest

(* New states of e put the newest one on its way. *)
LEMMA JoinReports ==
  ASSUME NEW S, NEW box \in Seq(S), NEW t \in Seq(S), NEW st, NEW e, NEW v,
         \E i \in DOMAIN t : Reports(t[i], e),
         \A i \in DOMAIN t : Reports(t[i], e) => t[i].value = v
  PROVE  Newest(box \o t, st, e, v)
  <1> DEFINE more == box \o t
  <1>0. /\ Len(box) \in Int
        /\ \A i \in DOMAIN box : i \in Int /\ i \in DOMAIN more /\ more[i] = box[i]
        /\ \A i \in DOMAIN t :
              i \in Int /\ i > 0 /\ Len(box) + i \in DOMAIN more /\ more[Len(box) + i] = t[i]
        /\ \A i \in DOMAIN more :
              /\ i \in Int
              /\ \/ i \in DOMAIN box /\ i <= Len(box)
                 \/ i > Len(box) /\ i - Len(box) \in DOMAIN t /\ more[i] = t[i - Len(box)]
    BY Joined
  <1> HIDE DEF more
  <1>1. PICK k \in DOMAIN t : Reports(t[k], e)
    OBVIOUS
  <1>2. /\ Len(box) + k \in DOMAIN more /\ more[Len(box) + k] = t[k]
        /\ k \in Int /\ k > 0 /\ Len(box) \in Int
    BY <1>0, Zenon
  <1>3. ASSUME NEW i \in DOMAIN more, LastReport(more, i, e)
        PROVE  more[i].value = v
    <2>1. ~(Len(box) + k > i)
      BY <1>1, <1>2, <1>3, Zenon DEF LastReport
    <2>2. i \in Int
      BY <1>0
    <2>3. ~(i <= Len(box))
      BY <1>2, <2>1, <2>2
    <2>4. i - Len(box) \in DOMAIN t /\ more[i] = t[i - Len(box)]
      BY <2>3, <1>0, Zenon
    <2>5. Reports(t[i - Len(box)], e)
      BY <1>3, <2>4, Zenon DEF LastReport
    <2> QED
      BY <2>4, <2>5, Zenon
  <1>4. ~ \A i \in DOMAIN more : ~Reports(more[i], e)
    BY <1>1, <1>2, Zenon
  <1> QED
    BY <1>3, <1>4, Zenon DEF Newest, more

(* Other messages leave the newest state of e as it is. *)
LEMMA JoinOthers ==
  ASSUME NEW S, NEW box \in Seq(S), NEW t \in Seq(S), NEW st, NEW e, NEW v,
         \A i \in DOMAIN t : ~Reports(t[i], e), Newest(box, st, e, v)
  PROVE  Newest(box \o t, st, e, v)
  <1> DEFINE more == box \o t
  <1>0. /\ Len(box) \in Int
        /\ \A i \in DOMAIN box : i \in Int /\ i \in DOMAIN more /\ more[i] = box[i]
        /\ \A i \in DOMAIN t :
              i \in Int /\ i > 0 /\ Len(box) + i \in DOMAIN more /\ more[Len(box) + i] = t[i]
        /\ \A i \in DOMAIN more :
              /\ i \in Int
              /\ \/ i \in DOMAIN box /\ i <= Len(box)
                 \/ i > Len(box) /\ i - Len(box) \in DOMAIN t /\ more[i] = t[i - Len(box)]
    BY Joined
  <1> HIDE DEF more
  <1>1. ASSUME NEW i \in DOMAIN more, Reports(more[i], e)
        PROVE  i \in DOMAIN box /\ more[i] = box[i]
    BY <1>1, <1>0, Zenon
  <1>2. ASSUME NEW i \in DOMAIN more, LastReport(more, i, e)
        PROVE  more[i].value = v
    <2>1. i \in DOMAIN box /\ more[i] = box[i]
      BY <1>1, <1>2, Zenon DEF LastReport
    <2>2. LastReport(box, i, e)
      BY <1>2, <2>1, <1>0, Zenon DEF LastReport
    <2> QED
      BY <2>1, <2>2, Zenon DEF Newest
  <1>3. ASSUME \A i \in DOMAIN more : ~Reports(more[i], e)
        PROVE  \A i \in DOMAIN box : ~Reports(box[i], e)
    BY <1>3, <1>0, Zenon
  <1> QED
    BY <1>2, <1>3, Zenon DEF Newest, more

(* The states that the device sends of the entities in A: one or more of each, *)
(* with the value it has, and no others.                                       *)
LEMMA ReportsOf ==
  ASSUME config \in Configs, NEW A \in SUBSET config, NEW w \in [AllEntities -> Int]
  PROVE  LET t == SetToSeq({StateMessage(e, w[e]) : e \in A})
         IN  /\ t \in Seq(Incoming)
             /\ \A e \in A : \E i \in DOMAIN t : Reports(t[i], e)
             /\ \A e \in AllEntities : OwnKey(e) => \A i \in DOMAIN t :
                    Reports(t[i], e) => e \in A /\ t[i].value = w[e]
  <1> DEFINE R == {StateMessage(e, w[e]) : e \in A}
             t == SetToSeq(R)
  <1>a. A \subseteq AllEntities /\ IsFiniteSet(A)
    <2>1. IsFiniteSet(config) /\ config \subseteq AllEntities
      BY ClientAssumption, Zenon DEF AllEntities
    <2> QED
      BY <2>1, FS_Subset, Zenon
  <1>1. IsFiniteSet(R)
    <2> DEFINE g == [e \in A |-> StateMessage(e, w[e])]
    <2>1. g \in Surjection(A, R)
      BY Zenon DEF Surjection
    <2> QED
      BY <1>a, <2>1, FS_Surjection, Zenon
  <1>m. \A e \in AllEntities : /\ StateMessage(e, w[e]).kind = "state"
                               /\ StateMessage(e, w[e]).key = e.key
                               /\ StateMessage(e, w[e]).value = w[e]
                               /\ StateMessage(e, w[e]) \in StateMessages(e)
    BY MessageFacts DEF StateMessages
  <1>2. t \in Seq(R) /\ \A x \in R : \E i \in DOMAIN t : t[i] = x
    BY <1>1, InOrder, Zenon
  <1>3. R \subseteq Incoming
    <2>1. ASSUME NEW e \in A PROVE StateMessage(e, w[e]) \in Incoming
      <3>1. e \in AllEntities /\ w[e] \in Int
        BY <1>a
      <3> QED
        BY <1>m, <3>1, Zenon DEF Incoming
    <2> QED
      BY <2>1, Zenon
  <1> HIDE DEF t
  <1>4. t \in Seq(Incoming) /\ \A i \in DOMAIN t : t[i] \in R
    BY <1>2, <1>3
  <1>5. ASSUME NEW e \in A PROVE \E i \in DOMAIN t : Reports(t[i], e)
    <2>1. PICK i \in DOMAIN t : t[i] = StateMessage(e, w[e])
      BY <1>2, Zenon
    <2> QED
      BY <1>a, <1>m, <2>1, Zenon DEF Reports
  <1>6. ASSUME NEW e \in AllEntities, OwnKey(e), NEW i \in DOMAIN t, Reports(t[i], e)
        PROVE  e \in A /\ t[i].value = w[e]
    <2>1. PICK f \in A : t[i] = StateMessage(f, w[f])
      BY <1>4, Zenon
    <2>2. f.key = e.key /\ t[i].value = w[f]
      BY <1>a, <1>6, <1>m, <2>1, Zenon DEF Reports
    <2>3. f = e
      BY <1>a, <1>6, <2>2, OneEntity, Zenon
    <2> QED
      BY <2>2, <2>3, Zenon
  <1> QED
    BY <1>4, <1>5, <1>6, Zenon DEF t

(* With them the client will be told what has changed. *)
LEMMA ReportsKeepCurrent ==
  ASSUME ClientTypes, NEW A \in SUBSET config, NEW w \in [AllEntities -> Int],
         \A e \in config :
            OwnKey(e) => e \in A \/ (w[e] = value[e] /\ Newest(inbox, store, e, value[e]))
  PROVE  LET box == inbox \o SetToSeq({StateMessage(e, w[e]) : e \in A})
         IN  /\ box \in Seq(Incoming)
             /\ \A e \in config : OwnKey(e) => Newest(box, store, e, w[e])
  <1> DEFINE t == SetToSeq({StateMessage(e, w[e]) : e \in A})
  <1>t. inbox \in Seq(Incoming) /\ config \in Configs
    BY Zenon DEF ClientTypes
  <1>1. /\ t \in Seq(Incoming)
        /\ \A e \in A : \E i \in DOMAIN t : Reports(t[i], e)
        /\ \A e \in AllEntities : OwnKey(e) => \A i \in DOMAIN t :
               Reports(t[i], e) => e \in A /\ t[i].value = w[e]
    BY <1>t, ReportsOf, Zenon
  <1>2. config \subseteq AllEntities
    BY <1>t, Zenon DEF AllEntities
  <1> HIDE DEF t
  <1>3. ASSUME NEW e \in config, OwnKey(e) PROVE Newest(inbox \o t, store, e, w[e])
    <2>1. CASE e \in A
      <3>1. /\ \E i \in DOMAIN t : Reports(t[i], e)
            /\ \A i \in DOMAIN t : Reports(t[i], e) => t[i].value = w[e]
        BY <1>1, <1>2, <1>3, <2>1, Zenon
      <3> QED
        BY <1>t, <1>1, <3>1, JoinReports
    <2>2. CASE e \notin A
      <3>1. (\A i \in DOMAIN t : ~Reports(t[i], e)) /\ Newest(inbox, store, e, w[e])
        BY <1>1, <1>2, <1>3, <2>2, Zenon
      <3> QED
        BY <1>t, <1>1, <3>1, JoinOthers
    <2> QED
      BY <2>1, <2>2, Zenon
  <1>4. inbox \o t \in Seq(Incoming)
    BY <1>t, <1>1
  <1> QED
    BY <1>3, <1>4 DEF t

-----------------------------------------------------------------------------
(* The steps. *)

(* The store is empty, and so are the queues. *)
LEMMA InitInd == ClientInit => ClientInv
  <1> SUFFICES ASSUME ClientInit PROVE ClientInv
    OBVIOUS
  <1>0. /\ <<>> \in Seq(Incoming) /\ <<>> \in Seq(Requests)
        /\ [e \in AllEntities |-> 0] \in [AllEntities -> Int]
    OBVIOUS
  <1>1. ClientTypes
    BY <1>0, Zenon DEF ClientInit, ClientTypes
  <1>2. StoreOfEntities
    BY DEF ClientInit, StoreOfEntities, EmptyStore
  <1>3. Current
    BY Zenon DEF ClientInit, Current
  <1> QED
    BY <1>1, <1>2, <1>3, Zenon DEF ClientInv

(* A step that leaves store and device alone keeps what is said of them. *)
LEMMA ClientQuiet ==
  ASSUME ClientInv, store' = store, inbox' = inbox,
         config' = config, value' = value, subscribed' = subscribed, outbox' \in Seq(Requests)
  PROVE  ClientInv'
  <1>i. ClientTypes /\ StoreOfEntities /\ Current
    BY Zenon DEF ClientInv
  <1>1. ClientTypes'
    BY <1>i, Zenon DEF ClientTypes
  <1>2. StoreOfEntities'
    BY <1>i, Zenon DEF StoreOfEntities
  <1>3. Current'
    BY <1>i, Zenon DEF Current
  <1> QED
    BY <1>1, <1>2, <1>3, Zenon DEF ClientInv

(* A request is sent. *)
LEMMA SendsInd ==
  ASSUME ClientInv, NEW msg \in Requests, Sends(msg)
  PROVE  ClientInv'
  <1>1. outbox \in Seq(Requests)
    BY Zenon DEF ClientInv, ClientTypes
  <1>2. outbox' = Append(outbox, msg)
    BY Zenon DEF Sends
  <1>3. outbox' \in Seq(Requests)
    BY <1>1, <1>2
  <1> QED
    BY <1>3, ClientQuiet, Zenon DEF Sends, device_vars

(* toggle() sends a command for the key that the name leads to. *)
LEMMA ToggleInd ==
  ASSUME ClientInv, NEW e \in AllEntities, toggle(e)
  PROVE  ClientInv'
  <1>1. PICK key \in UNION by_object_id(store, e.type, OidOf(e)) :
            Sends([kind |-> "Command", type |-> e.type, key |-> key,
                   value |-> 1 - typed_state(store, e.type, key).value])
    BY Zenon DEF toggle
  <1>2. key \in DOMAIN store
    BY Zenon DEF by_object_id, one, find_by_object_id
  <1>3. PICK f \in AllEntities : f.key = key /\ store[key] \in EntriesOf(f)
    BY <1>2, Zenon DEF ClientInv, StoreOfEntities
  <1>4. typed_state(store, e.type, key).value \in Int
    <2>1. store[key].state \in StatesAt(f.key)
      BY <1>3 DEF EntriesOf
    <2>2. \A g \in AllEntities : \A m \in StateMessages(g) : m.value \in Int
      BY MessageFacts DEF StateMessages
    <2>3. NoMessage.value \in Int
      BY MessageFacts
    <2> QED
      BY <2>1, <2>2, <2>3, Zenon DEF typed_state, StatesAt
  <1> DEFINE on == typed_state(store, e.type, key).value
             msg == [kind |-> "Command", type |-> e.type, key |-> key, value |-> 1 - on]
  <1>5. 1 - on \in Int
    BY <1>4
  <1>6. e.type \in EntityDomains
    BY OneEntity, Zenon
  <1>7. msg \in Requests
    BY <1>3, <1>5, <1>6, Zenon DEF Requests
  <1> QED
    BY <1>1, <1>7, SendsInd, Zenon

(* The store is emptied. *)
LEMMA ClearInd ==
  ASSUME ClientInv, clear_store
  PROVE  ClientInv'
  <1>i. ClientTypes /\ StoreOfEntities /\ Current
    BY Zenon DEF ClientInv
  <1>1. /\ store' = <<>> /\ inbox' = inbox /\ outbox' = outbox
        /\ config' = config /\ value' = value /\ subscribed' = subscribed
    BY Zenon DEF clear_store, clear, EmptyStore, device_vars
  <1>2. DOMAIN store' = {}
    BY <1>1
  <1>3. ClientTypes'
    BY <1>i, <1>1, Zenon DEF ClientTypes
  <1>4. StoreOfEntities'
    BY <1>1, <1>2, Zenon DEF StoreOfEntities
  <1>5. Current'
    <2>1. ASSUME NEW e, NEW v, Newest(inbox, store, e, v) PROVE Newest(inbox, store', e, v)
      BY <1>2, <2>1, Zenon DEF Newest
    <2> QED
      BY <1>i, <1>1, <2>1, Zenon DEF Current
  <1> QED
    BY <1>3, <1>4, <1>5, Zenon DEF ClientInv

(* The connection is lost: nobody is subscribed, and the store stays. *)
LEMMA DropInd ==
  ASSUME ClientInv, Drop
  PROVE  ClientInv'
  <1>i. ClientTypes /\ StoreOfEntities
    BY Zenon DEF ClientInv
  <1>1. /\ store' = store /\ inbox' = <<>> /\ outbox' = <<>>
        /\ config' \in Configs /\ subscribed' = FALSE
        /\ value' \in {value, [e \in AllEntities |-> 0]}
    BY Zenon DEF Drop
  <1>2. value' \in [AllEntities -> Int]
    BY <1>i, <1>1 DEF ClientTypes
  <1>3. <<>> \in Seq(Incoming) /\ <<>> \in Seq(Requests)
    OBVIOUS
  <1>4. ClientTypes' /\ Current'
    BY <1>1, <1>2, <1>3, Zenon DEF ClientTypes, Current
  <1>5. StoreOfEntities'
    BY <1>i, <1>1, Zenon DEF StoreOfEntities
  <1> QED
    BY <1>4, <1>5, Zenon DEF ClientInv

(* The next message goes into the store. *)
LEMMA FeedInd ==
  ASSUME ClientInv, feed
  PROVE  ClientInv'
  <1> DEFINE m == Head(inbox)
  <1>i. ClientTypes /\ StoreOfEntities /\ Current
    BY Zenon DEF ClientInv
  <1>1. /\ inbox # <<>> /\ store' = ingest(store, m) /\ inbox' = Tail(inbox)
        /\ outbox' = outbox /\ config' = config /\ value' = value
        /\ subscribed' = subscribed
    BY Zenon DEF feed, device_vars
  <1>t. inbox \in Seq(Incoming) /\ config \in Configs
    BY <1>i, Zenon DEF ClientTypes
  <1>2. m \in Incoming /\ Tail(inbox) \in Seq(Incoming)
    BY <1>1, <1>t, Taken, Zenon
  <1>3. ClientTypes'
    BY <1>i, <1>1, <1>2, Zenon DEF ClientTypes
  <1>c. config \subseteq AllEntities
    BY <1>t, Zenon DEF AllEntities
  <1> HIDE DEF m
  <1>4. CASE m = ListDone
    <2>1. m.kind = "other"
      BY <1>4, MessageFacts, Zenon
    <2>2. store' = store
      BY <1>1, <2>1 DEF ingest
    <2>3. StoreOfEntities'
      BY <1>i, <2>2, Zenon DEF StoreOfEntities
    <2>4. ASSUME NEW e, NEW v, Newest(inbox, store, e, v) PROVE Newest(Tail(inbox), store, e, v)
      <3>1. ~Reports(m, e)
        BY <2>1 DEF Reports
      <3> QED
        BY <1>1, <1>t, <2>4, <3>1, TakeOther DEF m
    <2>5. Current'
      BY <1>i, <1>1, <2>2, <2>4, Zenon DEF Current, OwnKey
    <2> QED
      BY <1>3, <2>3, <2>5, Zenon DEF ClientInv
  <1>5. CASE \E e \in AllEntities : m = ListMessage(e)
    <2>1. PICK e \in AllEntities : m = ListMessage(e)
      BY <1>5, Zenon
    <2>2. m.kind = "list"
      BY <2>1, MessageFacts
    <2>3. store' = ingest_list(store, m)
      BY <1>1, <2>2 DEF ingest
    <2>4. /\ DOMAIN store' = DOMAIN store \cup {e.key}
          /\ \E f \in AllEntities : f.key = e.key /\ store'[e.key] \in EntriesOf(f)
          /\ e.key \in DOMAIN store => store'[e.key].state = store[e.key].state
          /\ e.key \notin DOMAIN store => store'[e.key].state = NoMessage
          /\ \A k \in DOMAIN store : k # e.key => store'[k] = store[k]
      BY <1>i, <2>1, <2>3, IngestList, Zenon
    <2>5. StoreOfEntities'
      <3>1. \A k \in DOMAIN store' :
                \E f \in AllEntities : f.key = k /\ store'[k] \in EntriesOf(f)
        BY <1>i, <2>4, StoreKeeps, Zenon
      <3> QED
        BY <3>1, Zenon DEF StoreOfEntities
    <2>6. ASSUME NEW f, NEW v, Newest(inbox, store, f, v)
          PROVE  Newest(Tail(inbox), store', f, v)
      <3>1. ~Reports(m, f)
        BY <2>2 DEF Reports
      <3>2. f.key \in DOMAIN store' /\ store'[f.key].state # NoMessage =>
                f.key \in DOMAIN store /\ store[f.key].state = store'[f.key].state
        BY <2>4, Zenon
      <3> QED
        BY <1>1, <1>t, <2>6, <3>1, <3>2, TakeOther DEF m
    <2>7. Current'
      BY <1>i, <1>1, <2>6, Zenon DEF Current, OwnKey
    <2> QED
      BY <1>3, <2>5, <2>7, Zenon DEF ClientInv
  <1>6. CASE \E e \in AllEntities : m \in StateMessages(e)
    <2>1. PICK e \in AllEntities : m \in StateMessages(e)
      BY <1>6, Zenon
    <2>2. PICK w \in Int : m = StateMessage(e, w)
      BY <2>1, Zenon DEF StateMessages
    <2>3. m.kind = "state" /\ m.key = e.key
      BY <2>2, MessageFacts
    <2>4. store' = ingest_state(store, m)
      BY <1>1, <2>3 DEF ingest
    <2>5. /\ DOMAIN store' = DOMAIN store \cup {e.key}
          /\ \E f \in AllEntities : f.key = e.key /\ store'[e.key] \in EntriesOf(f)
          /\ store'[e.key].state = m
          /\ \A k \in DOMAIN store : k # e.key => store'[k] = store[k]
      BY <1>i, <2>2, <2>4, IngestState, Zenon
    <2>6. StoreOfEntities'
      <3>1. \A k \in DOMAIN store' :
                \E f \in AllEntities : f.key = k /\ store'[k] \in EntriesOf(f)
        BY <1>i, <2>5, StoreKeeps, Zenon
      <3> QED
        BY <3>1, Zenon DEF StoreOfEntities
    <2>7. ASSUME NEW f \in config, NEW v, Newest(inbox, store, f, v)
          PROVE  Newest(Tail(inbox), store', f, v)
      <3>1. CASE f.key = e.key
        <4>1. Reports(m, f)
          BY <2>3, <3>1, Zenon DEF Reports
        <4>2. f.key \in DOMAIN store' /\ store'[f.key].state = m
          BY <2>5, <3>1, Zenon
        <4> QED
          BY <1>1, <1>t, <2>7, <4>1, <4>2, TakeReport DEF m
      <3>2. CASE f.key # e.key
        <4>1. ~Reports(m, f)
          BY <2>3, <3>2, Zenon DEF Reports
        <4>2. f.key \in DOMAIN store' /\ store'[f.key].state # NoMessage =>
                  f.key \in DOMAIN store /\ store[f.key].state = store'[f.key].state
          BY <2>5, <3>2, Zenon
        <4> QED
          BY <1>1, <1>t, <2>7, <4>1, <4>2, TakeOther DEF m
      <3> QED
        BY <3>1, <3>2, Zenon
    <2>8. Current'
      BY <1>i, <1>1, <2>7, Zenon DEF Current, OwnKey
    <2> QED
      BY <1>3, <2>6, <2>8, Zenon DEF ClientInv
  <1> QED
    BY <1>2, <1>4, <1>5, <1>6, Zenon DEF Incoming

(* The device sends: the newest states are told and the client is as it was. *)
LEMMA DeviceInd ==
  ASSUME ClientInv, store' = store, config' = config,
         outbox' \in Seq(Requests), inbox' \in Seq(Incoming), subscribed' \in BOOLEAN,
         value' \in [AllEntities -> Int],
         subscribed' => \A e \in config : OwnKey(e) => Newest(inbox', store, e, value'[e])
  PROVE  ClientInv'
  <1>i. ClientTypes /\ StoreOfEntities
    BY Zenon DEF ClientInv
  <1>1. ClientTypes'
    BY <1>i, Zenon DEF ClientTypes
  <1>2. StoreOfEntities'
    BY <1>i, Zenon DEF StoreOfEntities
  <1>3. Current'
    BY Zenon DEF Current
  <1> QED
    BY <1>1, <1>2, <1>3, Zenon DEF ClientInv

(* Three queues, joined in either order. *)
LEMMA JoinedThree ==
  ASSUME NEW S, NEW r \in Seq(S), NEW s \in Seq(S), NEW t \in Seq(S)
  PROVE  (r \o s) \o t = r \o (s \o t)
  OBVIOUS

(* The descriptions and the end of the list are no states. *)
LEMMA ListsOf ==
  ASSUME config \in Configs
  PROVE  LET t == SetToSeq({ListMessage(e) : e \in config}) \o <<ListDone>>
         IN  /\ t \in Seq(Incoming) /\ \A i \in DOMAIN t : t[i].kind # "state"
             /\ inbox \in Seq(Incoming) =>
                  inbox \o SetToSeq({ListMessage(e) : e \in config}) \o <<ListDone>>
                      = inbox \o t
  <1> DEFINE R == {ListMessage(e) : e \in config}
             g == [e \in config |-> ListMessage(e)]
             Rest == {x \in Incoming : x.kind # "state"}
  <1>1. IsFiniteSet(config) /\ config \subseteq AllEntities
    BY ClientAssumption, Zenon DEF AllEntities
  <1>2. g \in Surjection(config, R)
    BY Zenon DEF Surjection
  <1>3. IsFiniteSet(R)
    BY <1>1, <1>2, FS_Surjection, Zenon
  <1>4. SetToSeq(R) \in Seq(R)
    BY <1>3, InOrder, Zenon
  <1>5. R \subseteq Rest
    <2>1. \A e \in config : ListMessage(e) \in Incoming
      BY <1>1, Zenon DEF Incoming
    <2>2. \A e \in config : ListMessage(e).kind = "list"
      BY MessageFacts
    <2> QED
      BY <2>1, <2>2
  <1>6. ListDone \in Rest
    <2>1. ListDone \in Incoming
      BY Zenon DEF Incoming
    <2>2. ListDone.kind = "other"
      BY MessageFacts
    <2> QED
      BY <2>1, <2>2
  <1>7. SetToSeq(R) \in Seq(Rest)
    <2> HIDE DEF R, Rest
    <2> QED
      BY <1>4, <1>5
  <1> DEFINE t == SetToSeq(R) \o <<ListDone>>
  <1>8. t \in Seq(Rest)
    <2> HIDE DEF R, Rest
    <2> QED
      BY <1>6, <1>7
  <1>j. inbox \in Seq(Incoming) => (inbox \o SetToSeq(R)) \o <<ListDone>> = inbox \o t
    <2>1. SetToSeq(R) \in Seq(Incoming) /\ ListDone \in Incoming
      <3>1. Rest \subseteq Incoming
        OBVIOUS
      <3> HIDE DEF R, Rest
      <3> QED
        BY <1>6, <1>7, <3>1
    <2> HIDE DEF R
    <2>2. <<ListDone>> \in Seq(Incoming)
      BY <2>1
    <2> QED
      BY <2>1, <2>2, JoinedThree
  <1> HIDE DEF t
  <1>9. t \in Seq(Incoming) /\ \A i \in DOMAIN t : t[i] \in Rest
    <2>1. Rest \subseteq Incoming
      OBVIOUS
    <2> HIDE DEF Rest
    <2> QED
      BY <1>8, <2>1
  <1> QED
    BY <1>9, <1>j, Zenon DEF t

(* The device answers a request. *)
LEMMA AnswersInd ==
  ASSUME ClientInv, DeviceAnswers
  PROVE  ClientInv'
  <1> DEFINE m == Head(outbox)
             addressed == {e \in config : m.kind = "Command" /\ e.type = m.type /\ e.key = m.key}
             changed == [e \in AllEntities |-> IF e \in addressed THEN m.value ELSE value[e]]
  <1>i. ClientTypes /\ Current
    BY Zenon DEF ClientInv
  <1>t. /\ inbox \in Seq(Incoming) /\ outbox \in Seq(Requests) /\ config \in Configs
        /\ value \in [AllEntities -> Int] /\ subscribed \in BOOLEAN
    BY <1>i, Zenon DEF ClientTypes
  <1>1. /\ outbox # <<>> /\ outbox' = Tail(outbox) /\ store' = store
        /\ config' = config
    BY Zenon DEF DeviceAnswers
  <1>2. m \in Requests /\ outbox' \in Seq(Requests)
    BY <1>1, <1>t, Taken, Zenon
  <1>3. /\ m.kind \in {"ListEntitiesRequest", "SubscribeStatesRequest", "Command"}
        /\ m.kind = "Command" => m.value \in Int
    BY <1>2 DEF Requests
  <1>s. /\ m.kind = "ListEntitiesRequest" =>
             /\ inbox' = inbox \o SetToSeq({ListMessage(e) : e \in config}) \o <<ListDone>>
             /\ value' = value /\ subscribed' = subscribed
        /\ m.kind = "SubscribeStatesRequest" =>
             /\ inbox' = inbox \o States(value) /\ subscribed' = TRUE /\ value' = value
        /\ m.kind = "Command" =>
             /\ value' = changed /\ subscribed' = subscribed
             /\ inbox' = IF subscribed
                         THEN inbox \o SetToSeq({StateMessage(e, changed[e]) : e \in addressed})
                         ELSE inbox
    BY DEF DeviceAnswers
  <1>4. CASE m.kind = "ListEntitiesRequest"
    <2> DEFINE t == SetToSeq({ListMessage(e) : e \in config}) \o <<ListDone>>
    <2>1. t \in Seq(Incoming) /\ \A i \in DOMAIN t : t[i].kind # "state"
      BY <1>t, ListsOf, Zenon
    <2>2. inbox' = inbox \o t
      BY <1>4, <1>s, <1>t, ListsOf, Zenon
    <2> HIDE DEF t
    <2>3. inbox' \in Seq(Incoming)
      BY <1>t, <2>1, <2>2
    <2>4. ASSUME NEW e, NEW v, Newest(inbox, store, e, v) PROVE Newest(inbox', store, e, v)
      <3>1. \A i \in DOMAIN t : ~Reports(t[i], e)
        BY <2>1, Zenon DEF Reports
      <3> QED
        BY <1>t, <2>1, <2>2, <2>4, <3>1, JoinOthers
    <2>5. value' = value /\ subscribed' = subscribed
      BY <1>4, <1>s, Zenon
    <2>6. subscribed' => \A e \in config : OwnKey(e) => Newest(inbox', store, e, value'[e])
      BY <1>i, <2>4, <2>5, Zenon DEF Current
    <2> QED
      BY <1>1, <1>2, <1>t, <2>3, <2>5, <2>6, DeviceInd, Zenon
  <1>5. CASE m.kind = "SubscribeStatesRequest"
    <2>1. inbox' = inbox \o States(value) /\ subscribed' = TRUE /\ value' = value
      BY <1>5, <1>s, Zenon
    <2> DEFINE t == SetToSeq({StateMessage(e, value[e]) : e \in config})
    <2>2. /\ inbox \o t \in Seq(Incoming)
          /\ \A e \in config : OwnKey(e) => Newest(inbox \o t, store, e, value[e])
      BY <1>i, <1>t, ReportsKeepCurrent
    <2>3. inbox' = inbox \o t
      BY <2>1 DEF States
    <2> HIDE DEF t
    <2>4. /\ inbox' \in Seq(Incoming)
          /\ \A e \in config : OwnKey(e) => Newest(inbox', store, e, value[e])
      BY <2>2, <2>3
    <2> QED
      BY <1>1, <1>2, <1>t, <2>1, <2>4, DeviceInd, Zenon
  <1>6. CASE m.kind = "Command"
    <2>1. /\ value' = changed /\ subscribed' = subscribed
          /\ inbox' = IF subscribed
                      THEN inbox \o SetToSeq({StateMessage(e, changed[e]) : e \in addressed})
                      ELSE inbox
      BY <1>6, <1>s, Zenon
    <2>2. changed \in [AllEntities -> Int]
      BY <1>3, <1>6, <1>t
    <2>3. addressed \in SUBSET config /\ config \subseteq AllEntities
      BY <1>t, Zenon DEF AllEntities
    <2>4. \A e \in config : e \in addressed \/ changed[e] = value[e]
      BY <2>3, Zenon
    <2> HIDE DEF changed, addressed, m
    <2>5. CASE subscribed
      <3> DEFINE t == SetToSeq({StateMessage(e, changed[e]) : e \in addressed})
      <3>0. \A e \in config : OwnKey(e) =>
               e \in addressed \/ (changed[e] = value[e] /\ Newest(inbox, store, e, value[e]))
        BY <1>i, <2>4, <2>5, Zenon DEF Current
      <3>1. /\ inbox \o t \in Seq(Incoming)
            /\ \A e \in config : OwnKey(e) => Newest(inbox \o t, store, e, changed[e])
        BY <1>i, <2>2, <2>3, <3>0, ReportsKeepCurrent
      <3>2. inbox' = inbox \o t
        BY <2>1, <2>5, Zenon
      <3> HIDE DEF t
      <3>3. /\ inbox' \in Seq(Incoming)
            /\ \A e \in config : OwnKey(e) => Newest(inbox', store, e, changed[e])
        BY <3>1, <3>2
      <3> QED
        BY <1>1, <1>2, <1>t, <2>1, <2>2, <3>3, DeviceInd, Zenon
    <2>6. CASE ~subscribed
      <3>1. inbox' = inbox
        BY <2>1, <2>6, Zenon
      <3> QED
        BY <1>1, <1>2, <1>t, <2>1, <2>2, <2>6, <3>1, DeviceInd, Zenon
    <2> QED
      BY <2>5, <2>6, Zenon
  <1> QED
    BY <1>3, <1>4, <1>5, <1>6, Zenon

(* An entity changes by itself. *)
LEMMA ChangesInd ==
  ASSUME ClientInv, NEW e \in AllEntities, DeviceChanges(e)
  PROVE  ClientInv'
  <1> DEFINE w == 1 - value[e]
             t == <<StateMessage(e, w)>>
  <1>i. ClientTypes /\ Current
    BY Zenon DEF ClientInv
  <1>t. /\ inbox \in Seq(Incoming) /\ outbox \in Seq(Requests) /\ config \in Configs
        /\ value \in [AllEntities -> Int] /\ subscribed \in BOOLEAN
    BY <1>i, Zenon DEF ClientTypes
  <1>c. config \subseteq AllEntities
    BY <1>t, Zenon DEF AllEntities
  <1>1. /\ e \in config /\ value' = [value EXCEPT ![e] = w]
        /\ inbox' = (IF subscribed THEN Append(inbox, StateMessage(e, w)) ELSE inbox)
        /\ store' = store /\ outbox' = outbox /\ config' = config
        /\ subscribed' = subscribed
    BY Zenon DEF DeviceChanges
  <1>2. w \in Int /\ value' \in [AllEntities -> Int] /\ value'[e] = w
    BY <1>t, <1>1
  <1>3. \A f \in config : f # e => value'[f] = value[f]
    BY <1>c, <1>t, <1>1, Zenon
  <1>4. CASE ~subscribed
    BY <1>t, <1>1, <1>2, <1>4, DeviceInd, Zenon
  <1>5. CASE subscribed
    <2> HIDE DEF w
    <2>1. StateMessage(e, w) \in Incoming
      <3>1. StateMessage(e, w) \in StateMessages(e)
        BY <1>2, Zenon DEF StateMessages
      <3> QED
        BY <3>1, Zenon DEF Incoming
    <2>m. /\ StateMessage(e, w).kind = "state" /\ StateMessage(e, w).key = e.key
          /\ StateMessage(e, w).value = w
      BY MessageFacts
    <2>2. t \in Seq(Incoming) /\ DOMAIN t = {1} /\ t[1] = StateMessage(e, w)
      BY <2>1
    <2>3. inbox' = inbox \o t
      BY <1>1, <1>5, <1>t, <2>1
    <2> HIDE DEF t
    <2>4. inbox' \in Seq(Incoming)
      BY <1>t, <2>2, <2>3
    <2>5. ASSUME NEW f \in config, OwnKey(f) PROVE Newest(inbox', store, f, value'[f])
      <3>1. CASE f = e
        <4>1. /\ \E i \in DOMAIN t : Reports(t[i], e)
              /\ \A i \in DOMAIN t : Reports(t[i], e) => t[i].value = w
          BY <2>2, <2>m, Zenon DEF Reports
        <4>2. Newest(inbox \o t, store, e, w)
          BY <1>t, <2>2, <4>1, JoinReports
        <4> QED
          BY <1>2, <2>3, <3>1, <4>2
      <3>2. CASE f # e
        <4>1. f.key # e.key
          BY <1>c, <2>5, <3>2, OneEntity, Zenon
        <4>2. \A i \in DOMAIN t : ~Reports(t[i], f)
          BY <2>2, <2>m, <4>1, Zenon DEF Reports
        <4>3. Newest(inbox, store, f, value[f])
          BY <1>i, <1>5, <2>5, Zenon DEF Current
        <4>4. Newest(inbox \o t, store, f, value[f])
          BY <1>t, <2>2, <4>2, <4>3, JoinOthers
        <4> QED
          BY <1>3, <2>3, <3>2, <4>4
      <3> QED
        BY <3>1, <3>2, Zenon
    <2> QED
      BY <1>t, <1>1, <1>2, <2>4, <2>5, DeviceInd, Zenon
  <1> QED
    BY <1>4, <1>5, Zenon

-----------------------------------------------------------------------------
(* The theorems. *)

(* One step of the client, the device or the network. *)
LEMMA ClientStep == ClientInv /\ [ClientNext]_client_vars => ClientInv'
  <1> SUFFICES ASSUME ClientInv, [ClientNext]_client_vars PROVE ClientInv'
    OBVIOUS
  <1>o. outbox \in Seq(Requests)
    BY Zenon DEF ClientInv, ClientTypes
  <1>1. CASE async_connect
    BY <1>1, <1>o, ClientQuiet, Zenon DEF async_connect, device_vars
  <1>2. CASE request_entity_list
    <2>1. [kind |-> "ListEntitiesRequest"] \in Requests
      BY Zenon DEF Requests
    <2> QED
      BY <1>2, <2>1, SendsInd, Zenon DEF request_entity_list
  <1>3. CASE subscribe_to_states
    <2>1. [kind |-> "SubscribeStatesRequest"] \in Requests
      BY Zenon DEF Requests
    <2> QED
      BY <1>3, <2>1, SendsInd, Zenon DEF subscribe_to_states
  <1>4. CASE clear_store
    BY <1>4, ClearInd, Zenon
  <1>5. CASE feed
    BY <1>5, FeedInd, Zenon
  <1>6. CASE DeviceAnswers
    BY <1>6, AnswersInd, Zenon
  <1>7. CASE Drop
    BY <1>7, DropInd, Zenon
  <1>8. ASSUME NEW e \in AllEntities, toggle(e) PROVE ClientInv'
    BY <1>8, ToggleInd, Zenon
  <1>9. ASSUME NEW e \in AllEntities, DeviceChanges(e) PROVE ClientInv'
    BY <1>9, ChangesInd, Zenon
  <1>10. CASE UNCHANGED client_vars
    BY <1>10, <1>o, ClientQuiet, Zenon DEF client_vars
  <1> QED
    BY <1>1, <1>2, <1>3, <1>4, <1>5, <1>6, <1>7, <1>8, <1>9, <1>10, Zenon DEF ClientNext

(* Whatever the device sends and however often the connection is lost, the store *)
(* holds under a key only messages of its entity, and the newest state that the  *)
(* client has or will be told while it is subscribed is the device's.            *)
THEOREM ClientInvariance == ClientSpec => []ClientInv
  <1>1. ClientInit => ClientInv
    BY InitInd
  <1>2. ClientInv /\ [ClientNext]_client_vars => ClientInv'
    BY ClientStep
  <1> QED
    BY <1>1, <1>2, PTL DEF ClientSpec

(* The description under a key is of an entity that has the key. *)
LEMMA EntryOf ==
  ASSUME StoreOfEntities, NEW k \in DOMAIN store
  PROVE  \E e \in AllEntities :
            /\ e.key = k /\ store[k].type = e.type
            /\ store[k].info \in {NoMessage, ListMessage(e)}
            /\ store[k].object_id \in {<<>>, OidOf(e)}
            /\ store[k].info = NoMessage <=> store[k].object_id = <<>>
  <1>1. PICK e \in AllEntities : e.key = k /\ store[k] \in EntriesOf(e)
    BY Zenon DEF StoreOfEntities
  <1>2. /\ store[k] \in [type : {e.type}, object_id : {<<>>, OidOf(e)},
                         info : {NoMessage, ListMessage(e)}, state : StatesAt(e.key)]
        /\ store[k].info = NoMessage <=> store[k].object_id = <<>>
    BY <1>1, Zenon DEF EntriesOf
  <1>3. /\ store[k].type = e.type /\ store[k].object_id \in {<<>>, OidOf(e)}
        /\ store[k].info \in {NoMessage, ListMessage(e)}
    BY <1>2
  <1> QED
    BY <1>1, <1>2, <1>3, Zenon

(* While subscribed, a stored state of an entity that shares its key with none, *)
(* with no newer one on its way, is the device's, across commands, reconnects   *)
(* and restarts of the device (Client::Impl's on_any handler,                   *)
(* EntityStore::ingest).                                                        *)
THEOREM CacheIsCurrentHolds == ClientSpec => []CacheIsCurrent
  <1>1. ClientInv => CacheIsCurrent
    <2> SUFFICES ASSUME ClientInv, NEW e \in config, subscribed, OwnKey(e),
                        typed_state(store, e.type, e.key) # NoMessage,
                        \A i \in DOMAIN inbox :
                            ~(inbox[i].kind = "state" /\ inbox[i].key = e.key)
                 PROVE  typed_state(store, e.type, e.key).value = value[e]
      BY Zenon DEF CacheIsCurrent
    <2>1. Newest(inbox, store, e, value[e])
      BY Zenon DEF ClientInv, Current
    <2>2. e.key \in DOMAIN store /\ typed_state(store, e.type, e.key) = store[e.key].state
      BY Zenon DEF typed_state
    <2>3. \A i \in DOMAIN inbox : ~Reports(inbox[i], e)
      BY Zenon DEF Reports
    <2> QED
      BY <2>1, <2>2, <2>3, Zenon DEF Newest
  <1> QED
    BY <1>1, ClientInvariance, PTL

(* A lookup by object id gives an entity of the domain and name or none, the list *)
(* of the domain has every entity that is described, and the lookup gives it when *)
(* its object id is no other entry's, for devices whose entities share keys and   *)
(* names in any way that leaves a key to one entity of a domain                   *)
(* (EntityStore::ingest_list, find_by_object_id, EntityRegistry::one).            *)
THEOREM NamedEntityFoundHolds == ClientSpec => []NamedEntityFound
  <1>1. ClientInv => NamedEntityFound
    <2> SUFFICES ASSUME ClientInv, NEW e \in AllEntities
                 PROVE  LET id == OidOf(e)
                            described == typed_info(store, e.type, e.key) # NoMessage
                        IN  /\ \A key \in UNION by_object_id(store, e.type, id) :
                                  \E f \in AllEntities :
                                      f.key = key /\ f.type = e.type /\ OidOf(f) = id
                            /\ described => e.key \in EntityList_find(store, e.type, id)
                            /\ described /\ (\A k \in DOMAIN store :
                                                store[k].object_id = id => k = e.key)
                                  => by_object_id(store, e.type, id) = {{e.key}}
      BY Zenon DEF NamedEntityFound
    <2> DEFINE id == OidOf(e)
               described == typed_info(store, e.type, e.key) # NoMessage
               keys == {k \in DOMAIN store : store[k].object_id = id}
    <2>0. id # <<>>
      BY OneEntity, Zenon
    <2>1. ASSUME NEW key \in UNION by_object_id(store, e.type, id)
          PROVE  \E f \in AllEntities : f.key = key /\ f.type = e.type /\ OidOf(f) = id
      <3>1. key \in DOMAIN store /\ store[key].object_id = id /\ store[key].type = e.type
        BY <2>1 DEF by_object_id, one, find_by_object_id
      <3>2. PICK f \in AllEntities : /\ f.key = key /\ store[key].type = f.type
                                      /\ store[key].object_id \in {<<>>, OidOf(f)}
        BY <3>1, EntryOf, Zenon DEF ClientInv
      <3> QED
        BY <2>0, <3>1, <3>2, Zenon
    <2>2. ASSUME described
          PROVE  e.key \in DOMAIN store /\ store[e.key].type = e.type /\ e.key \in keys
      <3>1. /\ e.key \in DOMAIN store /\ store[e.key].type = e.type
            /\ store[e.key].info # NoMessage
        BY <2>2, Zenon DEF typed_info
      <3>2. PICK f \in AllEntities :
                /\ f.key = e.key /\ store[e.key].type = f.type
                /\ store[e.key].object_id \in {<<>>, OidOf(f)}
                /\ store[e.key].info = NoMessage <=> store[e.key].object_id = <<>>
        BY <3>1, EntryOf, Zenon DEF ClientInv
      <3>3. f = e
        BY <3>1, <3>2, OneEntity, Zenon
      <3> QED
        BY <3>1, <3>2, <3>3, Zenon
    <2>3. ASSUME described PROVE e.key \in EntityList_find(store, e.type, id)
      BY <2>2, <2>3, Zenon DEF EntityList_find, collect, entities
    <2>4. ASSUME described, \A k \in DOMAIN store : store[k].object_id = id => k = e.key
          PROVE  by_object_id(store, e.type, id) = {{e.key}}
      <3>1. keys = {e.key} /\ store[e.key].type = e.type
        BY <2>2, <2>4, Zenon
      <3>2. find_by_object_id(store, id) = {{e.key}}
        <4> HIDE DEF id
        <4>1. find_by_object_id(store, id) = IF keys = {} THEN {{}} ELSE {{k} : k \in keys}
          BY Zenon DEF find_by_object_id
        <4> HIDE DEF keys
        <4> QED
          BY <3>1, <4>1
      <3>3. one(store, e.type, {e.key}) = {e.key}
        BY <3>1 DEF one
      <3>4. by_object_id(store, e.type, id) =
                {one(store, e.type, found) : found \in {{e.key}}}
        BY <3>2, Zenon DEF by_object_id
      <3>5. {one(store, e.type, found) : found \in {{e.key}}} = {one(store, e.type, {e.key})}
        OBVIOUS
      <3> QED
        BY <3>3, <3>4, <3>5, Zenon
    <2> QED
      BY <2>1, <2>3, <2>4, Zenon
  <1> QED
    BY <1>1, ClientInvariance, PTL
=============================================================================
