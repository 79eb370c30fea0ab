----------------------------- MODULE GattProofs -----------------------------
(***************************************************************************)
(* Proofs about the GATT callbacks of BluetoothProxy.tla, for any devices,  *)
(* handles, number of calls and size of the inbox.                          *)
(*                                                                          *)
(* The counting properties do not speak of where a callback may be; the     *)
(* inductive invariant does: a callback is in the table of its operation    *)
(* under its own key, or in the list being run, or has run, and in one of   *)
(* these places only; and what waits in a table has an answer coming.       *)
(***************************************************************************)
EXTENDS BluetoothProxy, FiniteSetTheorems, TLAPS

HandlesAndZero == Handles \cup {0}

CallRecords == [op : Ops, address : Addresses, handle : HandlesAndZero, done : BOOLEAN]

MessageTypes == {"read", "write", "notify", "services", "done", "error"}

GattMessages == [type : MessageTypes, address : Addresses, handle : HandlesAndZero,
                 services : Seq(Nat), request : Nat]

Tables == {"read", "write", "services", "batch"}

OnceEntries == [id : Nat, services : Seq(Nat)]

(* Every variable of the proxy and of its device has its type. *)
GattTypeOK ==
    /\ calls \in Seq(CallRecords) /\ Len(calls) <= MaxCalls
    /\ gatt_registered \in BOOLEAN /\ in_user \in BOOLEAN
    /\ pending_reads \in [Keys -> Seq(Nat)]
    /\ pending_writes \in [Keys -> Seq(Nat)]
    /\ pending_services \in [Addresses -> [services : Seq(Nat), handlers : Seq(Nat)]]
    /\ dispatch \in [msg : GattMessages \cup {NoMessage}, left : Seq(Tables)]
    /\ once \in Seq(OnceEntries)
    /\ fired \in [1..MaxCalls -> Seq(GattMessages)]
    /\ requests \subseteq [id : CallIds, batch : Nat]
    /\ inbox \in Seq(GattMessages)

-----------------------------------------------------------------------------
(* A message that ends the wait of a call, and the table that it looks at. *)

Answers(m, c) ==
    /\ c.address = m.address
    /\ c.op # "services" => c.handle = m.handle
    /\ \/ m.type = "error"
       \/ m.type = c.op /\ c.op # "services"
       \/ m.type = "done" /\ c.op = "services"

(* A call with a callback that has not run. *)
Unfired(id) == id \in CallIds /\ calls[id].done /\ fired[id] = <<>>

KeyOf(c) == gatt_key(c.address, c.handle)

NoRepeat(s) == \A i, j \in DOMAIN s : s[i] = s[j] => i = j

(* What stands in a table is an unfired call of the table's operation, under *)
(* its own key, once.                                                        *)
ReadsPlaced ==
    \A k \in Keys :
        /\ NoRepeat(pending_reads[k])
        /\ \A i \in DOMAIN pending_reads[k] :
              LET id == pending_reads[k][i]
              IN  Unfired(id) /\ calls[id].op = "read" /\ KeyOf(calls[id]) = k

WritesPlaced ==
    \A k \in Keys :
        /\ NoRepeat(pending_writes[k])
        /\ \A i \in DOMAIN pending_writes[k] :
              LET id == pending_writes[k][i]
              IN  Unfired(id) /\ calls[id].op = "write" /\ KeyOf(calls[id]) = k

ServicesPlaced ==
    \A a \in Addresses :
        /\ NoRepeat(pending_services[a].handlers)
        /\ \A i \in DOMAIN pending_services[a].handlers :
              LET id == pending_services[a].handlers[i]
              IN  Unfired(id) /\ calls[id].op = "services" /\ calls[id].address = a

(* The call stands in the table of its operation. *)
InTable(id) ==
    LET c == calls[id]
    IN  \/ c.op = "read" /\ \E i \in DOMAIN pending_reads[KeyOf(c)] :
                               pending_reads[KeyOf(c)][i] = id
        \/ c.op = "write" /\ \E i \in DOMAIN pending_writes[KeyOf(c)] :
                                pending_writes[KeyOf(c)][i] = id
        \/ c.op = "services" /\ \E i \in DOMAIN pending_services[c.address].handlers :
                                   pending_services[c.address].handlers[i] = id

InOnce(id) == \E i \in DOMAIN once : once[i].id = id

(* The list being run: unfired calls that the message answers, each once and *)
(* no longer in a table.                                                     *)
OncePlaced ==
    /\ \A i, j \in DOMAIN once : once[i].id = once[j].id => i = j
    /\ \A i \in DOMAIN once : once[i].id \in CallIds
    /\ \A id \in CallIds :
          InOnce(id) => Unfired(id) /\ ~InTable(id) /\ Answers(dispatch.msg, calls[id])

(* What is left to look at belongs to the message being handled. *)
DispatchPlaced ==
    /\ dispatch.msg = NoMessage => dispatch.left = <<>> /\ once = <<>>
    /\ \A i \in DOMAIN dispatch.left :
          LET type == dispatch.msg.type
          IN  \/ dispatch.left[i] = "read" /\ type \in {"read", "error"}
              \/ dispatch.left[i] = "write" /\ type \in {"write", "error"}
              \/ dispatch.left[i] = "services" /\ type \in {"done", "error"}
              \/ dispatch.left[i] = "batch" /\ type = "services"

(* A callback has run at most once, with an answer to its call. *)
FiredPlaced ==
    \A id \in 1..MaxCalls :
        /\ Len(fired[id]) <= 1
        /\ fired[id] # <<>> => /\ id \in CallIds /\ calls[id].done
                               /\ Answers(fired[id][1], calls[id])

(* No callback is lost. *)
NoneLost ==
    \A id \in CallIds : calls[id].done => InTable(id) \/ InOnce(id) \/ fired[id] # <<>>

(* What waits in a table has an answer coming that will look at the table:   *)
(* the request is with the device, or an answer is on its way or being       *)
(* handled and has not reached the table.                                    *)
AnswerComing ==
    \A id \in CallIds : InTable(id) =>
        \/ \E req \in requests : req.id = id
        \/ \E i \in DOMAIN inbox : Answers(inbox[i], calls[id])
        \/ /\ dispatch.msg # NoMessage /\ Answers(dispatch.msg, calls[id])
           /\ \E i \in DOMAIN dispatch.left : dispatch.left[i] = calls[id].op

(* A done callback registers the handlers of the responses. *)
DoneRegisters == \A id \in CallIds : calls[id].done => gatt_registered

GattInv ==
    /\ GattTypeOK
    /\ ReadsPlaced /\ WritesPlaced /\ ServicesPlaced
    /\ OncePlaced /\ DispatchPlaced /\ FiredPlaced
    /\ NoneLost /\ AnswerComing /\ DoneRegisters

-----------------------------------------------------------------------------
(* Keys tell devices and handles apart: an address has 48 bits and a handle   *)
(* 16, so that the two parts of gatt_key do not overlap.                      *)
LEMMA KeyFacts ==
  ASSUME NEW a \in Addresses, NEW b \in Addresses,
         NEW h \in HandlesAndZero, NEW g \in HandlesAndZero
  PROVE  /\ gatt_key(a, h) \in Keys
         /\ gatt_key(a, h) = gatt_key(b, g) => a = b /\ h = g
  <1>0. /\ h \in Nat /\ h < 65536
        /\ g \in Nat /\ g < 65536
        /\ a \in Nat /\ a < AddressSpan
        /\ b \in Nat /\ b < AddressSpan
    BY GattAssumption DEF HandlesAndZero
  <1>1. \A n, m \in Nat : n < m => n % m = n
    OBVIOUS
  <1>2. /\ h % 65536 = h /\ g % 65536 = g
        /\ a % AddressSpan = a /\ b % AddressSpan = b
    BY <1>0, <1>1, GattAssumption
  <1>3. gatt_key(a, h) = a * 65536 + h /\ gatt_key(b, g) = b * 65536 + g
    BY <1>2 DEF gatt_key
  <1>4. a * 65536 + h = b * 65536 + g => a = b /\ h = g
    BY <1>0
  <1>5. gatt_key(a, h) \in Keys
    BY DEF Keys, HandlesAndZero
  <1> QED
    BY <1>3, <1>4, <1>5

(* The number of positions of an element that does not repeat. *)
LEMMA CountOnce ==
  ASSUME NEW n \in Nat, NEW P,
         P \subseteq 1..n, \A i, j \in P : i = j
  PROVE  Cardinality(P) = IF P = {} THEN 0 ELSE 1
  <1>1. CASE P = {}
    BY <1>1, FS_EmptySet
  <1>2. CASE P # {}
    <2>1. PICK i \in P : TRUE
      BY <1>2, Zenon
    <2>2. P = {i}
      BY <2>1, Zenon
    <2> QED
      BY <1>2, <2>2, FS_Singleton, Zenon
  <1> QED
    BY <1>1, <1>2

(* Nothing waits, nothing has run. *)
LEMMA GattInitInd == GattInit => GattInv
  <1> SUFFICES ASSUME GattInit PROVE GattInv
    OBVIOUS
  <1>0. /\ calls = <<>> /\ Len(calls) = 0 /\ CallIds = {} /\ once = <<>> /\ inbox = <<>>
        /\ requests = {} /\ gatt_registered = FALSE /\ in_user = TRUE
        /\ dispatch = [msg |-> NoMessage, left |-> <<>>]
        /\ \A k \in Keys : pending_reads[k] = <<>> /\ pending_writes[k] = <<>>
        /\ \A a \in Addresses : pending_services[a] = NoServices
        /\ \A id \in 1..MaxCalls : fired[id] = <<>>
    BY DEF GattInit, CallIds
  <1>1. GattTypeOK
    <2>1. /\ pending_reads \in [Keys -> Seq(Nat)] /\ pending_writes \in [Keys -> Seq(Nat)]
          /\ fired \in [1..MaxCalls -> Seq(GattMessages)]
      BY DEF GattInit
    <2>2. pending_services \in [Addresses -> [services : Seq(Nat), handlers : Seq(Nat)]]
      BY DEF GattInit, NoServices
    <2>3. dispatch \in [msg : GattMessages \cup {NoMessage}, left : Seq(Tables)]
      BY DEF GattInit
    <2>4. /\ calls \in Seq(CallRecords) /\ once \in Seq(OnceEntries)
          /\ inbox \in Seq(GattMessages)
      BY <1>0
    <2>5. Len(calls) <= MaxCalls /\ requests \subseteq [id : CallIds, batch : Nat]
      BY <1>0, GattAssumption
    <2>6. gatt_registered \in BOOLEAN /\ in_user \in BOOLEAN
      BY <1>0, Zenon
    <2> QED
      BY <2>1, <2>2, <2>3, <2>4, <2>5, <2>6 DEF GattTypeOK
  <1>2. /\ ReadsPlaced /\ WritesPlaced /\ ServicesPlaced
    BY <1>0 DEF ReadsPlaced, WritesPlaced, ServicesPlaced, NoRepeat, NoServices
  <1>3. OncePlaced /\ DispatchPlaced /\ FiredPlaced
    BY <1>0, GattAssumption DEF OncePlaced, DispatchPlaced, FiredPlaced
  <1>4. NoneLost /\ AnswerComing /\ DoneRegisters
    BY <1>0 DEF NoneLost, AnswerComing, DoneRegisters
  <1> QED
    BY <1>1, <1>2, <1>3, <1>4 DEF GattInv

-----------------------------------------------------------------------------
(* The types that the other lemmas need, in the forms the provers use. *)
LEMMA GattTypes ==
  ASSUME GattTypeOK
  PROVE  /\ calls \in Seq(CallRecords) /\ Len(calls) \in Nat /\ DOMAIN calls = CallIds
         /\ \A id \in CallIds : /\ id \in Nat /\ id \in 1..MaxCalls
                                /\ calls[id] \in CallRecords
                                /\ KeyOf(calls[id]) \in Keys
  <1>1. /\ calls \in Seq(CallRecords) /\ Len(calls) \in Nat /\ DOMAIN calls = CallIds
        /\ Len(calls) <= MaxCalls
    BY DEF GattTypeOK, CallIds
  <1>2. ASSUME NEW id \in CallIds
        PROVE /\ id \in Nat /\ id \in 1..MaxCalls /\ calls[id] \in CallRecords
    BY <1>1, GattAssumption DEF CallIds
  <1>3. ASSUME NEW c \in CallRecords PROVE KeyOf(c) \in Keys
    <2>1. c.address \in Addresses /\ c.handle \in HandlesAndZero
      BY DEF CallRecords
    <2> QED
      BY <2>1, KeyFacts DEF KeyOf
  <1> QED
    BY <1>1, <1>2, <1>3

(* A call gets the next number; the calls before it stay, and nothing has run *)
(* or waits for it.                                                           *)
LEMMA CallFacts ==
  ASSUME GattInv,
         NEW op \in Ops, NEW address \in Addresses, NEW handle \in HandlesAndZero,
         NEW done \in BOOLEAN, Call(op, address, handle, done)
  PROVE  LET n == Len(calls) + 1
             c == [op |-> op, address |-> address, handle |-> handle, done |-> done]
         IN  /\ n \in Nat /\ n \in 1..MaxCalls /\ n \notin CallIds /\ fired[n] = <<>>
             /\ CallIds' = CallIds \cup {n} /\ c \in CallRecords
             /\ calls' \in Seq(CallRecords) /\ Len(calls') <= MaxCalls
             /\ calls'[n] = c
             /\ \A id \in CallIds : calls'[id] = calls[id] /\ id # n
             /\ requests' = requests \cup {[id |-> n, batch |-> 1]}
             /\ requests' \subseteq [id : CallIds', batch : Nat]
             /\ gatt_registered' \in BOOLEAN
             /\ gatt_registered' = (gatt_registered \/ done)
             /\ dispatch' = dispatch /\ once' = once /\ in_user' = in_user
             /\ fired' = fired /\ inbox' = inbox
  <1> DEFINE n == Len(calls) + 1
             c == [op |-> op, address |-> address, handle |-> handle, done |-> done]
  <1>1. GattTypeOK
    BY DEF GattInv
  <1>2. /\ Len(calls) < MaxCalls /\ calls' = Append(calls, c)
        /\ gatt_registered' = (gatt_registered \/ done)
        /\ requests' = requests \cup {[id |-> n, batch |-> 1]}
        /\ dispatch' = dispatch /\ once' = once /\ in_user' = in_user
        /\ fired' = fired /\ inbox' = inbox
    BY DEF Call
  <1>3. n \in Nat /\ n \in 1..MaxCalls /\ n \notin CallIds
    BY <1>1, <1>2, GattTypes, GattAssumption DEF CallIds
  <1>4. fired[n] = <<>>
    BY <1>3 DEF GattInv, FiredPlaced
  <1>5. c \in CallRecords
    BY DEF CallRecords
  <1>6. /\ calls' \in Seq(CallRecords) /\ Len(calls') = n /\ calls'[n] = c
        /\ \A id \in CallIds : calls'[id] = calls[id] /\ id # n
    BY <1>1, <1>2, <1>5, GattTypes DEF CallIds
  <1>7. CallIds' = CallIds \cup {n}
    BY <1>1, <1>6, GattTypes DEF CallIds
  <1>8. requests' \subseteq [id : CallIds', batch : Nat]
    BY <1>1, <1>2, <1>7 DEF GattTypeOK
  <1>9. gatt_registered' \in BOOLEAN
    BY <1>1, <1>2, Zenon DEF GattTypeOK
  <1>10. Len(calls') <= MaxCalls
    BY <1>1, <1>2, <1>6, GattTypes, GattAssumption
  <1> QED
    BY <1>2, <1>3, <1>4, <1>5, <1>6, <1>7, <1>8, <1>9, <1>10, Zenon

(* A call whose callback, if it has one, enters the table of its operation    *)
(* keeps what does not concern the tables.                                    *)
LEMMA CallKeeps ==
  ASSUME GattInv,
         NEW op \in Ops, NEW address \in Addresses, NEW handle \in HandlesAndZero,
         NEW done \in BOOLEAN, Call(op, address, handle, done),
         \A id \in CallIds : InTable(id)' <=> InTable(id),
         NEW n, n = Len(calls) + 1, done => InTable(n)'
  PROVE  /\ OncePlaced' /\ DispatchPlaced' /\ FiredPlaced'
         /\ NoneLost' /\ AnswerComing' /\ DoneRegisters'
  <1> DEFINE c == [op |-> op, address |-> address, handle |-> handle, done |-> done]
  <1>c. /\ n \in Nat /\ n \notin CallIds /\ fired[n] = <<>>
        /\ CallIds' = CallIds \cup {n}
        /\ calls'[n] = c
        /\ \A id \in CallIds : calls'[id] = calls[id] /\ id # n
        /\ requests' = requests \cup {[id |-> n, batch |-> 1]}
        /\ gatt_registered' = (gatt_registered \/ done)
        /\ dispatch' = dispatch /\ once' = once /\ fired' = fired /\ inbox' = inbox
    BY CallFacts
  <1>u. \A id \in CallIds : Unfired(id)' <=> Unfired(id)
    BY <1>c DEF Unfired
  <1>1. OncePlaced'
    BY <1>c, <1>u DEF GattInv, OncePlaced, InOnce
  <1>2. DispatchPlaced'
    BY <1>c DEF GattInv, DispatchPlaced
  <1>3. FiredPlaced'
    BY <1>c DEF GattInv, FiredPlaced
  <1>4. NoneLost'
    <2>1. ASSUME NEW id \in CallIds', calls'[id].done
          PROVE  InTable(id)' \/ InOnce(id)' \/ fired'[id] # <<>>
      <3>1. CASE id = n
        BY <3>1, <2>1, <1>c
      <3>2. CASE id \in CallIds
        BY <3>2, <2>1, <1>c DEF GattInv, NoneLost, InOnce
      <3> QED
        BY <2>1, <3>1, <3>2, <1>c
    <2> QED
      BY <2>1 DEF NoneLost
  <1>5. AnswerComing'
    <2>1. ASSUME NEW id \in CallIds', InTable(id)'
          PROVE  \/ \E req \in requests' : req.id = id
                 \/ \E i \in DOMAIN inbox' : Answers(inbox'[i], calls'[id])
                 \/ /\ dispatch'.msg # NoMessage /\ Answers(dispatch'.msg, calls'[id])
                    /\ \E i \in DOMAIN dispatch'.left : dispatch'.left[i] = calls'[id].op
      <3>1. CASE id = n
        <4>1. [id |-> n, batch |-> 1] \in requests' /\ [id |-> n, batch |-> 1].id = id
          BY <3>1, <1>c
        <4> QED
          BY <4>1
      <3>2. CASE id \in CallIds
        <4>1. InTable(id) /\ calls'[id] = calls[id]
          BY <3>2, <2>1, <1>c
        <4>2. \/ \E req \in requests : req.id = id
              \/ \E i \in DOMAIN inbox : Answers(inbox[i], calls[id])
              \/ /\ dispatch.msg # NoMessage /\ Answers(dispatch.msg, calls[id])
                 /\ \E i \in DOMAIN dispatch.left : dispatch.left[i] = calls[id].op
          BY <4>1, <3>2 DEF GattInv, AnswerComing
        <4> QED
          BY <4>1, <4>2, <1>c
      <3> QED
        BY <2>1, <3>1, <3>2, <1>c
    <2> QED
      BY <2>1 DEF AnswerComing
  <1>6. DoneRegisters'
    <2>1. \A id \in CallIds : calls[id].done => gatt_registered
      BY DEF GattInv, DoneRegisters
    <2>2. \A id \in CallIds' : id \in CallIds \/ calls'[id].done = done
      BY <1>c
    <2> QED
      BY <1>c, <2>1, <2>2, Zenon DEF DoneRegisters
  <1> QED
    BY <1>1, <1>2, <1>3, <1>4, <1>5, <1>6

(* The list t is s with the number n added at the end. *)
Extends(s, n, t) ==
    /\ t \in Seq(Nat) /\ NoRepeat(t)
    /\ \A i \in DOMAIN t : t[i] = n \/ \E j \in DOMAIN s : s[j] = t[i]
    /\ \E i \in DOMAIN t : t[i] = n
    /\ \A j \in DOMAIN s : \E i \in DOMAIN t : t[i] = s[j]

(* A new number does not repeat. *)
LEMMA Appended ==
  ASSUME NEW s \in Seq(Nat), NEW n \in Nat, NoRepeat(s), \A i \in DOMAIN s : s[i] # n
  PROVE  Extends(s, n, Append(s, n))
  <1> DEFINE t == Append(s, n)
  <1>1. /\ t \in Seq(Nat) /\ DOMAIN t = DOMAIN s \cup {Len(s) + 1}
        /\ Len(s) + 1 \notin DOMAIN s
        /\ t[Len(s) + 1] = n /\ \A i \in DOMAIN s : t[i] = s[i]
    OBVIOUS
  <1> HIDE DEF t
  <1>2. NoRepeat(t)
    BY <1>1 DEF NoRepeat
  <1>3. /\ \A i \in DOMAIN t : t[i] = n \/ \E j \in DOMAIN s : s[j] = t[i]
        /\ \E i \in DOMAIN t : t[i] = n
        /\ \A j \in DOMAIN s : \E i \in DOMAIN t : t[i] = s[j]
    BY <1>1, Zenon
  <1>4. Extends(s, n, t)
    BY <1>1, <1>2, <1>3 DEF Extends
  <1> QED
    BY <1>4 DEF t

(* A read enters its callback in the table of reads and nowhere else. *)
LEMMA ReadInd ==
  ASSUME GattInv, NEW address \in Addresses, NEW handle \in Handles, NEW done \in BOOLEAN,
         read(address, handle, done)
  PROVE  GattInv'
  <1>0. /\ "read" \in Ops /\ handle \in HandlesAndZero
        /\ Call("read", address, handle, done)
    BY DEF read, Ops, HandlesAndZero
  <1>n. PICK n : n = Len(calls) + 1
    OBVIOUS
  <1>k. PICK K \in Keys : K = gatt_key(address, handle)
    BY <1>0, KeyFacts
  <1>c. /\ n \in Nat /\ n \in 1..MaxCalls /\ n \notin CallIds /\ fired[n] = <<>>
        /\ CallIds' = CallIds \cup {n}
        /\ calls' \in Seq(CallRecords) /\ Len(calls') <= MaxCalls
        /\ calls'[n] = [op |-> "read", address |-> address, handle |-> handle, done |-> done]
        /\ \A id \in CallIds : calls'[id] = calls[id] /\ id # n
        /\ requests' \subseteq [id : CallIds', batch : Nat]
        /\ gatt_registered' \in BOOLEAN
        /\ dispatch' = dispatch /\ once' = once /\ in_user' = in_user
        /\ fired' = fired /\ inbox' = inbox
    BY <1>0, <1>n, CallFacts
  <1>t. /\ GattTypeOK /\ ReadsPlaced /\ WritesPlaced /\ ServicesPlaced
        /\ pending_reads \in [Keys -> Seq(Nat)]
        /\ \A id \in CallIds : KeyOf(calls[id]) \in Keys /\ calls[id] \in CallRecords
    BY GattTypes, Zenon DEF GattInv, GattTypeOK
  <1>s. /\ pending_reads' = IF done THEN [pending_reads EXCEPT ![K] = Append(@, n)]
                                    ELSE pending_reads
        /\ pending_writes' = pending_writes /\ pending_services' = pending_services
    BY <1>n, <1>k DEF read, Waiting
  <1>a. Extends(pending_reads[K], n, Append(pending_reads[K], n))
    <2>1. /\ pending_reads[K] \in Seq(Nat) /\ NoRepeat(pending_reads[K])
          /\ \A i \in DOMAIN pending_reads[K] : pending_reads[K][i] # n
      BY <1>k, <1>t, <1>c DEF ReadsPlaced, Unfired
    <2> QED
      BY <2>1, <1>c, Appended
  <1>b. /\ pending_reads' \in [Keys -> Seq(Nat)]
        /\ \A k \in Keys : \/ pending_reads'[k] = pending_reads[k] /\ (k # K \/ ~done)
                          \/ /\ Extends(pending_reads[k], n, pending_reads'[k])
                             /\ k = K /\ done
    <2>1. CASE done
      <3>1. /\ Append(pending_reads[K], n) \in Seq(Nat)
            /\ pending_reads' = [pending_reads EXCEPT ![K] = Append(pending_reads[K], n)]
        BY <2>1, <1>s, <1>a DEF Extends
      <3> QED
        BY <2>1, <3>1, <1>a, <1>t, <1>k
    <2>2. CASE ~done
      BY <2>2, <1>s, <1>t
    <2> QED
      BY <2>1, <2>2
  <1>1. GattTypeOK'
    BY <1>b, <1>t, <1>s, <1>c DEF GattTypeOK
  <1>u. \A id \in CallIds : Unfired(id) => Unfired(id)'
    BY <1>c DEF Unfired
  <1>2. ReadsPlaced'
    <2>1. ASSUME NEW k \in Keys
          PROVE  NoRepeat(pending_reads'[k])
      BY <1>t, <1>b DEF ReadsPlaced, Extends
    <2>2. ASSUME NEW k \in Keys, NEW i \in DOMAIN pending_reads'[k],
                 NEW id, id = pending_reads'[k][i]
          PROVE  Unfired(id)' /\ calls'[id].op = "read" /\ KeyOf(calls'[id]) = k
      <3>1. CASE k = K /\ done /\ id = n
        BY <3>1, <1>c, <1>k DEF Unfired, KeyOf
      <3>2. CASE \E j \in DOMAIN pending_reads[k] : id = pending_reads[k][j]
        <4>1. Unfired(id) /\ calls[id].op = "read" /\ KeyOf(calls[id]) = k
          BY <3>2, <1>t DEF ReadsPlaced
        <4> QED
          BY <4>1, <1>u, <1>c DEF Unfired
      <3> QED
        BY <2>2, <3>1, <3>2, <1>b, Zenon DEF Extends
    <2> QED
      BY <2>1, <2>2 DEF ReadsPlaced
  <1>3. WritesPlaced'
    BY <1>t, <1>s, <1>c, <1>u, Zenon DEF WritesPlaced, Unfired
  <1>4. ServicesPlaced'
    BY <1>t, <1>s, <1>c, <1>u DEF ServicesPlaced, Unfired
  <1>5. ASSUME NEW id \in CallIds PROVE InTable(id)' <=> InTable(id)
    <2>1. /\ calls'[id] = calls[id] /\ id # n /\ calls[id].address \in Addresses
          /\ KeyOf(calls[id]) \in Keys
      BY <1>c, <1>t DEF CallRecords
    <2>2. (\E i \in DOMAIN pending_reads'[KeyOf(calls[id])] :
              pending_reads'[KeyOf(calls[id])][i] = id)
          <=> (\E i \in DOMAIN pending_reads[KeyOf(calls[id])] :
              pending_reads[KeyOf(calls[id])][i] = id)
      BY <2>1, <1>b DEF Extends
    <2> QED
      BY <2>1, <2>2, <1>s DEF InTable
  <1>6. done => InTable(n)'
    <2>1. KeyOf(calls'[n]) = K /\ calls'[n].op = "read"
      BY <1>c, <1>k DEF KeyOf
    <2>2. done => \E i \in DOMAIN pending_reads'[K] : pending_reads'[K][i] = n
      BY <1>b, <1>k DEF Extends
    <2> QED
      BY <2>1, <2>2 DEF InTable
  <1> QED
    BY <1>0, <1>n, <1>1, <1>2, <1>3, <1>4, <1>5, <1>6, CallKeeps DEF GattInv

(* A write enters its callback in the table of writes and nowhere else. *)
LEMMA WriteInd ==
  ASSUME GattInv, NEW address \in Addresses, NEW handle \in Handles, NEW done \in BOOLEAN,
         write(address, handle, done)
  PROVE  GattInv'
  <1>0. /\ "write" \in Ops /\ handle \in HandlesAndZero
        /\ Call("write", address, handle, done)
    BY DEF write, Ops, HandlesAndZero
  <1>n. PICK n : n = Len(calls) + 1
    OBVIOUS
  <1>k. PICK K \in Keys : K = gatt_key(address, handle)
    BY <1>0, KeyFacts
  <1>c. /\ n \in Nat /\ n \in 1..MaxCalls /\ n \notin CallIds /\ fired[n] = <<>>
        /\ CallIds' = CallIds \cup {n}
        /\ calls' \in Seq(CallRecords) /\ Len(calls') <= MaxCalls
        /\ calls'[n] = [op |-> "write", address |-> address, handle |-> handle,
                       done |-> done]
        /\ \A id \in CallIds : calls'[id] = calls[id] /\ id # n
        /\ requests' \subseteq [id : CallIds', batch : Nat]
        /\ gatt_registered' \in BOOLEAN
        /\ dispatch' = dispatch /\ once' = once /\ in_user' = in_user
        /\ fired' = fired /\ inbox' = inbox
    BY <1>0, <1>n, CallFacts
  <1>t. /\ GattTypeOK /\ ReadsPlaced /\ WritesPlaced /\ ServicesPlaced
        /\ pending_writes \in [Keys -> Seq(Nat)]
        /\ \A id \in CallIds : KeyOf(calls[id]) \in Keys /\ calls[id] \in CallRecords
    BY GattTypes, Zenon DEF GattInv, GattTypeOK
  <1>s. /\ pending_writes' = IF done THEN [pending_writes EXCEPT ![K] = Append(@, n)]
                                    ELSE pending_writes
        /\ pending_reads' = pending_reads /\ pending_services' = pending_services
    BY <1>n, <1>k DEF write, Waiting
  <1>a. Extends(pending_writes[K], n, Append(pending_writes[K], n))
    <2>1. /\ pending_writes[K] \in Seq(Nat) /\ NoRepeat(pending_writes[K])
          /\ \A i \in DOMAIN pending_writes[K] : pending_writes[K][i] # n
      BY <1>k, <1>t, <1>c DEF WritesPlaced, Unfired
    <2> QED
      BY <2>1, <1>c, Appended
  <1>b. /\ pending_writes' \in [Keys -> Seq(Nat)]
        /\ \A k \in Keys : \/ pending_writes'[k] = pending_writes[k] /\ (k # K \/ ~done)
                          \/ /\ Extends(pending_writes[k], n, pending_writes'[k])
                             /\ k = K /\ done
    <2>1. CASE done
      <3>1. /\ Append(pending_writes[K], n) \in Seq(Nat)
            /\ pending_writes' = [pending_writes EXCEPT ![K] = Append(pending_writes[K], n)]
        BY <2>1, <1>s, <1>a DEF Extends
      <3> QED
        BY <2>1, <3>1, <1>a, <1>t, <1>k
    <2>2. CASE ~done
      BY <2>2, <1>s, <1>t
    <2> QED
      BY <2>1, <2>2
  <1>1. GattTypeOK'
    BY <1>b, <1>t, <1>s, <1>c DEF GattTypeOK
  <1>u. \A id \in CallIds : Unfired(id) => Unfired(id)'
    BY <1>c DEF Unfired
  <1>2. WritesPlaced'
    <2>1. ASSUME NEW k \in Keys
          PROVE  NoRepeat(pending_writes'[k])
      BY <1>t, <1>b DEF WritesPlaced, Extends
    <2>2. ASSUME NEW k \in Keys, NEW i \in DOMAIN pending_writes'[k],
                 NEW id, id = pending_writes'[k][i]
          PROVE  Unfired(id)' /\ calls'[id].op = "write" /\ KeyOf(calls'[id]) = k
      <3>1. CASE k = K /\ done /\ id = n
        BY <3>1, <1>c, <1>k DEF Unfired, KeyOf
      <3>2. CASE \E j \in DOMAIN pending_writes[k] : id = pending_writes[k][j]
        <4>1. Unfired(id) /\ calls[id].op = "write" /\ KeyOf(calls[id]) = k
          BY <3>2, <1>t DEF WritesPlaced
        <4> QED
          BY <4>1, <1>u, <1>c DEF Unfired
      <3> QED
        BY <2>2, <3>1, <3>2, <1>b, Zenon DEF Extends
    <2> QED
      BY <2>1, <2>2 DEF WritesPlaced
  <1>3. ReadsPlaced'
    BY <1>t, <1>s, <1>c, <1>u, Zenon DEF ReadsPlaced, Unfired
  <1>4. ServicesPlaced'
    BY <1>t, <1>s, <1>c, <1>u DEF ServicesPlaced, Unfired
  <1>5. ASSUME NEW id \in CallIds PROVE InTable(id)' <=> InTable(id)
    <2>1. /\ calls'[id] = calls[id] /\ id # n /\ calls[id].address \in Addresses
          /\ KeyOf(calls[id]) \in Keys
      BY <1>c, <1>t DEF CallRecords
    <2>2. (\E i \in DOMAIN pending_writes'[KeyOf(calls[id])] :
              pending_writes'[KeyOf(calls[id])][i] = id)
          <=> (\E i \in DOMAIN pending_writes[KeyOf(calls[id])] :
              pending_writes[KeyOf(calls[id])][i] = id)
      BY <2>1, <1>b DEF Extends
    <2> QED
      BY <2>1, <2>2, <1>s DEF InTable
  <1>6. done => InTable(n)'
    <2>1. KeyOf(calls'[n]) = K /\ calls'[n].op = "write"
      BY <1>c, <1>k DEF KeyOf
    <2>2. done => \E i \in DOMAIN pending_writes'[K] : pending_writes'[K][i] = n
      BY <1>b, <1>k DEF Extends
    <2> QED
      BY <2>1, <2>2 DEF InTable
  <1> QED
    BY <1>0, <1>n, <1>1, <1>2, <1>3, <1>4, <1>5, <1>6, CallKeeps DEF GattInv

(* A discovery enters its callback in the handlers of its device. *)
LEMMA GetServicesInd ==
  ASSUME GattInv, NEW address \in Addresses, NEW done \in BOOLEAN,
         get_services(address, done)
  PROVE  GattInv'
  <1>0. /\ "services" \in Ops /\ 0 \in HandlesAndZero
        /\ Call("services", address, 0, done)
    BY DEF get_services, Ops, HandlesAndZero
  <1>n. PICK n : n = Len(calls) + 1
    OBVIOUS
  <1>c. /\ n \in Nat /\ n \in 1..MaxCalls /\ n \notin CallIds /\ fired[n] = <<>>
        /\ CallIds' = CallIds \cup {n}
        /\ calls' \in Seq(CallRecords) /\ Len(calls') <= MaxCalls
        /\ calls'[n] = [op |-> "services", address |-> address, handle |-> 0, done |-> done]
        /\ \A id \in CallIds : calls'[id] = calls[id] /\ id # n
        /\ requests' \subseteq [id : CallIds', batch : Nat]
        /\ gatt_registered' \in BOOLEAN
        /\ dispatch' = dispatch /\ once' = once /\ in_user' = in_user
        /\ fired' = fired /\ inbox' = inbox
    BY <1>0, <1>n, CallFacts
  <1>t. /\ GattTypeOK /\ ReadsPlaced /\ WritesPlaced /\ ServicesPlaced
        /\ pending_services \in [Addresses -> [services : Seq(Nat), handlers : Seq(Nat)]]
        /\ \A id \in CallIds : KeyOf(calls[id]) \in Keys /\ calls[id] \in CallRecords
    BY GattTypes, Zenon DEF GattInv, GattTypeOK
  <1>s. /\ pending_services' = IF done
               THEN [pending_services EXCEPT ![address].handlers = Append(@, n)]
               ELSE pending_services
        /\ pending_writes' = pending_writes /\ pending_reads' = pending_reads
    BY <1>n DEF get_services
  <1>a. Extends(pending_services[address].handlers, n,
                Append(pending_services[address].handlers, n))
    <2>1. /\ pending_services[address].handlers \in Seq(Nat)
          /\ NoRepeat(pending_services[address].handlers)
          /\ \A i \in DOMAIN pending_services[address].handlers :
                pending_services[address].handlers[i] # n
      BY <1>t, <1>c DEF ServicesPlaced, Unfired
    <2> QED
      BY <2>1, <1>c, Appended
  <1>b. /\ pending_services' \in [Addresses -> [services : Seq(Nat), handlers : Seq(Nat)]]
        /\ \A a \in Addresses :
              \/ /\ pending_services'[a].handlers = pending_services[a].handlers
                 /\ a # address \/ ~done
              \/ /\ Extends(pending_services[a].handlers, n, pending_services'[a].handlers)
                 /\ a = address /\ done
    <2>1. CASE done
      <3>1. /\ Append(pending_services[address].handlers, n) \in Seq(Nat)
            /\ pending_services' = [pending_services EXCEPT ![address].handlers =
                                        Append(pending_services[address].handlers, n)]
        BY <2>1, <1>s, <1>a DEF Extends
      <3> QED
        BY <2>1, <3>1, <1>a, <1>t, Zenon
    <2>2. CASE ~done
      BY <2>2, <1>s, <1>t
    <2> QED
      BY <2>1, <2>2
  <1>1. GattTypeOK'
    BY <1>b, <1>t, <1>s, <1>c, Zenon DEF GattTypeOK
  <1>u. \A id \in CallIds : Unfired(id) => Unfired(id)'
    BY <1>c DEF Unfired
  <1>2. ServicesPlaced'
    <2>1. ASSUME NEW a \in Addresses
          PROVE  NoRepeat(pending_services'[a].handlers)
      BY <1>t, <1>b DEF ServicesPlaced, Extends
    <2>2. ASSUME NEW a \in Addresses, NEW i \in DOMAIN pending_services'[a].handlers,
                 NEW id, id = pending_services'[a].handlers[i]
          PROVE  Unfired(id)' /\ calls'[id].op = "services" /\ calls'[id].address = a
      <3>1. CASE a = address /\ done /\ id = n
        BY <3>1, <1>c DEF Unfired
      <3>2. CASE \E j \in DOMAIN pending_services[a].handlers :
                    id = pending_services[a].handlers[j]
        <4>1. Unfired(id) /\ calls[id].op = "services" /\ calls[id].address = a
          BY <3>2, <1>t DEF ServicesPlaced
        <4> QED
          BY <4>1, <1>u, <1>c DEF Unfired
      <3> QED
        BY <2>2, <3>1, <3>2, <1>b, Zenon DEF Extends
    <2> QED
      BY <2>1, <2>2 DEF ServicesPlaced
  <1>3. WritesPlaced'
    BY <1>t, <1>s, <1>c, <1>u, Zenon DEF WritesPlaced, Unfired
  <1>4. ReadsPlaced'
    BY <1>t, <1>s, <1>c, <1>u, Zenon DEF ReadsPlaced, Unfired
  <1>5. ASSUME NEW id \in CallIds PROVE InTable(id)' <=> InTable(id)
    <2>1. calls'[id] = calls[id] /\ id # n /\ calls[id].address \in Addresses
      BY <1>c, <1>t DEF CallRecords
    <2>2. ASSUME NEW a \in Addresses
          PROVE  (\E i \in DOMAIN pending_services'[a].handlers :
                     pending_services'[a].handlers[i] = id)
                 <=> (\E i \in DOMAIN pending_services[a].handlers :
                         pending_services[a].handlers[i] = id)
      <3>1. CASE pending_services'[a].handlers = pending_services[a].handlers
        BY <3>1
      <3>2. CASE Extends(pending_services[a].handlers, n, pending_services'[a].handlers)
        BY <2>1, <3>2 DEF Extends
      <3> QED
        BY <3>1, <3>2, <1>b, Zenon
    <2> QED
      BY <2>1, <2>2, <1>s DEF InTable
  <1>6. done => InTable(n)'
    <2>1. calls'[n].address = address /\ calls'[n].op = "services"
      BY <1>c
    <2>2. done => \E i \in DOMAIN pending_services'[address].handlers :
                     pending_services'[address].handlers[i] = n
      BY <1>b DEF Extends
    <2> QED
      BY <2>1, <2>2 DEF InTable
  <1> QED
    BY <1>0, <1>n, <1>1, <1>2, <1>3, <1>4, <1>5, <1>6, CallKeeps DEF GattInv

(* notify() sends its request and waits for nothing. *)
LEMMA NotifyInd ==
  ASSUME GattInv, NEW address \in Addresses, NEW handle \in Handles,
         notify(address, handle)
  PROVE  GattInv'
  <1>0. /\ "notify" \in Ops /\ handle \in HandlesAndZero /\ FALSE \in BOOLEAN
        /\ Call("notify", address, handle, FALSE)
        /\ pending_reads' = pending_reads /\ pending_writes' = pending_writes
        /\ pending_services' = pending_services
    BY Zenon DEF notify, Ops, HandlesAndZero, tables
  <1>n. PICK n : n = Len(calls) + 1
    OBVIOUS
  <1>c. /\ n \in Nat /\ n \in 1..MaxCalls /\ n \notin CallIds /\ fired[n] = <<>>
        /\ CallIds' = CallIds \cup {n}
        /\ calls' \in Seq(CallRecords) /\ Len(calls') <= MaxCalls
        /\ \A id \in CallIds : calls'[id] = calls[id] /\ id # n
        /\ requests' \subseteq [id : CallIds', batch : Nat]
        /\ gatt_registered' \in BOOLEAN
        /\ dispatch' = dispatch /\ once' = once /\ in_user' = in_user
        /\ fired' = fired /\ inbox' = inbox
    BY <1>0, <1>n, CallFacts, Zenon
  <1>t. GattTypeOK /\ ReadsPlaced /\ WritesPlaced /\ ServicesPlaced
    BY DEF GattInv
  <1>1. GattTypeOK'
    BY <1>0, <1>t, <1>c DEF GattTypeOK
  <1>d. \A id \in CallIds : id \in CallIds' /\ calls'[id] = calls[id] /\ fired'[id] = fired[id]
    BY <1>c
  <1>2. ReadsPlaced'
    <2>1. ASSUME NEW k \in Keys, NEW i \in DOMAIN pending_reads[k], NEW id, id = pending_reads[k][i]
          PROVE  Unfired(id)' /\ calls'[id].op = "read" /\ KeyOf(calls'[id]) = k
      <3>1. Unfired(id) /\ calls[id].op = "read" /\ KeyOf(calls[id]) = k
        BY <1>t, <2>1, Zenon DEF ReadsPlaced
      <3> QED
        BY <1>d, <3>1, Zenon DEF Unfired
    <2> QED
      BY <1>t, <1>0, <2>1 DEF ReadsPlaced
  <1>3. WritesPlaced'
    <2>1. ASSUME NEW k \in Keys, NEW i \in DOMAIN pending_writes[k], NEW id, id = pending_writes[k][i]
          PROVE  Unfired(id)' /\ calls'[id].op = "write" /\ KeyOf(calls'[id]) = k
      <3>1. Unfired(id) /\ calls[id].op = "write" /\ KeyOf(calls[id]) = k
        BY <1>t, <2>1, Zenon DEF WritesPlaced
      <3> QED
        BY <1>d, <3>1, Zenon DEF Unfired
    <2> QED
      BY <1>t, <1>0, <2>1 DEF WritesPlaced
  <1>5. ServicesPlaced'
    BY <1>t, <1>0, <1>d DEF ServicesPlaced, Unfired
  <1>4. \A id \in CallIds : InTable(id)' <=> InTable(id)
    BY <1>0, <1>c DEF InTable
  <1> QED
    BY <1>0, <1>n, <1>1, <1>2, <1>3, <1>4, <1>5, CallKeeps, Zenon DEF GattInv

-----------------------------------------------------------------------------
(* A step that neither calls nor runs a callback nor looks at a table. *)
LEMMA TablesKept ==
  ASSUME GattInv, UNCHANGED <<calls, tables, fired>>
  PROVE  /\ CallIds' = CallIds /\ calls' = calls /\ fired' = fired
         /\ pending_reads' = pending_reads /\ pending_writes' = pending_writes
         /\ pending_services' = pending_services
         /\ ReadsPlaced' /\ WritesPlaced' /\ ServicesPlaced' /\ FiredPlaced'
         /\ \A id : InTable(id)' <=> InTable(id)
  <1>1. /\ calls' = calls /\ fired' = fired /\ pending_reads' = pending_reads
        /\ pending_writes' = pending_writes /\ pending_services' = pending_services
    BY DEF tables
  <1>2. CallIds' = CallIds
    BY <1>1 DEF CallIds
  <1>3. ReadsPlaced'
    BY <1>1, <1>2 DEF GattInv, ReadsPlaced, Unfired
  <1>4. WritesPlaced'
    BY <1>1, <1>2 DEF GattInv, WritesPlaced, Unfired
  <1>5. ServicesPlaced'
    BY <1>1, <1>2 DEF GattInv, ServicesPlaced, Unfired
  <1>6. FiredPlaced'
    BY <1>1, <1>2 DEF GattInv, FiredPlaced
  <1>7. ASSUME NEW id PROVE InTable(id)' <=> InTable(id)
    BY <1>1 DEF InTable
  <1> QED
    BY <1>1, <1>2, <1>3, <1>4, <1>5, <1>6, <1>7

(* What concerns the list being run, when that list stays too. *)
LEMMA OnceKept ==
  ASSUME GattInv, UNCHANGED <<calls, tables, fired>>, once' = once,
         dispatch'.msg = dispatch.msg \/ once = <<>>
  PROVE  OncePlaced' /\ NoneLost'
  <1>1. /\ CallIds' = CallIds /\ calls' = calls /\ fired' = fired
        /\ \A id : InTable(id)' <=> InTable(id)
    BY TablesKept
  <1>2. NoneLost'
    BY <1>1 DEF GattInv, NoneLost, InOnce
  <1>3. ASSUME once = <<>> PROVE OncePlaced'
    BY <1>3 DEF OncePlaced, InOnce
  <1>4. ASSUME dispatch'.msg = dispatch.msg PROVE OncePlaced'
    BY <1>1, <1>4 DEF GattInv, OncePlaced, Unfired, InOnce
  <1> QED
    BY <1>2, <1>3, <1>4

(* on_read and its like: the handlers of the responses are registered. *)
LEMMA OnHandlerInd == GattInv /\ on_handler => GattInv'
  <1> SUFFICES ASSUME GattInv, on_handler PROVE GattInv'
    OBVIOUS
  <1>1. /\ gatt_registered' = TRUE
        /\ UNCHANGED <<calls, tables, fired>>
        /\ dispatch' = dispatch /\ once' = once /\ in_user' = in_user
        /\ requests' = requests /\ inbox' = inbox
    BY DEF on_handler
  <1>2. /\ CallIds' = CallIds /\ calls' = calls /\ fired' = fired
        /\ pending_reads' = pending_reads /\ pending_writes' = pending_writes
        /\ pending_services' = pending_services
        /\ ReadsPlaced' /\ WritesPlaced' /\ ServicesPlaced' /\ FiredPlaced'
        /\ \A id : InTable(id)' <=> InTable(id)
    BY <1>1, TablesKept
  <1>3. GattTypeOK'
    BY <1>1, <1>2, Zenon DEF GattInv, GattTypeOK
  <1>4. OncePlaced' /\ NoneLost'
    BY <1>1, OnceKept
  <1>5. DispatchPlaced' /\ AnswerComing' /\ DoneRegisters'
    BY <1>1, <1>2 DEF GattInv, DispatchPlaced, AnswerComing, DoneRegisters
  <1> QED
    BY <1>2, <1>3, <1>4, <1>5 DEF GattInv

(* The device gives an answer: the last one, or a batch of a discovery that  *)
(* goes on.                                                                  *)
LEMMA AnswerInd ==
  ASSUME GattInv, NEW req \in requests, NEW msg \in GattMessages, NEW req_left,
         Answer(req, msg, req_left),
         \A r \in req_left : r.id = req.id /\ r \in [id : CallIds, batch : Nat],
         req_left # {} \/ Answers(msg, calls[req.id])
  PROVE  GattInv'
  <1>1. /\ inbox' = Append(inbox, msg) /\ requests' = (requests \ {req}) \cup req_left
        /\ UNCHANGED <<calls, tables, fired>> /\ gatt_registered' = gatt_registered
        /\ dispatch' = dispatch /\ once' = once /\ in_user' = in_user
    BY DEF Answer
  <1>2. /\ CallIds' = CallIds /\ calls' = calls /\ fired' = fired
        /\ pending_reads' = pending_reads /\ pending_writes' = pending_writes
        /\ pending_services' = pending_services
        /\ ReadsPlaced' /\ WritesPlaced' /\ ServicesPlaced' /\ FiredPlaced'
        /\ \A id : InTable(id)' <=> InTable(id)
    BY <1>1, TablesKept
  <1>i. /\ inbox \in Seq(GattMessages) /\ inbox' \in Seq(GattMessages)
        /\ \A i \in DOMAIN inbox : i \in DOMAIN inbox' /\ inbox'[i] = inbox[i]
        /\ \E i \in DOMAIN inbox' : inbox'[i] = msg
    <2>1. inbox \in Seq(GattMessages)
      BY DEF GattInv, GattTypeOK
    <2>2. /\ Len(inbox) + 1 \in DOMAIN inbox' /\ inbox'[Len(inbox) + 1] = msg
          /\ inbox' \in Seq(GattMessages)
          /\ \A i \in DOMAIN inbox : i \in DOMAIN inbox' /\ inbox'[i] = inbox[i]
      BY <1>1, <2>1
    <2> QED
      BY <2>1, <2>2
  <1>3. GattTypeOK'
    <2>1. requests' \subseteq [id : CallIds, batch : Nat]
      BY <1>1 DEF GattInv, GattTypeOK
    <2> QED
      BY <1>1, <1>2, <1>i, <2>1, Zenon DEF GattInv, GattTypeOK
  <1>4. OncePlaced' /\ NoneLost'
    BY <1>1, OnceKept
  <1>5. AnswerComing'
    <2>1. ASSUME NEW id \in CallIds, InTable(id)
          PROVE  \/ \E r \in requests' : r.id = id
                 \/ \E i \in DOMAIN inbox' : Answers(inbox'[i], calls[id])
                 \/ /\ dispatch.msg # NoMessage /\ Answers(dispatch.msg, calls[id])
                    /\ \E i \in DOMAIN dispatch.left : dispatch.left[i] = calls[id].op
      <3>1. CASE \E r \in requests : r.id = id
        <4>1. PICK r \in requests : r.id = id
          BY <3>1
        <4>2. CASE r # req
          BY <4>1, <4>2, <1>1
        <4>3. CASE r = req /\ req_left # {}
          BY <4>1, <4>3, <1>1
        <4>4. CASE r = req /\ Answers(msg, calls[req.id])
          BY <4>1, <4>4, <1>i
        <4> QED
          BY <4>2, <4>3, <4>4
      <3>2. CASE \E i \in DOMAIN inbox : Answers(inbox[i], calls[id])
        BY <3>2, <1>i
      <3> QED
        BY <2>1, <3>1, <3>2 DEF GattInv, AnswerComing
    <2> QED
      BY <1>1, <1>2, <2>1 DEF AnswerComing
  <1>6. DispatchPlaced' /\ DoneRegisters'
    BY <1>1, <1>2 DEF GattInv, DispatchPlaced, DoneRegisters
  <1> QED
    BY <1>2, <1>3, <1>4, <1>5, <1>6 DEF GattInv

(* Whatever the device does with a request. *)
LEMMA DeviceInd == GattInv /\ Device => GattInv'
  <1> SUFFICES ASSUME GattInv, NEW req \in requests,
                      \/ DeviceError(req) \/ DeviceResponds(req)
                      \/ DeviceBatch(req) \/ DeviceDone(req)
               PROVE  GattInv'
    BY DEF Device
  <1>1. /\ req \in [id : CallIds, batch : Nat] /\ req.id \in CallIds /\ req.batch \in Nat
        /\ calls[req.id] \in CallRecords /\ req.id \in Nat
    BY GattTypes DEF GattInv, GattTypeOK
  <1>2. ASSUME NEW type \in MessageTypes, NEW services \in Seq(Nat)
        PROVE  Message(type, req.id, services) \in GattMessages
    BY <1>1 DEF Message, GattMessages, CallRecords
  <1>3. <<>> \in Seq(Nat) /\ <<req.batch>> \in Seq(Nat)
    BY <1>1
  <1>4. CASE DeviceError(req)
    <2>1. Message("error", req.id, <<>>) \in GattMessages
      BY <1>2, <1>3, Zenon DEF MessageTypes
    <2>2. Answers(Message("error", req.id, <<>>), calls[req.id])
      BY DEF Answers, Message
    <2> QED
      BY <1>4, <2>1, <2>2, AnswerInd DEF DeviceError
  <1>5. CASE DeviceResponds(req)
    <2>1. Message(calls[req.id].op, req.id, <<>>) \in GattMessages
      BY <1>2, <1>3, <1>5, Zenon DEF MessageTypes, DeviceResponds
    <2>2. Answers(Message(calls[req.id].op, req.id, <<>>), calls[req.id])
      BY <1>5 DEF Answers, Message, DeviceResponds
    <2> QED
      BY <1>5, <2>1, <2>2, AnswerInd DEF DeviceResponds
  <1>6. CASE DeviceBatch(req)
    <2>1. Message("services", req.id, <<req.batch>>) \in GattMessages
      BY <1>2, <1>3, Zenon DEF MessageTypes
    <2>2. \A r \in {[req EXCEPT !.batch = @ + 1]} :
             r.id = req.id /\ r \in [id : CallIds, batch : Nat]
      BY <1>1
    <2>3. {[req EXCEPT !.batch = @ + 1]} # {}
      BY Zenon
    <2> QED
      BY <1>6, <2>1, <2>2, <2>3, AnswerInd DEF DeviceBatch
  <1>7. CASE DeviceDone(req)
    <2>1. Message("done", req.id, <<>>) \in GattMessages
      BY <1>2, <1>3, Zenon DEF MessageTypes
    <2>2. Answers(Message("done", req.id, <<>>), calls[req.id])
      BY <1>7 DEF Answers, Message, DeviceDone, Discovering
    <2> QED
      BY <1>7, <2>1, <2>2, AnswerInd DEF DeviceDone
  <1> QED
    BY <1>4, <1>5, <1>6, <1>7

-----------------------------------------------------------------------------
(* What stands in a table has a callback that has not run. *)
LEMMA TableUnfired ==
  ASSUME GattInv, NEW id \in CallIds, InTable(id)
  PROVE  /\ calls[id] \in CallRecords /\ calls[id].op \in {"read", "write", "services"}
         /\ calls[id].done /\ fired[id] = <<>>
  <1>1. /\ calls[id] \in CallRecords /\ KeyOf(calls[id]) \in Keys
        /\ calls[id].address \in Addresses
    BY GattTypes DEF GattInv, CallRecords
  <1>2. calls[id].op \in {"read", "write", "services"}
    BY DEF InTable
  <1>3. Unfired(id)
    <2>1. CASE calls[id].op = "read"
      BY <1>1, <2>1 DEF GattInv, InTable, ReadsPlaced
    <2>2. CASE calls[id].op = "write"
      BY <1>1, <2>2 DEF GattInv, InTable, WritesPlaced
    <2>3. CASE calls[id].op = "services"
      BY <1>1, <2>3 DEF GattInv, InTable, ServicesPlaced
    <2> QED
      BY <1>2, <2>1, <2>2, <2>3
  <1> QED
    BY <1>1, <1>2, <1>3 DEF Unfired

(* The first element of a list is taken. *)
LEMMA Taken ==
  ASSUME NEW S, NEW s \in Seq(S), s # <<>>
  PROVE  /\ Head(s) \in S /\ Tail(s) \in Seq(S) /\ 1 \in DOMAIN s /\ s[1] = Head(s)
         /\ \A i \in DOMAIN Tail(s) : i + 1 \in DOMAIN s /\ Tail(s)[i] = s[i + 1] /\ i + 1 # 1
         /\ \A i \in DOMAIN s : i = 1 \/ (i - 1 \in DOMAIN Tail(s) /\ Tail(s)[i - 1] = s[i])
  OBVIOUS

(* Without a done callback nothing waits, so a response can be dropped. *)
LEMMA IgnoreInd == GattInv /\ ignore => GattInv'
  <1> SUFFICES ASSUME GattInv, ignore PROVE GattInv'
    OBVIOUS
  <1>1. /\ ~gatt_registered /\ gatt_registered' = gatt_registered
        /\ inbox # <<>> /\ inbox' = Tail(inbox)
        /\ UNCHANGED <<calls, tables, fired>> /\ requests' = requests
        /\ dispatch' = dispatch /\ once' = once /\ in_user' = in_user
    BY DEF ignore
  <1>2. /\ CallIds' = CallIds /\ calls' = calls /\ fired' = fired
        /\ pending_reads' = pending_reads /\ pending_writes' = pending_writes
        /\ pending_services' = pending_services
        /\ ReadsPlaced' /\ WritesPlaced' /\ ServicesPlaced' /\ FiredPlaced'
        /\ \A id : InTable(id)' <=> InTable(id)
    BY <1>1, TablesKept
  <1>3. GattTypeOK'
    <2>1. inbox' \in Seq(GattMessages)
      BY <1>1, Taken DEF GattInv, GattTypeOK
    <2> QED
      BY <1>1, <1>2, <2>1, Zenon DEF GattInv, GattTypeOK
  <1>4. OncePlaced' /\ NoneLost'
    BY <1>1, OnceKept
  <1>5. AnswerComing'
    <2>1. \A id \in CallIds : ~InTable(id)
      BY <1>1, TableUnfired, Zenon DEF GattInv, DoneRegisters
    <2> QED
      BY <1>2, <2>1 DEF AnswerComing
  <1>6. DispatchPlaced' /\ DoneRegisters'
    BY <1>1, <1>2 DEF GattInv, DispatchPlaced, DoneRegisters
  <1> QED
    BY <1>2, <1>3, <1>4, <1>5, <1>6 DEF GattInv

(* The tables that a message looks at are those of the calls it answers. *)
LEMMA LookupFacts ==
  ASSUME NEW m \in GattMessages
  PROVE  /\ Lookups(m.type) \in Seq(Tables)
         /\ \A i \in DOMAIN Lookups(m.type) :
              \/ Lookups(m.type)[i] = "read" /\ m.type \in {"read", "error"}
              \/ Lookups(m.type)[i] = "write" /\ m.type \in {"write", "error"}
              \/ Lookups(m.type)[i] = "services" /\ m.type \in {"done", "error"}
              \/ Lookups(m.type)[i] = "batch" /\ m.type = "services"
         /\ \A c \in CallRecords : Answers(m, c) /\ c.op \in {"read", "write", "services"} =>
               \E i \in DOMAIN Lookups(m.type) : Lookups(m.type)[i] = c.op
  <1>1. m.type \in MessageTypes
    BY DEF GattMessages
  <1>2. CASE m.type = "read"
    BY <1>2 DEF Lookups, Tables, Answers
  <1>3. CASE m.type = "write"
    BY <1>3 DEF Lookups, Tables, Answers
  <1>4. CASE m.type = "notify"
    BY <1>4 DEF Lookups, Tables, Answers
  <1>5. CASE m.type = "services"
    BY <1>5 DEF Lookups, Tables, Answers
  <1>6. CASE m.type = "done"
    BY <1>6 DEF Lookups, Tables, Answers
  <1>7. CASE m.type = "error"
    <2>1. Lookups(m.type) = <<"read", "write", "services">>
      BY <1>7 DEF Lookups
    <2>2. /\ DOMAIN Lookups(m.type) = {1, 2, 3} /\ Lookups(m.type)[1] = "read"
          /\ Lookups(m.type)[2] = "write" /\ Lookups(m.type)[3] = "services"
          /\ Lookups(m.type) \in Seq(Tables)
      BY <2>1 DEF Tables
    <2> QED
      BY <1>7, <2>2
  <1> QED
    BY <1>1, <1>2, <1>3, <1>4, <1>5, <1>6, <1>7 DEF MessageTypes

(* The next message is dispatched. *)
LEMMA ReceiveInd == GattInv /\ receive => GattInv'
  <1> SUFFICES ASSUME GattInv, receive PROVE GattInv'
    OBVIOUS
  <1> DEFINE m == Head(inbox)
  <1>1. /\ dispatch.msg = NoMessage /\ inbox # <<>> /\ inbox' = Tail(inbox)
        /\ dispatch' = [msg |-> m, left |-> Lookups(m.type)]
        /\ UNCHANGED <<calls, tables, fired>> /\ requests' = requests
        /\ gatt_registered' = gatt_registered /\ once' = once
        /\ in_user' \in BOOLEAN
    BY DEF receive
  <1>2. /\ CallIds' = CallIds /\ calls' = calls /\ fired' = fired
        /\ pending_reads' = pending_reads /\ pending_writes' = pending_writes
        /\ pending_services' = pending_services
        /\ ReadsPlaced' /\ WritesPlaced' /\ ServicesPlaced' /\ FiredPlaced'
        /\ \A id : InTable(id)' <=> InTable(id)
    BY <1>1, TablesKept
  <1>i. inbox \in Seq(GattMessages) /\ once = <<>>
    BY <1>1 DEF GattInv, GattTypeOK, DispatchPlaced
  <1>m. /\ m \in GattMessages /\ inbox' \in Seq(GattMessages) /\ inbox[1] = m
        /\ \A i \in DOMAIN inbox :
              i = 1 \/ (i - 1 \in DOMAIN inbox' /\ inbox'[i - 1] = inbox[i])
    BY <1>1, <1>i, Taken
  <1>n. m # NoMessage
    BY <1>m DEF GattMessages, NoMessage, MessageTypes
  <1> HIDE DEF m
  <1>3. GattTypeOK'
    <2>0. Lookups(m.type) \in Seq(Tables)
      BY <1>m, LookupFacts, Zenon
    <2>1. dispatch' \in [msg : GattMessages \cup {NoMessage}, left : Seq(Tables)]
      BY <1>1, <1>m, <2>0, Zenon
    <2> QED
      BY <1>1, <1>2, <1>m, <2>1, Zenon DEF GattInv, GattTypeOK
  <1>4. OncePlaced' /\ NoneLost'
    BY <1>1, <1>i, OnceKept
  <1>5. DispatchPlaced'
    <2>1. dispatch'.msg = m /\ dispatch'.left = Lookups(m.type)
      BY <1>1, Zenon
    <2>2. \A i \in DOMAIN Lookups(m.type) :
              \/ Lookups(m.type)[i] = "read" /\ m.type \in {"read", "error"}
              \/ Lookups(m.type)[i] = "write" /\ m.type \in {"write", "error"}
              \/ Lookups(m.type)[i] = "services" /\ m.type \in {"done", "error"}
              \/ Lookups(m.type)[i] = "batch" /\ m.type = "services"
      BY <1>m, LookupFacts, Zenon
    <2> QED
      BY <1>n, <2>1, <2>2, Zenon DEF DispatchPlaced
  <1>6. AnswerComing'
    <2>1. ASSUME NEW id \in CallIds, InTable(id)
          PROVE  \/ \E r \in requests' : r.id = id
                 \/ \E i \in DOMAIN inbox' : Answers(inbox'[i], calls[id])
                 \/ /\ dispatch'.msg # NoMessage /\ Answers(dispatch'.msg, calls[id])
                    /\ \E i \in DOMAIN dispatch'.left : dispatch'.left[i] = calls[id].op
      <3>1. CASE \E i \in DOMAIN inbox : Answers(inbox[i], calls[id])
        <4>1. PICK i \in DOMAIN inbox : Answers(inbox[i], calls[id])
          BY <3>1
        <4>2. CASE i = 1
          <5>1. Answers(m, calls[id])
            BY <4>1, <4>2, <1>m
          <5>2. calls[id] \in CallRecords /\ calls[id].op \in {"read", "write", "services"}
            BY <2>1, TableUnfired
          <5>3. \E j \in DOMAIN Lookups(m.type) : Lookups(m.type)[j] = calls[id].op
            BY <5>1, <5>2, <1>m, LookupFacts, Zenon
          <5> QED
            BY <5>1, <5>3, <1>1, <1>n
        <4>3. CASE i # 1
          BY <4>1, <4>3, <1>m
        <4> QED
          BY <4>2, <4>3
      <3> QED
        BY <2>1, <3>1, <1>1 DEF GattInv, AnswerComing
    <2> QED
      BY <1>2, <2>1 DEF AnswerComing
  <1>7. DoneRegisters'
    BY <1>1, <1>2 DEF GattInv, DoneRegisters
  <1> QED
    BY <1>2, <1>3, <1>4, <1>5, <1>6, <1>7 DEF GattInv

(* The message is handled when all its tables were looked at. *)
LEMMA HandledInd == GattInv /\ handled => GattInv'
  <1> SUFFICES ASSUME GattInv, handled PROVE GattInv'
    OBVIOUS
  <1>1. /\ dispatch.left = <<>> /\ once = <<>>
        /\ dispatch' = [msg |-> NoMessage, left |-> <<>>]
        /\ UNCHANGED <<calls, tables, fired>> /\ requests' = requests /\ inbox' = inbox
        /\ gatt_registered' = gatt_registered /\ once' = once
        /\ in_user' = TRUE
    BY DEF handled
  <1>2. /\ CallIds' = CallIds /\ calls' = calls /\ fired' = fired
        /\ pending_reads' = pending_reads /\ pending_writes' = pending_writes
        /\ pending_services' = pending_services
        /\ ReadsPlaced' /\ WritesPlaced' /\ ServicesPlaced' /\ FiredPlaced'
        /\ \A id : InTable(id)' <=> InTable(id)
    BY <1>1, TablesKept
  <1>3. GattTypeOK'
    <2>1. dispatch' \in [msg : GattMessages \cup {NoMessage}, left : Seq(Tables)]
      BY <1>1
    <2> QED
      BY <1>1, <1>2, <2>1, Zenon DEF GattInv, GattTypeOK
  <1>4. OncePlaced' /\ NoneLost'
    BY <1>1, OnceKept
  <1>5. DispatchPlaced'
    BY <1>1 DEF DispatchPlaced
  <1>6. AnswerComing'
    BY <1>1, <1>2 DEF GattInv, AnswerComing
  <1>7. DoneRegisters'
    BY <1>1, <1>2 DEF GattInv, DoneRegisters
  <1> QED
    BY <1>2, <1>3, <1>4, <1>5, <1>6, <1>7 DEF GattInv

-----------------------------------------------------------------------------
(* The message whose tables are being looked at. *)
LEMMA LookingFacts ==
  ASSUME GattInv, NEW t \in Tables, Looking(t)
  PROVE  /\ once = <<>> /\ dispatch.msg # NoMessage /\ dispatch.msg \in GattMessages
         /\ dispatch.msg.address \in Addresses /\ dispatch.msg.handle \in HandlesAndZero
         /\ Key \in Keys
         /\ \/ t = "read" /\ dispatch.msg.type \in {"read", "error"}
            \/ t = "write" /\ dispatch.msg.type \in {"write", "error"}
            \/ t = "services" /\ dispatch.msg.type \in {"done", "error"}
            \/ t = "batch" /\ dispatch.msg.type = "services"
         /\ dispatch' \in [msg : GattMessages \cup {NoMessage}, left : Seq(Tables)]
         /\ dispatch'.msg = dispatch.msg
         /\ \A i \in DOMAIN dispatch'.left :
               \E j \in DOMAIN dispatch.left : dispatch'.left[i] = dispatch.left[j]
         /\ \A j \in DOMAIN dispatch.left :
               dispatch.left[j] = t \/ \E i \in DOMAIN dispatch'.left :
                                          dispatch'.left[i] = dispatch.left[j]
  <1>1. /\ dispatch.left # <<>> /\ Head(dispatch.left) = t /\ once = <<>>
        /\ dispatch' = [dispatch EXCEPT !.left = Tail(@)]
    BY DEF Looking
  <1>2. /\ dispatch \in [msg : GattMessages \cup {NoMessage}, left : Seq(Tables)]
        /\ dispatch.left \in Seq(Tables)
    BY DEF GattInv, GattTypeOK
  <1>3. dispatch.msg # NoMessage /\ dispatch.msg \in GattMessages
    BY <1>1, <1>2 DEF GattInv, DispatchPlaced
  <1>4. dispatch.msg.address \in Addresses /\ dispatch.msg.handle \in HandlesAndZero
    BY <1>3 DEF GattMessages
  <1>5. Key \in Keys
    BY <1>4, KeyFacts DEF Key
  <1>6. /\ Tail(dispatch.left) \in Seq(Tables)
        /\ 1 \in DOMAIN dispatch.left /\ dispatch.left[1] = t
        /\ \A i \in DOMAIN Tail(dispatch.left) :
              i + 1 \in DOMAIN dispatch.left /\ Tail(dispatch.left)[i] = dispatch.left[i + 1]
        /\ \A i \in DOMAIN dispatch.left :
              \/ i = 1
              \/ i - 1 \in DOMAIN Tail(dispatch.left)
                 /\ Tail(dispatch.left)[i - 1] = dispatch.left[i]
    BY <1>1, <1>2, Taken
  <1>7. /\ dispatch'.left = Tail(dispatch.left) /\ dispatch'.msg = dispatch.msg
        /\ dispatch' \in [msg : GattMessages \cup {NoMessage}, left : Seq(Tables)]
    BY <1>1, <1>2, <1>6, Zenon
  <1>8. \/ t = "read" /\ dispatch.msg.type \in {"read", "error"}
        \/ t = "write" /\ dispatch.msg.type \in {"write", "error"}
        \/ t = "services" /\ dispatch.msg.type \in {"done", "error"}
        \/ t = "batch" /\ dispatch.msg.type = "services"
    BY <1>6 DEF GattInv, DispatchPlaced
  <1>9. \A i \in DOMAIN dispatch'.left :
           \E j \in DOMAIN dispatch.left : dispatch'.left[i] = dispatch.left[j]
    BY <1>6, <1>7
  <1>10. \A j \in DOMAIN dispatch.left :
            dispatch.left[j] = t \/ \E i \in DOMAIN dispatch'.left :
                                       dispatch'.left[i] = dispatch.left[j]
    BY <1>6, <1>7, Zenon
  <1> QED
    BY <1>1, <1>3, <1>4, <1>5, <1>7, <1>8, <1>9, <1>10

(* The calls of a table entry are moved into the list to run. *)
LEMMA Moved ==
  ASSUME GattInv, NEW t \in Tables, Looking(t),
         NEW s \in Seq(Nat), NoRepeat(s), NEW services \in Seq(Nat),
         once' = [i \in DOMAIN s |-> [id |-> s[i], services |-> services]],
         \A i \in DOMAIN s : Unfired(s[i]) /\ Answers(dispatch.msg, calls[s[i]]),
         \A id \in CallIds :
            InTable(id)' <=> InTable(id) /\ ~\E i \in DOMAIN s : s[i] = id,
         \A id \in CallIds :
            InTable(id)' => calls[id].op # t \/ ~Answers(dispatch.msg, calls[id])
  PROVE  /\ once' \in Seq(OnceEntries) /\ OncePlaced' /\ DispatchPlaced' /\ FiredPlaced'
         /\ NoneLost' /\ AnswerComing' /\ DoneRegisters'
  <1>1. /\ calls' = calls /\ gatt_registered' = gatt_registered /\ fired' = fired
        /\ requests' = requests /\ inbox' = inbox
    BY DEF Looking
  <1>2. CallIds' = CallIds
    BY <1>1 DEF CallIds
  <1>3. /\ once = <<>> /\ dispatch.msg # NoMessage /\ dispatch'.msg = dispatch.msg
        /\ \A i \in DOMAIN dispatch'.left :
               \E j \in DOMAIN dispatch.left : dispatch'.left[i] = dispatch.left[j]
        /\ \A j \in DOMAIN dispatch.left :
               dispatch.left[j] = t \/ \E i \in DOMAIN dispatch'.left :
                                          dispatch'.left[i] = dispatch.left[j]
    BY LookingFacts
  <1>4. /\ once' \in Seq(OnceEntries) /\ DOMAIN once' = DOMAIN s
        /\ \A i \in DOMAIN s : once'[i].id = s[i]
    <2>1. Len(s) \in Nat /\ DOMAIN s = 1..Len(s)
      OBVIOUS
    <2>2. \A i \in 1..Len(s) : [id |-> s[i], services |-> services] \in OnceEntries
      BY DEF OnceEntries
    <2> QED
      BY <2>1, <2>2
  <1>5. \A id : InOnce(id)' <=> \E i \in DOMAIN s : s[i] = id
    BY <1>4, Zenon DEF InOnce
  <1>6. OncePlaced'
    <2>1. \A i, j \in DOMAIN once' : once'[i].id = once'[j].id => i = j
      BY <1>4 DEF NoRepeat
    <2>2. \A i \in DOMAIN once' : once'[i].id \in CallIds'
      BY <1>2, <1>4 DEF Unfired
    <2>3. ASSUME NEW id \in CallIds', InOnce(id)'
          PROVE  Unfired(id)' /\ ~InTable(id)' /\ Answers(dispatch'.msg, calls'[id])
      BY <2>3, <1>1, <1>2, <1>3, <1>5 DEF Unfired
    <2> QED
      BY <2>1, <2>2, <2>3 DEF OncePlaced
  <1>7. DispatchPlaced'
    BY <1>3 DEF GattInv, DispatchPlaced
  <1>8. FiredPlaced' /\ DoneRegisters'
    BY <1>1, <1>2 DEF GattInv, FiredPlaced, DoneRegisters
  <1>9. NoneLost'
    <2>1. \A id \in CallIds : ~InOnce(id)
      BY <1>3 DEF InOnce
    <2> QED
      BY <1>1, <1>2, <1>5, <2>1 DEF GattInv, NoneLost
  <1>10. AnswerComing'
    <2>1. ASSUME NEW id \in CallIds, InTable(id)'
          PROVE  \/ \E r \in requests : r.id = id
                 \/ \E i \in DOMAIN inbox : Answers(inbox[i], calls[id])
                 \/ /\ dispatch'.msg # NoMessage /\ Answers(dispatch'.msg, calls[id])
                    /\ \E i \in DOMAIN dispatch'.left : dispatch'.left[i] = calls[id].op
      <3>1. InTable(id)
        BY <2>1
      <3>2. CASE /\ dispatch.msg # NoMessage /\ Answers(dispatch.msg, calls[id])
                 /\ \E i \in DOMAIN dispatch.left : dispatch.left[i] = calls[id].op
        BY <2>1, <3>2, <1>3
      <3> QED
        BY <3>1, <3>2, Zenon DEF GattInv, AnswerComing
    <2> QED
      BY <1>1, <1>2, <2>1 DEF AnswerComing
  <1> QED
    BY <1>4, <1>6, <1>7, <1>8, <1>9, <1>10

(* The reads of the message's key are moved out of their table. *)
LEMMA LookReadsInd == GattInv /\ look_reads => GattInv'
  <1> SUFFICES ASSUME GattInv, look_reads PROVE GattInv'
    OBVIOUS
  <1>0. "read" \in Tables /\ Looking("read")
    BY DEF look_reads, Tables
  <1>1. /\ dispatch.msg \in GattMessages /\ dispatch.msg.type \in {"read", "error"}
        /\ dispatch.msg.address \in Addresses /\ dispatch.msg.handle \in HandlesAndZero
        /\ Key \in Keys
        /\ dispatch' \in [msg : GattMessages \cup {NoMessage}, left : Seq(Tables)]
    BY <1>0, LookingFacts
  <1>k. PICK K \in Keys : K = Key
    BY <1>1
  <1>s. PICK s : s = pending_reads[K]
    OBVIOUS
  <1>2. /\ calls' = calls /\ gatt_registered' = gatt_registered /\ fired' = fired
        /\ requests' = requests /\ inbox' = inbox /\ in_user' = FALSE
        /\ pending_reads' = [pending_reads EXCEPT ![K] = <<>>]
        /\ pending_writes' = pending_writes /\ pending_services' = pending_services
        /\ once' = [i \in DOMAIN s |-> [id |-> s[i], services |-> <<>>]]
    BY <1>k, <1>s DEF look_reads, Looking
  <1>3. CallIds' = CallIds
    BY <1>2 DEF CallIds
  <1>t. /\ GattTypeOK /\ ReadsPlaced /\ WritesPlaced /\ ServicesPlaced
        /\ pending_reads \in [Keys -> Seq(Nat)] /\ s \in Seq(Nat) /\ NoRepeat(s)
    BY <1>s, <1>k DEF GattInv, GattTypeOK, ReadsPlaced
  <1>4. /\ pending_reads' \in [Keys -> Seq(Nat)] /\ pending_reads'[K] = <<>>
        /\ \A k \in Keys : k # K => pending_reads'[k] = pending_reads[k]
    BY <1>t, <1>2
  <1>a. ASSUME NEW id \in CallIds, calls[id].op = "read"
        PROVE  Answers(dispatch.msg, calls[id]) <=> KeyOf(calls[id]) = K
    <2>1. calls[id].address \in Addresses /\ calls[id].handle \in HandlesAndZero
      BY <1>t, GattTypes DEF CallRecords
    <2>2. Answers(dispatch.msg, calls[id]) <=>
             calls[id].address = dispatch.msg.address /\ calls[id].handle = dispatch.msg.handle
      BY <1>1, <1>a DEF Answers
    <2> QED
      BY <2>1, <2>2, <1>1, <1>k, KeyFacts DEF KeyOf, Key
  <1>5. ReadsPlaced'
    <2>1. ASSUME NEW k \in Keys PROVE NoRepeat(pending_reads'[k])
      <3>1. NoRepeat(<<>>)
        BY DEF NoRepeat
      <3>2. CASE k = K
        BY <3>1, <3>2, <1>4
      <3>3. CASE k # K
        BY <3>3, <1>4, <1>t DEF ReadsPlaced
      <3> QED
        BY <3>2, <3>3
    <2>2. ASSUME NEW k \in Keys, NEW i \in DOMAIN pending_reads'[k]
          PROVE  k # K /\ pending_reads'[k] = pending_reads[k]
      BY <2>2, <1>4
    <2> QED
      BY <2>1, <2>2, <1>t, <1>2, <1>3 DEF ReadsPlaced, Unfired
  <1>6. WritesPlaced'
    BY <1>t, <1>2, <1>3 DEF WritesPlaced, Unfired
  <1>7. ServicesPlaced'
    BY <1>t, <1>2, <1>3 DEF ServicesPlaced, Unfired
  <1>8. \A i \in DOMAIN s : Unfired(s[i]) /\ Answers(dispatch.msg, calls[s[i]])
    <2>1. \A i \in DOMAIN s :
             Unfired(s[i]) /\ calls[s[i]].op = "read" /\ KeyOf(calls[s[i]]) = K
      BY <1>s, <1>k, <1>t DEF ReadsPlaced
    <2> QED
      BY <2>1, <1>a DEF Unfired
  <1>9. ASSUME NEW id \in CallIds
        PROVE  InTable(id)' <=> InTable(id) /\ ~\E i \in DOMAIN s : s[i] = id
    <2>1. KeyOf(calls[id]) \in Keys
      BY <1>t, GattTypes
    <2>2. (\E i \in DOMAIN s : s[i] = id) => calls[id].op = "read" /\ KeyOf(calls[id]) = K
      BY <1>s, <1>k, <1>t DEF ReadsPlaced
    <2>3. CASE calls[id].op = "read" /\ KeyOf(calls[id]) = K
      <3>1. ~InTable(id)'
        BY <2>3, <1>2, <1>4 DEF InTable
      <3>2. InTable(id) => \E i \in DOMAIN s : s[i] = id
        BY <2>3, <1>s DEF InTable
      <3> QED
        BY <3>1, <3>2
    <2>4. CASE ~(calls[id].op = "read" /\ KeyOf(calls[id]) = K)
      <3>1. InTable(id)' <=> InTable(id)
        BY <2>1, <2>4, <1>2, <1>4 DEF InTable
      <3> QED
        BY <3>1, <2>2, <2>4
    <2> QED
      BY <2>3, <2>4
  <1>10. ASSUME NEW id \in CallIds, InTable(id)'
         PROVE  calls[id].op # "read" \/ ~Answers(dispatch.msg, calls[id])
    <2>1. CASE calls[id].op = "read" /\ KeyOf(calls[id]) = K
      BY <1>10, <2>1, <1>2, <1>4 DEF InTable
    <2> QED
      BY <2>1, <1>a
  <1>11. /\ once' \in Seq(OnceEntries) /\ OncePlaced' /\ DispatchPlaced' /\ FiredPlaced'
         /\ NoneLost' /\ AnswerComing' /\ DoneRegisters'
    <2>1. <<>> \in Seq(Nat)
      OBVIOUS
    <2> QED
      BY <2>1, <1>0, <1>t, <1>2, <1>8, <1>9, <1>10, Moved, Zenon
  <1>12. GattTypeOK'
    BY <1>1, <1>2, <1>3, <1>4, <1>11, <1>t, Zenon DEF GattTypeOK
  <1> QED
    BY <1>5, <1>6, <1>7, <1>11, <1>12 DEF GattInv

(* The writes of the message's key are moved out of their table. *)
LEMMA LookWritesInd == GattInv /\ look_writes => GattInv'
  <1> SUFFICES ASSUME GattInv, look_writes PROVE GattInv'
    OBVIOUS
  <1>0. "write" \in Tables /\ Looking("write")
    BY DEF look_writes, Tables
  <1>1. /\ dispatch.msg \in GattMessages /\ dispatch.msg.type \in {"write", "error"}
        /\ dispatch.msg.address \in Addresses /\ dispatch.msg.handle \in HandlesAndZero
        /\ Key \in Keys
        /\ dispatch' \in [msg : GattMessages \cup {NoMessage}, left : Seq(Tables)]
    BY <1>0, LookingFacts
  <1>k. PICK K \in Keys : K = Key
    BY <1>1
  <1>s. PICK s : s = pending_writes[K]
    OBVIOUS
  <1>2. /\ calls' = calls /\ gatt_registered' = gatt_registered /\ fired' = fired
        /\ requests' = requests /\ inbox' = inbox /\ in_user' = FALSE
        /\ pending_writes' = [pending_writes EXCEPT ![K] = <<>>]
        /\ pending_reads' = pending_reads /\ pending_services' = pending_services
        /\ once' = [i \in DOMAIN s |-> [id |-> s[i], services |-> <<>>]]
    BY <1>k, <1>s DEF look_writes, Looking
  <1>3. CallIds' = CallIds
    BY <1>2 DEF CallIds
  <1>t. /\ GattTypeOK /\ ReadsPlaced /\ WritesPlaced /\ ServicesPlaced
        /\ pending_writes \in [Keys -> Seq(Nat)] /\ s \in Seq(Nat) /\ NoRepeat(s)
    BY <1>s, <1>k DEF GattInv, GattTypeOK, WritesPlaced
  <1>4. /\ pending_writes' \in [Keys -> Seq(Nat)] /\ pending_writes'[K] = <<>>
        /\ \A k \in Keys : k # K => pending_writes'[k] = pending_writes[k]
    BY <1>t, <1>2
  <1>a. ASSUME NEW id \in CallIds, calls[id].op = "write"
        PROVE  Answers(dispatch.msg, calls[id]) <=> KeyOf(calls[id]) = K
    <2>1. calls[id].address \in Addresses /\ calls[id].handle \in HandlesAndZero
      BY <1>t, GattTypes DEF CallRecords
    <2>2. Answers(dispatch.msg, calls[id]) <=>
             calls[id].address = dispatch.msg.address /\ calls[id].handle = dispatch.msg.handle
      BY <1>1, <1>a DEF Answers
    <2> QED
      BY <2>1, <2>2, <1>1, <1>k, KeyFacts DEF KeyOf, Key
  <1>5. WritesPlaced'
    <2>1. ASSUME NEW k \in Keys PROVE NoRepeat(pending_writes'[k])
      <3>1. NoRepeat(<<>>)
        BY DEF NoRepeat
      <3>2. CASE k = K
        BY <3>1, <3>2, <1>4
      <3>3. CASE k # K
        BY <3>3, <1>4, <1>t DEF WritesPlaced
      <3> QED
        BY <3>2, <3>3
    <2>2. ASSUME NEW k \in Keys, NEW i \in DOMAIN pending_writes'[k]
          PROVE  k # K /\ pending_writes'[k] = pending_writes[k]
      BY <2>2, <1>4
    <2> QED
      BY <2>1, <2>2, <1>t, <1>2, <1>3 DEF WritesPlaced, Unfired
  <1>6. ReadsPlaced'
    BY <1>t, <1>2, <1>3 DEF ReadsPlaced, Unfired
  <1>7. ServicesPlaced'
    BY <1>t, <1>2, <1>3 DEF ServicesPlaced, Unfired
  <1>8. \A i \in DOMAIN s : Unfired(s[i]) /\ Answers(dispatch.msg, calls[s[i]])
    <2>1. \A i \in DOMAIN s :
             Unfired(s[i]) /\ calls[s[i]].op = "write" /\ KeyOf(calls[s[i]]) = K
      BY <1>s, <1>k, <1>t DEF WritesPlaced
    <2> QED
      BY <2>1, <1>a DEF Unfired
  <1>9. ASSUME NEW id \in CallIds
        PROVE  InTable(id)' <=> InTable(id) /\ ~\E i \in DOMAIN s : s[i] = id
    <2>1. KeyOf(calls[id]) \in Keys
      BY <1>t, GattTypes
    <2>2. (\E i \in DOMAIN s : s[i] = id) => calls[id].op = "write" /\ KeyOf(calls[id]) = K
      BY <1>s, <1>k, <1>t DEF WritesPlaced
    <2>3. CASE calls[id].op = "write" /\ KeyOf(calls[id]) = K
      <3>1. ~InTable(id)'
        BY <2>3, <1>2, <1>4 DEF InTable
      <3>2. InTable(id) => \E i \in DOMAIN s : s[i] = id
        BY <2>3, <1>s DEF InTable
      <3> QED
        BY <3>1, <3>2
    <2>4. CASE ~(calls[id].op = "write" /\ KeyOf(calls[id]) = K)
      <3>1. InTable(id)' <=> InTable(id)
        BY <2>1, <2>4, <1>2, <1>4 DEF InTable
      <3> QED
        BY <3>1, <2>2, <2>4
    <2> QED
      BY <2>3, <2>4
  <1>10. ASSUME NEW id \in CallIds, InTable(id)'
         PROVE  calls[id].op # "write" \/ ~Answers(dispatch.msg, calls[id])
    <2>1. CASE calls[id].op = "write" /\ KeyOf(calls[id]) = K
      BY <1>10, <2>1, <1>2, <1>4 DEF InTable
    <2> QED
      BY <2>1, <1>a
  <1>11. /\ once' \in Seq(OnceEntries) /\ OncePlaced' /\ DispatchPlaced' /\ FiredPlaced'
         /\ NoneLost' /\ AnswerComing' /\ DoneRegisters'
    <2>1. <<>> \in Seq(Nat)
      OBVIOUS
    <2> QED
      BY <2>1, <1>0, <1>t, <1>2, <1>8, <1>9, <1>10, Moved, Zenon
  <1>12. GattTypeOK'
    BY <1>1, <1>2, <1>3, <1>4, <1>11, <1>t, Zenon DEF GattTypeOK
  <1> QED
    BY <1>5, <1>6, <1>7, <1>11, <1>12 DEF GattInv

(* The handlers of the message's device are moved out with its services. *)
LEMMA LookServicesInd == GattInv /\ look_services => GattInv'
  <1> SUFFICES ASSUME GattInv, look_services PROVE GattInv'
    OBVIOUS
  <1>0. "services" \in Tables /\ Looking("services")
    BY DEF look_services, Tables
  <1>1. /\ dispatch.msg \in GattMessages /\ dispatch.msg.type \in {"done", "error"}
        /\ dispatch.msg.address \in Addresses
        /\ dispatch' \in [msg : GattMessages \cup {NoMessage}, left : Seq(Tables)]
    BY <1>0, LookingFacts
  <1>k. PICK A \in Addresses : A = dispatch.msg.address
    BY <1>1
  <1>s. PICK s : s = pending_services[A].handlers
    OBVIOUS
  <1>v. PICK services : services = IF dispatch.msg.type = "done"
                                   THEN pending_services[A].services ELSE <<>>
    OBVIOUS
  <1>2. /\ calls' = calls /\ gatt_registered' = gatt_registered /\ fired' = fired
        /\ requests' = requests /\ inbox' = inbox /\ in_user' = FALSE
        /\ pending_services' = [pending_services EXCEPT ![A] = NoServices]
        /\ pending_reads' = pending_reads /\ pending_writes' = pending_writes
        /\ once' = [i \in DOMAIN s |-> [id |-> s[i], services |-> services]]
    BY <1>k, <1>s, <1>v DEF look_services, Looking
  <1>3. CallIds' = CallIds
    BY <1>2 DEF CallIds
  <1>t. /\ GattTypeOK /\ ReadsPlaced /\ WritesPlaced /\ ServicesPlaced
        /\ pending_services \in [Addresses -> [services : Seq(Nat), handlers : Seq(Nat)]]
    BY DEF GattInv, GattTypeOK
  <1>w. s \in Seq(Nat) /\ NoRepeat(s) /\ services \in Seq(Nat)
    BY <1>s, <1>v, <1>k, <1>t DEF ServicesPlaced
  <1>4. /\ pending_services' \in [Addresses -> [services : Seq(Nat), handlers : Seq(Nat)]]
        /\ pending_services'[A].handlers = <<>>
        /\ \A a \in Addresses : a # A => pending_services'[a] = pending_services[a]
    <2>1. /\ NoServices \in [services : Seq(Nat), handlers : Seq(Nat)]
          /\ NoServices.handlers = <<>>
      BY DEF NoServices
    <2> QED
      BY <2>1, <1>t, <1>2
  <1>a. ASSUME NEW id \in CallIds, calls[id].op = "services"
        PROVE  Answers(dispatch.msg, calls[id]) <=> calls[id].address = A
    BY <1>1, <1>a, <1>k DEF Answers
  <1>5. ServicesPlaced'
    <2>1. ASSUME NEW a \in Addresses PROVE NoRepeat(pending_services'[a].handlers)
      <3>1. NoRepeat(<<>>)
        BY DEF NoRepeat
      <3>2. CASE a = A
        BY <3>1, <3>2, <1>4
      <3>3. CASE a # A
        BY <3>3, <1>4, <1>t DEF ServicesPlaced
      <3> QED
        BY <3>2, <3>3
    <2>2. ASSUME NEW a \in Addresses, NEW i \in DOMAIN pending_services'[a].handlers
          PROVE  a # A /\ pending_services'[a] = pending_services[a]
      BY <2>2, <1>4
    <2> QED
      BY <2>1, <2>2, <1>t, <1>2, <1>3 DEF ServicesPlaced, Unfired
  <1>6. ReadsPlaced'
    BY <1>t, <1>2, <1>3 DEF ReadsPlaced, Unfired
  <1>7. WritesPlaced'
    BY <1>t, <1>2, <1>3 DEF WritesPlaced, Unfired
  <1>8. \A i \in DOMAIN s : Unfired(s[i]) /\ Answers(dispatch.msg, calls[s[i]])
    <2>1. \A i \in DOMAIN s :
             Unfired(s[i]) /\ calls[s[i]].op = "services" /\ calls[s[i]].address = A
      BY <1>s, <1>k, <1>t DEF ServicesPlaced
    <2> QED
      BY <2>1, <1>a DEF Unfired
  <1>9. ASSUME NEW id \in CallIds
        PROVE  InTable(id)' <=> InTable(id) /\ ~\E i \in DOMAIN s : s[i] = id
    <2>1. calls[id].address \in Addresses
      BY <1>t, GattTypes DEF CallRecords
    <2>2. (\E i \in DOMAIN s : s[i] = id) => calls[id].op = "services" /\ calls[id].address = A
      BY <1>s, <1>k, <1>t DEF ServicesPlaced
    <2>3. CASE calls[id].op = "services" /\ calls[id].address = A
      <3>1. ~InTable(id)'
        BY <2>3, <1>2, <1>4 DEF InTable
      <3>2. InTable(id) => \E i \in DOMAIN s : s[i] = id
        BY <2>3, <1>s DEF InTable
      <3> QED
        BY <3>1, <3>2
    <2>4. CASE ~(calls[id].op = "services" /\ calls[id].address = A)
      <3>1. InTable(id)' <=> InTable(id)
        BY <2>1, <2>4, <1>2, <1>4 DEF InTable
      <3> QED
        BY <3>1, <2>2, <2>4
    <2> QED
      BY <2>3, <2>4
  <1>10. ASSUME NEW id \in CallIds, InTable(id)'
         PROVE  calls[id].op # "services" \/ ~Answers(dispatch.msg, calls[id])
    <2>1. CASE calls[id].op = "services" /\ calls[id].address = A
      BY <1>10, <2>1, <1>2, <1>4 DEF InTable
    <2> QED
      BY <2>1, <1>a
  <1>11. /\ once' \in Seq(OnceEntries) /\ OncePlaced' /\ DispatchPlaced' /\ FiredPlaced'
         /\ NoneLost' /\ AnswerComing' /\ DoneRegisters'
    BY <1>0, <1>w, <1>2, <1>8, <1>9, <1>10, Moved, Zenon
  <1>12. GattTypeOK'
    BY <1>1, <1>2, <1>3, <1>4, <1>11, <1>t, Zenon DEF GattTypeOK
  <1> QED
    BY <1>5, <1>6, <1>7, <1>11, <1>12 DEF GattInv

(* A batch is added to the services of its device. *)
LEMMA KeepBatchInd == GattInv /\ keep_batch => GattInv'
  <1> SUFFICES ASSUME GattInv, keep_batch PROVE GattInv'
    OBVIOUS
  <1>0. "batch" \in Tables /\ Looking("batch")
    BY DEF keep_batch, Tables
  <1>1. /\ once = <<>> /\ dispatch.msg \in GattMessages /\ dispatch.msg.services \in Seq(Nat)
        /\ dispatch.msg.address \in Addresses
        /\ dispatch' \in [msg : GattMessages \cup {NoMessage}, left : Seq(Tables)]
    BY <1>0, LookingFacts DEF GattMessages
  <1>k. PICK A \in Addresses : A = dispatch.msg.address
    BY <1>1
  <1>2. /\ calls' = calls /\ gatt_registered' = gatt_registered /\ fired' = fired
        /\ requests' = requests /\ inbox' = inbox /\ in_user' = FALSE
        /\ pending_services' = [pending_services EXCEPT
                                   ![A].services = @ \o dispatch.msg.services]
        /\ pending_reads' = pending_reads /\ pending_writes' = pending_writes
        /\ once' = once
    BY <1>k DEF keep_batch, Looking
  <1>3. CallIds' = CallIds
    BY <1>2 DEF CallIds
  <1>t. /\ GattTypeOK /\ ReadsPlaced /\ WritesPlaced /\ ServicesPlaced
        /\ pending_services \in [Addresses -> [services : Seq(Nat), handlers : Seq(Nat)]]
    BY DEF GattInv, GattTypeOK
  <1>4. /\ pending_services' \in [Addresses -> [services : Seq(Nat), handlers : Seq(Nat)]]
        /\ \A a \in Addresses : pending_services'[a].handlers = pending_services[a].handlers
    <2>1. pending_services[A].services \o dispatch.msg.services \in Seq(Nat)
      BY <1>1, <1>t
    <2>2. pending_services' = [pending_services EXCEPT ![A] =
             [pending_services[A] EXCEPT !.services =
                 pending_services[A].services \o dispatch.msg.services]]
      BY <1>2, <1>t
    <2> QED
      BY <2>1, <2>2, <1>t, Zenon
  <1>5. ReadsPlaced' /\ WritesPlaced'
    <2>1. ReadsPlaced'
      BY <1>t, <1>2, <1>3 DEF ReadsPlaced, Unfired
    <2>2. WritesPlaced'
      BY <1>t, <1>2, <1>3 DEF WritesPlaced, Unfired
    <2> QED
      BY <2>1, <2>2
  <1>6. ServicesPlaced'
    BY <1>t, <1>2, <1>3, <1>4 DEF ServicesPlaced, Unfired
  <1>7. ASSUME NEW id \in CallIds PROVE InTable(id)' <=> InTable(id)
    <2>1. calls[id].address \in Addresses
      BY <1>t, GattTypes DEF CallRecords
    <2> QED
      BY <2>1, <1>2, <1>4 DEF InTable
  <1>8. ASSUME NEW id \in CallIds PROVE calls[id].op # "batch"
    BY <1>t, GattTypes, Zenon DEF CallRecords, Ops
  <1>9. /\ <<>> \in Seq(Nat) /\ NoRepeat(<<>>) /\ DOMAIN <<>> = {}
        /\ once' = [i \in DOMAIN <<>> |-> [id |-> <<>>[i], services |-> <<>>]]
    BY <1>1, <1>2 DEF NoRepeat
  <1>10. /\ OncePlaced' /\ DispatchPlaced' /\ FiredPlaced'
         /\ NoneLost' /\ AnswerComing' /\ DoneRegisters'
    BY <1>0, <1>7, <1>8, <1>9, Moved, Zenon
  <1>11. GattTypeOK'
    BY <1>1, <1>2, <1>3, <1>4, <1>t, Zenon DEF GattTypeOK
  <1> QED
    BY <1>5, <1>6, <1>10, <1>11 DEF GattInv

(* The first callback of the list runs, with an answer to its call. *)
LEMMA RunCallbackInd == GattInv /\ run_callback => GattInv'
  <1> SUFFICES ASSUME GattInv, run_callback PROVE GattInv'
    OBVIOUS
  <1>h. PICK h : h = Head(once)
    OBVIOUS
  <1>d. PICK d : d = h.id
    OBVIOUS
  <1>m. PICK m : m = [dispatch.msg EXCEPT !.services = h.services]
    BY Zenon
  <1>1. /\ once # <<>> /\ once' = Tail(once)
        /\ fired' = [fired EXCEPT ![d] = Append(fired[d], m)]
        /\ in_user' = TRUE /\ calls' = calls /\ gatt_registered' = gatt_registered
        /\ pending_reads' = pending_reads /\ pending_writes' = pending_writes
        /\ pending_services' = pending_services
        /\ dispatch' = dispatch /\ requests' = requests /\ inbox' = inbox
    BY <1>h, <1>d, <1>m DEF run_callback, tables
  <1>2. CallIds' = CallIds
    BY <1>1 DEF CallIds
  <1>t. /\ GattTypeOK /\ ReadsPlaced /\ WritesPlaced /\ ServicesPlaced /\ OncePlaced
        /\ once \in Seq(OnceEntries) /\ fired \in [1..MaxCalls -> Seq(GattMessages)]
    BY DEF GattInv, GattTypeOK
  <1>3. /\ h \in OnceEntries /\ once' \in Seq(OnceEntries) /\ 1 \in DOMAIN once /\ once[1] = h
        /\ \A i \in DOMAIN once' : i + 1 \in DOMAIN once /\ once'[i] = once[i + 1] /\ i + 1 # 1
        /\ \A i \in DOMAIN once : i = 1 \/ (i - 1 \in DOMAIN once' /\ once'[i - 1] = once[i])
    BY <1>1, <1>t, <1>h, Taken
  <1>4. /\ d \in CallIds /\ InOnce(d) /\ Unfired(d) /\ ~InTable(d)
        /\ Answers(dispatch.msg, calls[d])
    <2>1. d \in CallIds /\ InOnce(d)
      BY <1>3, <1>t, <1>d DEF OncePlaced, InOnce
    <2> QED
      BY <2>1, <1>t DEF OncePlaced
  <1>5. dispatch.msg \in GattMessages /\ h.services \in Seq(Nat)
    BY <1>1, <1>3, <1>t DEF GattInv, DispatchPlaced, GattTypeOK, OnceEntries
  <1>6. m \in GattMessages /\ Answers(m, calls[d])
    <2>1. /\ m \in GattMessages /\ m.type = dispatch.msg.type
          /\ m.address = dispatch.msg.address /\ m.handle = dispatch.msg.handle
      BY <1>5, <1>m, Zenon DEF GattMessages
    <2> QED
      BY <2>1, <1>4 DEF Answers
  <1>7. /\ d \in 1..MaxCalls /\ fired[d] = <<>> /\ calls[d].done
        /\ fired' \in [1..MaxCalls -> Seq(GattMessages)]
        /\ fired'[d] = <<m>> /\ fired'[d] # <<>> /\ Len(fired'[d]) = 1 /\ fired'[d][1] = m
        /\ \A id \in 1..MaxCalls : id # d => fired'[id] = fired[id]
    <2>1. d \in 1..MaxCalls /\ fired[d] = <<>> /\ calls[d].done
      BY <1>t, <1>4, GattTypes DEF Unfired
    <2>2. Append(fired[d], m) = <<m>> /\ <<m>> \in Seq(GattMessages)
      BY <2>1, <1>6
    <2> QED
      BY <2>1, <2>2, <1>1, <1>t
  <1>i. \A id : InTable(id)' <=> InTable(id)
    BY <1>1 DEF InTable
  <1>o. \A id : InOnce(id)' <=> InOnce(id) /\ id # d
    <2>1. ASSUME NEW id, InOnce(id)' PROVE InOnce(id) /\ id # d
      <3>1. PICK i \in DOMAIN once' : once'[i].id = id
        BY <2>1 DEF InOnce
      <3>2. i + 1 \in DOMAIN once /\ once[i + 1].id = id /\ i + 1 # 1
        BY <3>1, <1>3
      <3> QED
        BY <3>2, <1>3, <1>t, <1>d DEF InOnce, OncePlaced
    <2>2. ASSUME NEW id, InOnce(id), id # d PROVE InOnce(id)'
      <3>1. PICK i \in DOMAIN once : once[i].id = id
        BY <2>2 DEF InOnce
      <3>2. i # 1
        BY <3>1, <2>2, <1>3, <1>d
      <3> QED
        BY <3>1, <3>2, <1>3 DEF InOnce
    <2> QED
      BY <2>1, <2>2
  <1>u. \A id : Unfired(id) /\ id # d => Unfired(id)'
    BY <1>1, <1>2, <1>7, <1>t, GattTypes DEF Unfired
  <1>8. GattTypeOK'
    BY <1>1, <1>2, <1>3, <1>7, <1>t, Zenon DEF GattTypeOK
  <1>9. ReadsPlaced'
    <2>1. ASSUME NEW k \in Keys, NEW i \in DOMAIN pending_reads[k],
                 NEW id, id = pending_reads[k][i]
          PROVE  Unfired(id)' /\ calls[id].op = "read" /\ KeyOf(calls[id]) = k
      <3>1. Unfired(id) /\ calls[id].op = "read" /\ KeyOf(calls[id]) = k
        BY <2>1, <1>t DEF ReadsPlaced
      <3>2. InTable(id)
        BY <2>1, <3>1 DEF InTable
      <3> QED
        BY <3>1, <3>2, <1>4, <1>u
    <2> QED
      BY <2>1, <1>1, <1>t DEF ReadsPlaced
  <1>10. WritesPlaced'
    <2>1. ASSUME NEW k \in Keys, NEW i \in DOMAIN pending_writes[k],
                 NEW id, id = pending_writes[k][i]
          PROVE  Unfired(id)' /\ calls[id].op = "write" /\ KeyOf(calls[id]) = k
      <3>1. Unfired(id) /\ calls[id].op = "write" /\ KeyOf(calls[id]) = k
        BY <2>1, <1>t DEF WritesPlaced
      <3>2. InTable(id)
        BY <2>1, <3>1 DEF InTable
      <3> QED
        BY <3>1, <3>2, <1>4, <1>u
    <2> QED
      BY <2>1, <1>1, <1>t DEF WritesPlaced
  <1>11. ServicesPlaced'
    <2>1. ASSUME NEW a \in Addresses, NEW i \in DOMAIN pending_services[a].handlers,
                 NEW id, id = pending_services[a].handlers[i]
          PROVE  Unfired(id)' /\ calls[id].op = "services" /\ calls[id].address = a
      <3>1. Unfired(id) /\ calls[id].op = "services" /\ calls[id].address = a
        BY <2>1, <1>t DEF ServicesPlaced
      <3>2. InTable(id)
        BY <2>1, <3>1 DEF InTable
      <3> QED
        BY <3>1, <3>2, <1>4, <1>u
    <2> QED
      BY <2>1, <1>1, <1>t DEF ServicesPlaced
  <1>12. OncePlaced'
    <2>1. \A i, j \in DOMAIN once' : once'[i].id = once'[j].id => i = j
      <3>1. ASSUME NEW i \in DOMAIN once', NEW j \in DOMAIN once', once'[i].id = once'[j].id
            PROVE  i = j
        <4>0. \A p, q \in DOMAIN once : once[p].id = once[q].id => p = q
          BY <1>t, Zenon DEF OncePlaced
        <4>3. /\ i + 1 \in DOMAIN once /\ once'[i] = once[i + 1]
              /\ j + 1 \in DOMAIN once /\ once'[j] = once[j + 1]
          BY <3>1, <1>3, Zenon
        <4>1. i + 1 = j + 1
          BY <3>1, <4>0, <4>3, Zenon
        <4>2. i \in Nat /\ j \in Nat
          BY <1>3
        <4> QED
          BY <4>1, <4>2
      <3> QED
        BY <3>1
    <2>2. \A i \in DOMAIN once' : once'[i].id \in CallIds'
      BY <1>3, <1>t, <1>2 DEF OncePlaced
    <2>3. ASSUME NEW id \in CallIds', InOnce(id)'
          PROVE  Unfired(id)' /\ ~InTable(id)' /\ Answers(dispatch'.msg, calls'[id])
      <3>1. InOnce(id) /\ id # d /\ id \in CallIds
        BY <2>3, <1>o, <1>2
      <3> QED
        BY <3>1, <1>t, <1>u, <1>i, <1>1 DEF OncePlaced
    <2> QED
      BY <2>1, <2>2, <2>3 DEF OncePlaced
  <1>13. DispatchPlaced'
    BY <1>1, <1>5 DEF GattInv, DispatchPlaced, GattMessages, NoMessage, MessageTypes
  <1>14. FiredPlaced'
    <2>1. ASSUME NEW id \in 1..MaxCalls
          PROVE  /\ Len(fired'[id]) <= 1
                 /\ fired'[id] # <<>> => /\ id \in CallIds /\ calls[id].done
                                         /\ Answers(fired'[id][1], calls[id])
      <3>1. CASE id = d
        BY <3>1, <1>4, <1>6, <1>7
      <3>2. CASE id # d
        BY <3>2, <1>7 DEF GattInv, FiredPlaced
      <3> QED
        BY <3>1, <3>2
    <2> QED
      BY <2>1, <1>1, <1>2 DEF FiredPlaced
  <1>15. NoneLost'
    <2>1. ASSUME NEW id \in CallIds, calls[id].done
          PROVE  InTable(id)' \/ InOnce(id)' \/ fired'[id] # <<>>
      <3>1. CASE id = d
        BY <3>1, <1>7
      <3>2. CASE id # d
        <4>1. id \in 1..MaxCalls
          BY <1>t, GattTypes
        <4>2. InTable(id) \/ InOnce(id) \/ fired[id] # <<>>
          BY <2>1 DEF GattInv, NoneLost
        <4> QED
          BY <3>2, <4>1, <4>2, <1>i, <1>o, <1>7
      <3> QED
        BY <3>1, <3>2
    <2> QED
      BY <2>1, <1>1, <1>2 DEF NoneLost
  <1>16. AnswerComing' /\ DoneRegisters'
    BY <1>1, <1>2, <1>i DEF GattInv, AnswerComing, DoneRegisters
  <1> QED
    BY <1>8, <1>9, <1>10, <1>11, <1>12, <1>13, <1>14, <1>15, <1>16 DEF GattInv

-----------------------------------------------------------------------------
(* Every step of the user, the device and the handlers keeps the invariant. *)
LEMMA GattStep == GattInv /\ [GattNext]_gatt_vars => GattInv'
  <1> SUFFICES ASSUME GattInv, [GattNext]_gatt_vars PROVE GattInv'
    OBVIOUS
  <1>1. CASE User
    <2>1. CASE on_handler
      BY <2>1, OnHandlerInd
    <2>2. ASSUME NEW a \in Addresses, NEW done \in BOOLEAN, NEW h \in Handles,
                 read(a, h, done) \/ write(a, h, done) \/ (~done /\ notify(a, h))
          PROVE  GattInv'
      BY <2>2, ReadInd, WriteInd, NotifyInd, Zenon
    <2>3. ASSUME NEW a \in Addresses, NEW done \in BOOLEAN, get_services(a, done)
          PROVE  GattInv'
      BY <2>3, GetServicesInd, Zenon
    <2> QED
      BY <1>1, <2>1, <2>2, <2>3, Zenon DEF User
  <1>2. CASE Device
    BY <1>2, DeviceInd
  <1>3. CASE Dispatch
    BY <1>3, IgnoreInd, ReceiveInd, LookReadsInd, LookWritesInd, LookServicesInd,
       KeepBatchInd, RunCallbackInd, HandledInd DEF Dispatch
  <1>4. CASE UNCHANGED gatt_vars
    <2>1. /\ calls' = calls /\ gatt_registered' = gatt_registered /\ once' = once
          /\ pending_reads' = pending_reads /\ pending_writes' = pending_writes
          /\ pending_services' = pending_services /\ dispatch' = dispatch
          /\ in_user' = in_user /\ fired' = fired /\ requests' = requests /\ inbox' = inbox
      BY <1>4, Zenon DEF gatt_vars, tables
    <2>2. GattTypeOK'
      BY <2>1, Zenon DEF GattInv, GattTypeOK, CallIds
    <2>3. ReadsPlaced' /\ WritesPlaced' /\ ServicesPlaced'
      BY <2>1 DEF GattInv, ReadsPlaced, WritesPlaced, ServicesPlaced, Unfired, CallIds
    <2>4. OncePlaced' /\ DispatchPlaced' /\ FiredPlaced'
      BY <2>1 DEF GattInv, OncePlaced, DispatchPlaced, FiredPlaced, Unfired, CallIds,
                  InTable, InOnce
    <2>5. NoneLost' /\ AnswerComing' /\ DoneRegisters'
      BY <2>1 DEF GattInv, NoneLost, AnswerComing, DoneRegisters, CallIds, InTable, InOnce
    <2> QED
      BY <2>2, <2>3, <2>4, <2>5 DEF GattInv
  <1> QED
    BY <1>1, <1>2, <1>3, <1>4 DEF GattNext

(* The invariant holds of every behaviour of the proxy and its device. *)
THEOREM GattInvariance == GattSpec => []GattInv
  BY GattInitInd, GattStep, PTL DEF GattSpec

-----------------------------------------------------------------------------
(* A callback that does not repeat counts once where it is. *)
LEMMA HeldIs ==
  ASSUME GattInv, NEW id \in CallIds
  PROVE  Held(id) = (IF InOnce(id) THEN 1 ELSE 0) + (IF InTable(id) THEN 1 ELSE 0)
  <1> DEFINE c == calls[id]
             k == KeyOf(c)
  <1>t. /\ GattTypeOK /\ ReadsPlaced /\ WritesPlaced /\ ServicesPlaced /\ OncePlaced
    BY DEF GattInv
  <1>1. /\ c \in CallRecords /\ k \in Keys /\ c.address \in Addresses /\ c.op \in Ops
    BY <1>t, GattTypes DEF CallRecords
  <1>2. ASSUME NEW s \in Seq(Nat), NoRepeat(s)
        PROVE  Count(s, id) = IF \E i \in DOMAIN s : s[i] = id THEN 1 ELSE 0
    <2> DEFINE P == {i \in DOMAIN s : s[i] = id}
    <2>1. /\ Len(s) \in Nat /\ P \subseteq 1..Len(s)
          /\ \A i, j \in P : i = j
      BY <1>2 DEF NoRepeat
    <2>2. Cardinality(P) = IF P = {} THEN 0 ELSE 1
      <3> HIDE DEF P
      <3> QED
        BY <2>1, CountOnce
    <2> QED
      BY <2>2 DEF Count
  <1>3. CountIds(once, id) = IF InOnce(id) THEN 1 ELSE 0
    <2> DEFINE P == {i \in DOMAIN once : once[i].id = id}
    <2>1. /\ Len(once) \in Nat /\ P \subseteq 1..Len(once)
          /\ \A i, j \in P : i = j
      BY <1>t DEF GattTypeOK, OncePlaced
    <2>2. Cardinality(P) = IF P = {} THEN 0 ELSE 1
      <3> HIDE DEF P
      <3> QED
        BY <2>1, CountOnce
    <2> QED
      BY <2>2 DEF CountIds, InOnce
  <1>4. /\ pending_reads[k] \in Seq(Nat) /\ NoRepeat(pending_reads[k])
        /\ pending_writes[k] \in Seq(Nat) /\ NoRepeat(pending_writes[k])
        /\ pending_services[c.address].handlers \in Seq(Nat)
        /\ NoRepeat(pending_services[c.address].handlers)
    BY <1>t, <1>1 DEF GattTypeOK, ReadsPlaced, WritesPlaced, ServicesPlaced
  <1>5. /\ Count(pending_reads[k], id) =
              IF \E i \in DOMAIN pending_reads[k] : pending_reads[k][i] = id THEN 1 ELSE 0
        /\ Count(pending_writes[k], id) =
              IF \E i \in DOMAIN pending_writes[k] : pending_writes[k][i] = id THEN 1 ELSE 0
        /\ Count(pending_services[c.address].handlers, id) =
              IF \E i \in DOMAIN pending_services[c.address].handlers :
                    pending_services[c.address].handlers[i] = id THEN 1 ELSE 0
    BY <1>2, <1>4
  <1>6. Held(id) = CountIds(once, id) +
              CASE c.op = "read" -> Count(pending_reads[k], id)
                [] c.op = "write" -> Count(pending_writes[k], id)
                [] c.op = "notify" -> 0
                [] c.op = "services" -> Count(pending_services[c.address].handlers, id)
    BY DEF Held, KeyOf
  <1>7. CASE c.op = "read"
    BY <1>3, <1>5, <1>6, <1>7 DEF InTable
  <1>8. CASE c.op = "write"
    BY <1>3, <1>5, <1>6, <1>8 DEF InTable
  <1>9. CASE c.op = "notify"
    BY <1>3, <1>5, <1>6, <1>9 DEF InTable
  <1>10. CASE c.op = "services"
    BY <1>3, <1>5, <1>6, <1>10 DEF InTable
  <1> QED
    BY <1>1, <1>7, <1>8, <1>9, <1>10 DEF Ops

(* Every callback given to read, write or get_services is held in exactly one *)
(* place until it has run, once, for any number of calls and devices.         *)
THEOREM EachDoneOnceHolds == GattSpec => []EachDoneOnce
  <1>1. GattInv => EachDoneOnce
    <2> SUFFICES ASSUME GattInv, NEW id \in CallIds
                 PROVE  Held(id) + Len(fired[id]) = IF calls[id].done THEN 1 ELSE 0
      BY DEF EachDoneOnce
    <2>1. id \in 1..MaxCalls /\ fired[id] \in Seq(GattMessages) /\ calls[id].done \in BOOLEAN
      BY GattTypes DEF GattInv, GattTypeOK, CallRecords
    <2>f. Len(fired[id]) <= 1 /\ (fired[id] # <<>> => calls[id].done)
      BY <2>1, Zenon DEF GattInv, FiredPlaced
    <2>2. /\ fired[id] = <<>> => Len(fired[id]) = 0
          /\ fired[id] # <<>> => Len(fired[id]) = 1
      <3>1. ASSUME NEW S, NEW s \in Seq(S), Len(s) <= 1
            PROVE  (s = <<>> => Len(s) = 0) /\ (s # <<>> => Len(s) = 1)
        <4>1. CASE s = <<>>
          BY <4>1
        <4>2. CASE s # <<>>
          <5>1. 1 \in DOMAIN s
            BY <4>2, Taken
          <5>2. Len(s) \in Nat /\ DOMAIN s = 1..Len(s)
            OBVIOUS
          <5>3. Len(s) = 1
            BY <3>1, <5>1, <5>2
          <5> QED
            BY <5>3, <4>2
        <4> QED
          BY <4>1, <4>2
      <3> QED
        BY <2>1, <2>f, <3>1, Zenon
    <2>3. calls[id].done => InTable(id) \/ InOnce(id) \/ fired[id] # <<>>
      BY DEF GattInv, NoneLost
    <2>4. InTable(id) => calls[id].done /\ fired[id] = <<>>
      BY TableUnfired DEF Unfired
    <2>5. InOnce(id) => calls[id].done /\ fired[id] = <<>> /\ ~InTable(id)
      BY DEF GattInv, OncePlaced, Unfired
    <2>6. Held(id) = (IF InOnce(id) THEN 1 ELSE 0) + (IF InTable(id) THEN 1 ELSE 0)
      BY HeldIs
    <2>7. CASE calls[id].done
      <3>1. CASE fired[id] # <<>>
        <4>1. ~InTable(id) /\ ~InOnce(id)
          BY <3>1, <2>4, <2>5, Zenon
        <4> QED
          BY <4>1, <3>1, <2>2, <2>6, <2>7
      <3>2. CASE fired[id] = <<>> /\ InTable(id)
        <4>1. ~InOnce(id)
          BY <3>2, <2>5, Zenon
        <4> QED
          BY <4>1, <3>2, <2>2, <2>6, <2>7
      <3>3. CASE fired[id] = <<>> /\ InOnce(id)
        <4>1. ~InTable(id)
          BY <3>3, <2>5, Zenon
        <4> QED
          BY <4>1, <3>3, <2>2, <2>6, <2>7
      <3> QED
        BY <2>7, <2>3, <3>1, <3>2, <3>3, Zenon
    <2>8. CASE ~calls[id].done
      <3>1. ~InTable(id) /\ ~InOnce(id) /\ fired[id] = <<>>
        BY <2>8, <2>4, <2>5, <2>f, Zenon
      <3> QED
        BY <3>1, <2>2, <2>6, <2>8
    <2> QED
      BY <2>7, <2>8
  <1> QED
    BY <1>1, GattInvariance, PTL

(* No callback waits for a message that will not come: once the device has    *)
(* answered everything and every answer is handled, every done has run.       *)
THEOREM NoDoneForgottenHolds == GattSpec => []NoDoneForgotten
  <1>1. GattInv => NoDoneForgotten
    <2> SUFFICES ASSUME GattInv, requests = {}, inbox = <<>>, dispatch.msg = NoMessage,
                        NEW id \in CallIds, calls[id].done
                 PROVE  fired[id] # <<>>
      BY DEF NoDoneForgotten
    <2>1. ~InOnce(id)
      BY DEF GattInv, DispatchPlaced, InOnce
    <2>2. ~InTable(id)
      BY DEF GattInv, AnswerComing
    <2> QED
      BY <2>1, <2>2 DEF GattInv, NoneLost
  <1> QED
    BY <1>1, GattInvariance, PTL

(* A message is the answer to the request it was made for. *)
FromRequest(m) ==
    /\ m.request \in CallIds
    /\ m.address = calls[m.request].address /\ m.handle = calls[m.request].handle
    /\ \/ m.type \in {"error", calls[m.request].op}
       \/ m.type = "done" /\ calls[m.request].op = "services"

(* So are the messages on their way, the one being handled, and what the      *)
(* callbacks ran with.                                                        *)
SourceInv ==
    /\ \A i \in DOMAIN inbox : FromRequest(inbox[i])
    /\ dispatch.msg # NoMessage => FromRequest(dispatch.msg)
    /\ \A id \in 1..MaxCalls : \A i \in DOMAIN fired[id] : FromRequest(fired[id][i])

(* Calls keep their numbers, so a message stays the answer that it is. *)
LEMMA SourceKept ==
  ASSUME GattInv, GattNext, NEW m, FromRequest(m)
  PROVE  FromRequest(m)'
  <1>1. calls \in Seq(CallRecords) /\ CallIds = 1..Len(calls)
    BY GattTypes DEF GattInv, CallIds
  <1>2. CASE calls' = calls
    BY <1>2 DEF FromRequest, CallIds
  <1>3. CASE \E c \in CallRecords : calls' = Append(calls, c)
    <2>1. PICK c \in CallRecords : calls' = Append(calls, c)
      BY <1>3
    <2>2. Len(calls') = Len(calls) + 1 /\ \A i \in 1..Len(calls) : calls'[i] = calls[i]
      BY <1>1, <2>1
    <2>3. m.request \in CallIds' /\ calls'[m.request] = calls[m.request]
      BY <1>1, <2>2 DEF FromRequest, CallIds
    <2> QED
      BY <2>3 DEF FromRequest
  <1>4. CASE User
    <2>1. ASSUME NEW op \in Ops, NEW a \in Addresses, NEW h \in HandlesAndZero,
                 NEW done \in BOOLEAN, Call(op, a, h, done)
          PROVE  \E c \in CallRecords : calls' = Append(calls, c)
      <3>1. [op |-> op, address |-> a, handle |-> h, done |-> done] \in CallRecords
        BY DEF CallRecords
      <3> QED
        BY <2>1, <3>1 DEF Call
    <2>2. CASE on_handler
      BY <2>2, <1>2 DEF on_handler
    <2>3. CASE \E a \in Addresses, done \in BOOLEAN, h \in Handles :
                  read(a, h, done) \/ write(a, h, done) \/ (~done /\ notify(a, h))
      BY <2>3, <2>1, <1>3 DEF read, write, notify, Ops, HandlesAndZero
    <2>4. CASE \E a \in Addresses, done \in BOOLEAN : get_services(a, done)
      BY <2>4, <2>1, <1>3 DEF get_services, Ops, HandlesAndZero
    <2> QED
      BY <1>4, <2>2, <2>3, <2>4 DEF User
  <1>5. CASE Device \/ Dispatch
    <2>1. calls' = calls
      BY <1>5 DEF Device, DeviceError, DeviceResponds, DeviceBatch, DeviceDone, Answer,
                  Dispatch, ignore, receive, look_reads, look_writes, look_services,
                  keep_batch, Looking, run_callback, handled
    <2> QED
      BY <2>1, <1>2
  <1> QED
    BY <1>4, <1>5 DEF GattNext

(* Whatever the device sends is made for the request that it works on. *)
LEMMA DeviceSource ==
  ASSUME GattInv, Device
  PROVE  \E m : /\ FromRequest(m) /\ inbox' = Append(inbox, m)
                /\ dispatch' = dispatch /\ fired' = fired
  <1>1. PICK req \in requests : \/ DeviceError(req) \/ DeviceResponds(req)
                                \/ DeviceBatch(req) \/ DeviceDone(req)
    BY DEF Device
  <1>2. req.id \in CallIds
    BY DEF GattInv, GattTypeOK
  <1>3. ASSUME NEW type, NEW services,
               \/ type \in {"error", calls[req.id].op}
               \/ type = "done" /\ calls[req.id].op = "services"
        PROVE  FromRequest(Message(type, req.id, services))
    BY <1>2, <1>3 DEF FromRequest, Message
  <1>4. CASE DeviceError(req)
    BY <1>3, <1>4 DEF DeviceError, Answer
  <1>5. CASE DeviceResponds(req)
    BY <1>3, <1>5 DEF DeviceResponds, Answer
  <1>6. CASE DeviceBatch(req)
    BY <1>3, <1>6 DEF DeviceBatch, Discovering, Answer
  <1>7. CASE DeviceDone(req)
    BY <1>3, <1>7 DEF DeviceDone, Discovering, Answer
  <1> QED
    BY <1>1, <1>4, <1>5, <1>6, <1>7

(* Messages are passed on as they came; a service table is put together on    *)
(* the way.                                                                   *)
LEMMA SourceStep == GattInv /\ SourceInv /\ [GattNext]_gatt_vars => SourceInv'
  <1> SUFFICES ASSUME GattInv, SourceInv, [GattNext]_gatt_vars PROVE SourceInv'
    OBVIOUS
  <1>t. /\ inbox \in Seq(GattMessages) /\ fired \in [1..MaxCalls -> Seq(GattMessages)]
        /\ dispatch \in [msg : GattMessages \cup {NoMessage}, left : Seq(Tables)]
    BY DEF GattInv, GattTypeOK
  <1>1. CASE UNCHANGED gatt_vars
    <2>1. inbox' = inbox /\ dispatch' = dispatch /\ fired' = fired /\ calls' = calls
      BY <1>1 DEF gatt_vars
    <2> QED
      BY <2>1 DEF SourceInv, FromRequest, CallIds
  <1>2. CASE GattNext
    <2>0. \A m : FromRequest(m) => FromRequest(m)'
      BY <1>2, SourceKept
    <2>1. CASE inbox' = inbox /\ dispatch'.msg = dispatch.msg /\ fired' = fired
      BY <2>0, <2>1 DEF SourceInv
    <2>2. CASE User
      <3>1. inbox' = inbox /\ dispatch' = dispatch /\ fired' = fired
        BY <2>2 DEF User, on_handler, read, write, notify, get_services, Call
      <3> QED
        BY <2>1, <3>1
    <2>3. CASE Device
      <3>1. PICK m : /\ FromRequest(m) /\ inbox' = Append(inbox, m)
                     /\ dispatch' = dispatch /\ fired' = fired
        BY <2>3, DeviceSource
      <3>2. \A i \in DOMAIN inbox' : inbox'[i] = m \/ (i \in DOMAIN inbox /\ inbox'[i] = inbox[i])
        BY <1>t, <3>1
      <3> QED
        BY <2>0, <3>1, <3>2 DEF SourceInv
    <2>4. CASE ignore
      <3>1. /\ inbox # <<>> /\ inbox' = Tail(inbox)
            /\ dispatch' = dispatch /\ fired' = fired
        BY <2>4 DEF ignore
      <3>2. \A i \in DOMAIN inbox' : i + 1 \in DOMAIN inbox /\ inbox'[i] = inbox[i + 1]
        BY <1>t, <3>1
      <3> QED
        BY <2>0, <3>1, <3>2 DEF SourceInv
    <2>5. CASE receive
      <3>1. /\ inbox # <<>> /\ inbox' = Tail(inbox) /\ dispatch'.msg = Head(inbox)
            /\ fired' = fired
        BY <2>5 DEF receive
      <3>2. /\ 1 \in DOMAIN inbox /\ Head(inbox) = inbox[1]
            /\ \A i \in DOMAIN inbox' : i + 1 \in DOMAIN inbox /\ inbox'[i] = inbox[i + 1]
        BY <1>t, <3>1
      <3> QED
        BY <2>0, <3>1, <3>2 DEF SourceInv
    <2>6. CASE look_reads \/ look_writes \/ look_services \/ keep_batch
      <3>1. inbox' = inbox /\ dispatch'.msg = dispatch.msg /\ fired' = fired
        BY <1>t, <2>6 DEF look_reads, look_writes, look_services, keep_batch, Looking
      <3> QED
        BY <2>1, <3>1
    <2>7. CASE run_callback
      <3> DEFINE d == Head(once).id
                 m == [dispatch.msg EXCEPT !.services = Head(once).services]
      <3>1. /\ once # <<>> /\ inbox' = inbox /\ dispatch' = dispatch
            /\ fired' = [fired EXCEPT ![d] = Append(@, m)]
        BY <2>7 DEF run_callback
      <3>2. dispatch.msg \in GattMessages /\ FromRequest(dispatch.msg)
        BY <1>t, <3>1 DEF GattInv, DispatchPlaced, SourceInv
      <3>3. /\ m.type = dispatch.msg.type /\ m.address = dispatch.msg.address
            /\ m.handle = dispatch.msg.handle /\ m.request = dispatch.msg.request
        BY <3>2 DEF GattMessages
      <3> HIDE DEF d, m
      <3>4. FromRequest(m)
        BY <3>2, <3>3 DEF FromRequest
      <3>5. ASSUME NEW id \in 1..MaxCalls, NEW i \in DOMAIN fired'[id]
            PROVE  fired'[id][i] = m \/ (i \in DOMAIN fired[id] /\ fired'[id][i] = fired[id][i])
        BY <1>t, <3>1, <3>5
      <3> QED
        BY <2>0, <3>1, <3>4, <3>5 DEF SourceInv
    <2>8. CASE handled
      <3>1. inbox' = inbox /\ dispatch'.msg = NoMessage /\ fired' = fired
        BY <2>8 DEF handled
      <3> QED
        BY <2>0, <3>1 DEF SourceInv
    <2> QED
      BY <1>2, <2>2, <2>3, <2>4, <2>5, <2>6, <2>7, <2>8 DEF GattNext, Dispatch
  <1> QED
    BY <1>1, <1>2

(* The result of a call is the device's answer to a request of the same       *)
(* operation on the same device and characteristic, or an error on that       *)
(* characteristic or, for a service table, on that device: what gatt_key and  *)
(* the tables can tell without a request id, and all that they tell.          *)
THEOREM ResultIsForTheCallHolds == GattSpec => []ResultIsForTheCall
  <1>1. GattInit => SourceInv
    <2> SUFFICES ASSUME GattInit PROVE SourceInv
      OBVIOUS
    <2>1. inbox = <<>> /\ dispatch.msg = NoMessage /\ \A id \in 1..MaxCalls : fired[id] = <<>>
      BY DEF GattInit
    <2> QED
      BY <2>1 DEF SourceInv
  <1>2. GattInv /\ SourceInv => ResultIsForTheCall
    <2> SUFFICES ASSUME GattInv, SourceInv, NEW id \in CallIds, NEW msg \in Results(id)
                 PROVE  LET c == calls[id]
                            r == calls[msg.request]
                        IN  /\ r.address = c.address
                            /\ c.op # "services" => r.handle = c.handle
                            /\ r.op = c.op \/ msg.type = "error"
      BY DEF ResultIsForTheCall
    <2>1. /\ id \in 1..MaxCalls /\ fired[id] \in Seq(GattMessages)
          /\ \A n \in CallIds : calls[n].op \in Ops
      BY GattTypes DEF GattInv, GattTypeOK, CallRecords
    <2>2. PICK i \in DOMAIN fired[id] : msg = fired[id][i]
      BY DEF Results, ToSet
    <2>3. Len(fired[id]) <= 1 /\ i = 1 /\ fired[id] # <<>>
      BY <2>1, <2>2 DEF GattInv, FiredPlaced
    <2>4. Answers(msg, calls[id])
      BY <2>1, <2>2, <2>3 DEF GattInv, FiredPlaced
    <2>5. FromRequest(msg)
      BY <2>1, <2>2 DEF SourceInv
    <2>6. calls[id].op \in Ops /\ calls[msg.request].op \in Ops
      BY <2>1, <2>5 DEF FromRequest
    <2> QED
      BY <2>4, <2>5, <2>6 DEF Answers, FromRequest, Ops
  <1> QED
    BY <1>1, <1>2, SourceStep, GattInvariance, PTL DEF GattSpec

-----------------------------------------------------------------------------
(* The order of the batches.  Of every device one knows at each message which *)
(* batch comes next: the messages that wait lead from what the proxy has kept *)
(* to what the device will send.                                              *)

Discovery(req, a) == calls[req.id].op = "services" /\ calls[req.id].address = a

OneRequest == \A r, o \in requests : r.id = o.id => r = o

(* A run of batches that ends before batch next, perhaps an empty one. *)
EndsAt(s, next) ==
    \E first \in 1..next :
        Len(s) = next - first /\ \A i \in 1..Len(s) : s[i] = (first + i) - 1

(* What a message for device a makes of the next batch, n before it: an error *)
(* may end the discovery or be one of another call.                           *)
Follows(m, a, n, next) ==
    /\ m.address # a \/ m.type \in {"read", "write", "notify"} => next = n
    /\ m.address = a /\ m.type = "services" =>
          n <= Batches /\ m.services = <<n>> /\ next = n + 1
    /\ m.address = a /\ m.type = "done" => n = Batches + 1 /\ next = 1
    /\ m.address = a /\ m.type = "error" => next = n \/ next = 1

(* The next batch that the device sends: only its oldest discovery is under way. *)
Underway(a, n) ==
    \/ n = 1 /\ \A r \in requests : Discovery(r, a) => r.batch = 1
    \/ n # 1 /\ \E r \in requests :
           /\ Discovery(r, a) /\ r.batch = n
           /\ \A o \in requests : Discovery(o, a) /\ o # r => o.batch = 1 /\ r.id < o.id

(* The message being handled is about device a and has yet to reach the table. *)
Todo(a, table) ==
    /\ dispatch.msg # NoMessage /\ dispatch.msg.address = a
    /\ \E i \in DOMAIN dispatch.left : dispatch.left[i] = table

(* What is kept of device a when the first message that waits finds batch next. *)
Kept(a, next) ==
    LET acc == pending_services[a].services
    IN  /\ Todo(a, "batch") =>
              next > 1 /\ EndsAt(acc, next - 1) /\ dispatch.msg.services = <<next - 1>>
        /\ Todo(a, "services") /\ dispatch.msg.type = "done" =>
              EndsAt(acc, Batches + 1) /\ next = 1
        /\ ~Todo(a, "batch") /\ ~Todo(a, "services") => EndsAt(acc, next)

InOrder(a) ==
    \E e \in [0..Len(inbox) -> 1..(Batches + 1)] :
        /\ Kept(a, e[0])
        /\ \A i \in 1..Len(inbox) : Follows(inbox[i], a, e[i - 1], e[i])
        /\ Underway(a, e[Len(inbox)])

BatchesInOrder == \A a \in Addresses : InOrder(a)

(* The services are the last table that a message looks at. *)
LookedAtLast ==
    \A i \in DOMAIN dispatch.left :
        dispatch.left[i] \in {"services", "batch"} => i = Len(dispatch.left)

(* Nothing is kept before the handlers are registered. *)
NothingKept ==
    ~gatt_registered => /\ dispatch.msg = NoMessage
                        /\ \A a \in Addresses : pending_services[a].services = <<>>

OnceInOrder ==
    dispatch.msg # NoMessage /\ dispatch.msg.type = "done" =>
        \A i \in DOMAIN once : EndsAt(once[i].services, Batches + 1)

FiredInOrder ==
    \A id \in 1..MaxCalls : \A i \in DOMAIN fired[id] :
        fired[id][i].type = "done" => EndsAt(fired[id][i].services, Batches + 1)

OrderInv ==
    /\ OneRequest /\ BatchesInOrder /\ LookedAtLast /\ NothingKept
    /\ OnceInOrder /\ FiredInOrder

-----------------------------------------------------------------------------
(* Nothing kept is a run that ends anywhere, and a run takes its next batch. *)
LEMMA EndsAtFacts ==
  ASSUME NEW n \in Nat, n >= 1
  PROVE  /\ EndsAt(<<>>, n)
         /\ \A s \in Seq(Nat) : EndsAt(s, n) => EndsAt(s \o <<n>>, n + 1)
  <1>1. EndsAt(<<>>, n)
    BY DEF EndsAt
  <1>2. ASSUME NEW s \in Seq(Nat), EndsAt(s, n) PROVE EndsAt(s \o <<n>>, n + 1)
    <2> DEFINE t == s \o <<n>>
    <2>1. PICK first \in 1..n :
             Len(s) = n - first /\ \A i \in 1..Len(s) : s[i] = (first + i) - 1
      BY <1>2 DEF EndsAt
    <2>2. /\ Len(t) = Len(s) + 1 /\ t[Len(s) + 1] = n
          /\ \A i \in 1..Len(s) : t[i] = s[i]
      OBVIOUS
    <2>3. Len(t) = (n + 1) - first /\ first \in 1..(n + 1)
      BY <2>1, <2>2
    <2>4. \A i \in 1..Len(t) : t[i] = (first + i) - 1
      <3> HIDE DEF t
      <3> SUFFICES ASSUME NEW i \in 1..Len(t) PROVE t[i] = (first + i) - 1
        OBVIOUS
      <3>1. CASE i \in 1..Len(s)
        BY <3>1, <2>1, <2>2
      <3>2. CASE i = Len(s) + 1
        BY <3>2, <2>1, <2>2
      <3> QED
        BY <2>2, <3>1, <3>2
    <2> HIDE DEF t
    <2>5. EndsAt(t, n + 1)
      BY <2>3, <2>4 DEF EndsAt
    <2> QED
      BY <2>5 DEF t
  <1> QED
    BY <1>1, <1>2

(* The order stays when no message comes or goes. *)
LEMMA OrderSame ==
  ASSUME NEW a, InOrder(a), inbox' = inbox,
         \A n \in 1..(Batches + 1) : Kept(a, n) => Kept(a, n)',
         \A n \in 1..(Batches + 1) : Underway(a, n) => Underway(a, n)',
         inbox \in Seq(GattMessages)
  PROVE  InOrder(a)'
  <1>1. PICK e \in [0..Len(inbox) -> 1..(Batches + 1)] :
           /\ Kept(a, e[0])
           /\ \A i \in 1..Len(inbox) : Follows(inbox[i], a, e[i - 1], e[i])
           /\ Underway(a, e[Len(inbox)])
    BY DEF InOrder
  <1>2. e[0] \in 1..(Batches + 1) /\ e[Len(inbox)] \in 1..(Batches + 1)
    OBVIOUS
  <1>3. Kept(a, e[0])' /\ Underway(a, e[Len(inbox)])'
    BY <1>1, <1>2
  <1> QED
    BY <1>1, <1>3 DEF InOrder

(* The order stays when a message is taken whose effect is on what is kept. *)
LEMMA OrderTaken ==
  ASSUME NEW a, InOrder(a), inbox \in Seq(GattMessages), inbox # <<>>,
         inbox' = Tail(inbox),
         \A n, m \in 1..(Batches + 1) :
            Kept(a, n) /\ Follows(Head(inbox), a, n, m) => Kept(a, m)',
         \A n \in 1..(Batches + 1) : Underway(a, n) => Underway(a, n)'
  PROVE  InOrder(a)'
  <1>1. PICK e \in [0..Len(inbox) -> 1..(Batches + 1)] :
           /\ Kept(a, e[0])
           /\ \A i \in 1..Len(inbox) : Follows(inbox[i], a, e[i - 1], e[i])
           /\ Underway(a, e[Len(inbox)])
    BY DEF InOrder
  <1>l. PICK l \in Nat : l = Len(inbox) - 1
    OBVIOUS
  <1>2. /\ Len(inbox') = l /\ Len(inbox) = l + 1 /\ Head(inbox) = inbox[1]
        /\ \A i \in 1..l : inbox'[i] = inbox[i + 1]
    BY <1>l
  <1>3. \A i \in 0..(l + 1) : e[i] \in 1..(Batches + 1)
    BY <1>2
  <1>4. PICK f \in [0..l -> 1..(Batches + 1)] : f = [i \in 0..l |-> e[i + 1]]
    <2>1. \A i \in 0..l : e[i + 1] \in 1..(Batches + 1)
      BY <1>3
    <2>2. [i \in 0..l |-> e[i + 1]] \in [0..l -> 1..(Batches + 1)]
      BY <2>1
    <2> QED
      BY <2>2, Zenon
  <1>5. f[0] = e[1] /\ f[l] = e[l + 1] /\ \A i \in 1..l : f[i] = e[i + 1] /\ f[i - 1] = e[i]
    BY <1>2, <1>4
  <1>6. Follows(Head(inbox), a, e[0], e[1])
    BY <1>1, <1>2
  <1>7. Kept(a, f[0])'
    BY <1>1, <1>2, <1>3, <1>5, <1>6
  <1>8. Underway(a, f[l])'
    BY <1>1, <1>2, <1>3, <1>5
  <1>9. \A i \in 1..l : Follows(inbox'[i], a, f[i - 1], f[i])
    <2> SUFFICES ASSUME NEW i \in 1..l PROVE Follows(inbox'[i], a, f[i - 1], f[i])
      OBVIOUS
    <2>1. i + 1 \in 1..Len(inbox) /\ (i + 1) - 1 = i
      BY <1>2
    <2>2. Follows(inbox[i + 1], a, e[i], e[i + 1])
      BY <1>1, <2>1
    <2> QED
      BY <1>2, <1>5, <2>2
  <1> QED
    BY <1>2, <1>7, <1>8, <1>9 DEF InOrder

(* The order stays when the device sends what comes next. *)
LEMMA OrderSent ==
  ASSUME NEW a, InOrder(a), inbox \in Seq(GattMessages), NEW msg \in GattMessages,
         inbox' = Append(inbox, msg),
         \A n \in 1..(Batches + 1) : Kept(a, n) => Kept(a, n)',
         \A n \in 1..(Batches + 1) : Underway(a, n) =>
            \E m \in 1..(Batches + 1) : Follows(msg, a, n, m) /\ Underway(a, m)'
  PROVE  InOrder(a)'
  <1>1. PICK e \in [0..Len(inbox) -> 1..(Batches + 1)] :
           /\ Kept(a, e[0])
           /\ \A i \in 1..Len(inbox) : Follows(inbox[i], a, e[i - 1], e[i])
           /\ Underway(a, e[Len(inbox)])
    BY DEF InOrder
  <1>l. PICK l \in Nat : l = Len(inbox)
    OBVIOUS
  <1>2. /\ Len(inbox') = l + 1 /\ inbox'[l + 1] = msg
        /\ \A i \in 1..l : inbox'[i] = inbox[i]
    BY <1>l
  <1>3. \A i \in 0..l : e[i] \in 1..(Batches + 1)
    BY <1>l
  <1>4. PICK m \in 1..(Batches + 1) : Follows(msg, a, e[l], m) /\ Underway(a, m)'
    BY <1>1, <1>l, <1>3
  <1>5. PICK f \in [0..(l + 1) -> 1..(Batches + 1)] :
           f = [i \in 0..(l + 1) |-> IF i <= l THEN e[i] ELSE m]
    BY <1>3
  <1>6. f[0] = e[0] /\ f[l] = e[l] /\ f[l + 1] = m
        /\ \A i \in 1..l : f[i] = e[i] /\ f[i - 1] = e[i - 1]
    BY <1>5
  <1>7. Kept(a, f[0])' /\ Underway(a, f[l + 1])'
    BY <1>1, <1>2, <1>3, <1>4, <1>6
  <1>8. \A i \in 1..(l + 1) : Follows(inbox'[i], a, f[i - 1], f[i])
    <2> SUFFICES ASSUME NEW i \in 1..(l + 1) PROVE Follows(inbox'[i], a, f[i - 1], f[i])
      OBVIOUS
    <2>1. CASE i \in 1..l
      BY <2>1, <1>l, <1>1, <1>2, <1>6
    <2>2. CASE i = l + 1
      BY <2>2, <1>2, <1>4, <1>6
    <2> QED
      BY <1>2, <2>1, <2>2
  <1> QED
    BY <1>2, <1>7, <1>8 DEF InOrder

(* A call joins the requests behind those that the device works on. *)
LEMMA CallOrder ==
  ASSUME GattInv, OrderInv,
         NEW op \in Ops, NEW address \in Addresses, NEW handle \in HandlesAndZero,
         NEW done \in BOOLEAN, Call(op, address, handle, done),
         \A a \in Addresses :
            pending_services'[a].services = pending_services[a].services
  PROVE  OrderInv'
  <1> DEFINE n == Len(calls) + 1
             new == [id |-> n, batch |-> 1]
  <1>1. /\ n \in Nat /\ n \notin CallIds
        /\ \A id \in CallIds : calls'[id] = calls[id] /\ id # n
        /\ requests' = requests \cup {new}
        /\ gatt_registered' = (gatt_registered \/ done)
        /\ dispatch' = dispatch /\ once' = once /\ fired' = fired /\ inbox' = inbox
    BY CallFacts
  <1>2. /\ requests \subseteq [id : CallIds, batch : Nat] /\ inbox \in Seq(GattMessages)
        /\ gatt_registered \in BOOLEAN
    BY Zenon DEF GattInv, GattTypeOK
  <1>3. \A r \in requests : r.id \in CallIds /\ r.id \in Nat /\ r.id < n /\ r.id # n
    <2>1. \A id \in CallIds : id \in Nat /\ id < n
      BY GattTypes DEF GattInv, CallIds
    <2> QED
      BY <1>2, <2>1
  <1>4. new.id = n /\ new.batch = 1
    OBVIOUS
  <1> HIDE DEF new, n
  <1>5. OneRequest'
    BY <1>1, <1>3, <1>4 DEF OrderInv, OneRequest
  <1>6. \A r \in requests, a \in Addresses : Discovery(r, a)' <=> Discovery(r, a)
    BY <1>1, <1>3 DEF Discovery
  <1>7. ASSUME NEW a \in Addresses, NEW m, Underway(a, m) PROVE Underway(a, m)'
    <2>1. CASE m = 1 /\ \A r \in requests : Discovery(r, a) => r.batch = 1
      BY <2>1, <1>1, <1>4, <1>6 DEF Underway
    <2>2. CASE m # 1 /\ \E r \in requests :
             /\ Discovery(r, a) /\ r.batch = m
             /\ \A o \in requests : Discovery(o, a) /\ o # r => o.batch = 1 /\ r.id < o.id
      <3>1. PICK r \in requests :
               /\ Discovery(r, a) /\ r.batch = m
               /\ \A o \in requests : Discovery(o, a) /\ o # r => o.batch = 1 /\ r.id < o.id
        BY <2>2
      <3>2. \A o \in requests' : Discovery(o, a)' /\ o # r => o.batch = 1 /\ r.id < o.id
        BY <3>1, <1>1, <1>3, <1>4, <1>6
      <3>3. r \in requests' /\ Discovery(r, a)'
        BY <3>1, <1>1, <1>6
      <3> QED
        BY <2>2, <3>1, <3>2, <3>3 DEF Underway
    <2> QED
      BY <1>7, <2>1, <2>2 DEF Underway
  <1>8. ASSUME NEW a \in Addresses, NEW m, Kept(a, m) PROVE Kept(a, m)'
    BY <1>1, <1>8 DEF Kept, Todo
  <1>9. BatchesInOrder'
    <2> SUFFICES ASSUME NEW a \in Addresses PROVE InOrder(a)'
      BY DEF BatchesInOrder
    <2>1. InOrder(a)
      BY DEF OrderInv, BatchesInOrder
    <2> QED
      BY <1>1, <1>2, <1>7, <1>8, <2>1, OrderSame
  <1>10. LookedAtLast' /\ OnceInOrder' /\ FiredInOrder'
    BY <1>1 DEF OrderInv, LookedAtLast, OnceInOrder, FiredInOrder
  <1>11. NothingKept'
    BY <1>1, <1>2, Zenon DEF OrderInv, NothingKept
  <1> QED
    BY <1>5, <1>9, <1>10, <1>11 DEF OrderInv

(* The calls of the user. *)
LEMMA UserOrder ==
  ASSUME GattInv, OrderInv, User
  PROVE  OrderInv'
  <1>0. \A h \in Handles : h \in HandlesAndZero
    BY DEF HandlesAndZero
  <1>t. pending_services \in [Addresses -> [services : Seq(Nat), handlers : Seq(Nat)]]
    BY DEF GattInv, GattTypeOK
  <1>1. ASSUME on_handler PROVE OrderInv'
    <2>1. /\ gatt_registered' = TRUE /\ calls' = calls /\ pending_services' = pending_services
          /\ dispatch' = dispatch /\ once' = once /\ fired' = fired
          /\ requests' = requests /\ inbox' = inbox
      BY <1>1 DEF on_handler, tables
    <2>2. inbox \in Seq(GattMessages)
      BY DEF GattInv, GattTypeOK
    <2>3. ASSUME NEW a \in Addresses PROVE InOrder(a)'
      <3>1. \A m : (Kept(a, m) => Kept(a, m)') /\ (Underway(a, m) => Underway(a, m)')
        BY <2>1 DEF Kept, Todo, Underway, Discovery
      <3>2. InOrder(a)
        BY DEF OrderInv, BatchesInOrder
      <3> QED
        BY <2>1, <2>2, <3>1, <3>2, OrderSame
    <2> QED
      BY <2>1, <2>3 DEF OrderInv, OneRequest, BatchesInOrder, LookedAtLast, NothingKept,
                        OnceInOrder, FiredInOrder
  <1>2. ASSUME NEW a \in Addresses, NEW done \in BOOLEAN, NEW h \in Handles,
               read(a, h, done) \/ write(a, h, done) \/ (~done /\ notify(a, h))
        PROVE  OrderInv'
    <2>1. pending_services' = pending_services
      BY <1>2 DEF read, write, notify, tables
    <2>2. \E op \in Ops, d \in BOOLEAN : Call(op, a, h, d)
      BY <1>2, Zenon DEF read, write, notify, Ops
    <2> QED
      BY <1>0, <2>1, <2>2, CallOrder
  <1>3. ASSUME NEW a \in Addresses, NEW done \in BOOLEAN, get_services(a, done)
        PROVE  OrderInv'
    <2>1. \A b \in Addresses : pending_services'[b].services = pending_services[b].services
      BY <1>3, <1>t DEF get_services
    <2>2. Call("services", a, 0, done) /\ 0 \in HandlesAndZero /\ "services" \in Ops
      BY <1>3 DEF get_services, HandlesAndZero, Ops
    <2> QED
      BY <2>1, <2>2, CallOrder
  <1> QED
    BY <1>1, <1>2, <1>3, Zenon DEF User

(* The device answers: what comes next moves along with what it sends. *)
LEMMA AnswerOrder ==
  ASSUME GattInv, OrderInv, NEW req \in requests, NEW msg \in GattMessages, NEW req_left,
         Answer(req, msg, req_left),
         \A r, o \in req_left : r = o, \A r \in req_left : r.id = req.id,
         \A a \in Addresses : \A n \in 1..(Batches + 1) : Underway(a, n) =>
            \E m \in 1..(Batches + 1) : Follows(msg, a, n, m) /\ Underway(a, m)'
  PROVE  OrderInv'
  <1>1. /\ inbox' = Append(inbox, msg) /\ requests' = (requests \ {req}) \cup req_left
        /\ calls' = calls /\ pending_services' = pending_services /\ fired' = fired
        /\ gatt_registered' = gatt_registered /\ dispatch' = dispatch /\ once' = once
    BY DEF Answer, tables
  <1>2. inbox \in Seq(GattMessages)
    BY DEF GattInv, GattTypeOK
  <1>3. OneRequest'
    BY <1>1 DEF OrderInv, OneRequest
  <1>4. ASSUME NEW a \in Addresses PROVE InOrder(a)'
    <2>1. \A m \in 1..(Batches + 1) : Kept(a, m) => Kept(a, m)'
      BY <1>1 DEF Kept, Todo
    <2>2. InOrder(a)
      BY DEF OrderInv, BatchesInOrder
    <2> QED
      BY <1>1, <1>2, <2>1, <2>2, OrderSent
  <1> QED
    BY <1>1, <1>3, <1>4 DEF OrderInv, BatchesInOrder, LookedAtLast, NothingKept,
                            OnceInOrder, FiredInOrder

(* A request that is answered for good leaves the others as they are, and     *)
(* when it is the discovery under way the next one starts at its first batch. *)
LEMMA RequestGone ==
  ASSUME NEW a, NEW n, NEW req \in requests, Underway(a, n), calls' = calls,
         requests' = requests \ {req}
  PROVE  /\ ~(Discovery(req, a) /\ req.batch = n /\ n # 1) => Underway(a, n)'
         /\ Discovery(req, a) /\ req.batch = n => Underway(a, 1)'
  <1>0. \A r : Discovery(r, a)' <=> Discovery(r, a)
    BY DEF Discovery
  <1>1. CASE n = 1 /\ \A r \in requests : Discovery(r, a) => r.batch = 1
    BY <1>0, <1>1 DEF Underway
  <1>2. CASE n # 1 /\ \E r \in requests :
           /\ Discovery(r, a) /\ r.batch = n
           /\ \A o \in requests : Discovery(o, a) /\ o # r => o.batch = 1 /\ r.id < o.id
    <2>1. PICK r \in requests :
             /\ Discovery(r, a) /\ r.batch = n
             /\ \A o \in requests : Discovery(o, a) /\ o # r => o.batch = 1 /\ r.id < o.id
      BY <1>2
    <2>2. CASE req = r
      BY <1>0, <1>2, <2>1, <2>2 DEF Underway
    <2>3. CASE req # r
      <3>1. r \in requests' /\ \A o \in requests' : o \in requests
        BY <2>3
      <3>2. Underway(a, n)'
        BY <1>0, <1>2, <2>1, <3>1 DEF Underway
      <3>3. ~(Discovery(req, a) /\ req.batch = n)
        BY <1>2, <2>1, <2>3
      <3> QED
        BY <3>2, <3>3
    <2> QED
      BY <2>2, <2>3
  <1> QED
    BY <1>1, <1>2 DEF Underway

(* The discovery that the device works on is the one under way. *)
LEMMA DiscoveringIs ==
  ASSUME GattInv, OrderInv, NEW req \in requests, Discovering(req), NEW n,
         NEW a, a = calls[req.id].address, Underway(a, n)
  PROVE  /\ Discovery(req, a) /\ req.batch = n
         /\ \A o \in requests : Discovery(o, a) /\ o # req => o.batch = 1 /\ req.id < o.id
  <1>1. \A o \in requests : o.id \in Nat
    BY GattTypes DEF GattInv, GattTypeOK
  <1>2. Discovery(req, a)
    BY DEF Discovering, Discovery
  <1>3. \A o \in requests : Discovery(o, a) => req.id <= o.id
    BY DEF Discovering, Discovery
  <1>4. \A o \in requests : o # req => o.id # req.id
    BY DEF OrderInv, OneRequest
  <1>5. \A o \in requests : Discovery(o, a) /\ o # req => req.id < o.id
    BY <1>1, <1>3, <1>4
  <1>6. CASE n = 1 /\ \A r \in requests : Discovery(r, a) => r.batch = 1
    BY <1>2, <1>5, <1>6
  <1>7. CASE n # 1 /\ \E r \in requests :
           /\ Discovery(r, a) /\ r.batch = n
           /\ \A o \in requests : Discovery(o, a) /\ o # r => o.batch = 1 /\ r.id < o.id
    <2>1. PICK r \in requests :
             /\ Discovery(r, a) /\ r.batch = n
             /\ \A o \in requests : Discovery(o, a) /\ o # r => o.batch = 1 /\ r.id < o.id
      BY <1>7
    <2>2. r = req
      BY <1>1, <1>2, <1>3, <2>1
    <2> QED
      BY <1>2, <2>1, <2>2
  <1> QED
    BY <1>6, <1>7 DEF Underway

(* Whatever the device does with a request. *)
LEMMA DeviceOrder ==
  ASSUME GattInv, OrderInv, Device
  PROVE  OrderInv'
  <1>0. PICK req \in requests :
           DeviceError(req) \/ DeviceResponds(req) \/ DeviceBatch(req) \/ DeviceDone(req)
    BY DEF Device
  <1> DEFINE b == calls[req.id].address
             op == calls[req.id].op
  <1>1. /\ req \in [id : CallIds, batch : Nat] /\ req.id \in CallIds /\ req.batch \in Nat
        /\ b \in Addresses /\ calls[req.id].handle \in HandlesAndZero /\ op \in Ops
    <2>1. req \in [id : CallIds, batch : Nat]
      BY DEF GattInv, GattTypeOK
    <2>2. req.id \in CallIds /\ req.batch \in Nat
      BY <2>1
    <2>3. calls[req.id] \in CallRecords
      BY <2>2, GattTypes DEF GattInv
    <2> QED
      BY <2>1, <2>2, <2>3 DEF CallRecords
  <1>2. \A a : Discovery(req, a) <=> (op = "services" /\ b = a)
    BY DEF Discovery
  <1>3. ASSUME NEW type \in MessageTypes, NEW services \in Seq(Nat)
        PROVE  LET m == Message(type, req.id, services)
               IN  /\ m \in GattMessages /\ m.type = type /\ m.address = b
                   /\ m.services = services
    <2>1. req.id \in Nat
      BY <1>1 DEF CallIds
    <2> QED
      BY <1>1, <2>1 DEF Message, GattMessages
  <1>4. ASSUME DeviceError(req) \/ DeviceResponds(req) \/ DeviceDone(req) PROVE OrderInv'
    <2>1. PICK type \in MessageTypes :
             /\ Answer(req, Message(type, req.id, <<>>), {})
             /\ \/ type = "error"
                \/ type \in {"read", "write", "notify"} /\ op # "services"
                \/ type = "done" /\ Discovering(req) /\ req.batch > Batches
      BY <1>4 DEF DeviceError, DeviceResponds, DeviceDone, MessageTypes
    <2> DEFINE m == Message(type, req.id, <<>>)
    <2>2. m \in GattMessages /\ m.type = type /\ m.address = b
      <3>1. <<>> \in Seq(Nat)
        OBVIOUS
      <3> QED
        BY <3>1, <1>3
    <2>3. requests' = requests \ {req} /\ calls' = calls
      BY <2>1 DEF Answer
    <2> HIDE DEF m, b, op
    <2>4. ASSUME NEW a \in Addresses, NEW n \in 1..(Batches + 1), Underway(a, n)
          PROVE  \E k \in 1..(Batches + 1) : Follows(m, a, n, k) /\ Underway(a, k)'
      <3>1. /\ ~(Discovery(req, a) /\ req.batch = n /\ n # 1) => Underway(a, n)'
            /\ Discovery(req, a) /\ req.batch = n => Underway(a, 1)'
        BY <2>3, <2>4, RequestGone
      <3>2. n \in 1..(Batches + 1) /\ 1 \in 1..(Batches + 1)
        BY GattAssumption
      <3>3. CASE type = "error" /\ a = b
        <4>1. Follows(m, a, n, n) /\ Follows(m, a, n, 1)
          BY <2>2, <3>3 DEF Follows
        <4> QED
          BY <3>1, <3>2, <4>1
      <3>4. CASE a # b \/ (type \in {"read", "write", "notify"} /\ op # "services")
        <4>1. Follows(m, a, n, n)
          BY <2>2, <3>4 DEF Follows
        <4>2. ~Discovery(req, a)
          BY <1>2, <3>4
        <4> QED
          BY <3>1, <3>2, <4>1, <4>2
      <3>5. CASE a = b /\ type = "done" /\ Discovering(req) /\ req.batch > Batches
        <4>1. Discovery(req, a) /\ req.batch = n
          BY <3>5, <2>4, DiscoveringIs DEF b
        <4>2. n = Batches + 1
          BY <4>1, <3>5, GattAssumption
        <4>3. Follows(m, a, n, 1)
          BY <2>2, <3>5, <4>2 DEF Follows
        <4> QED
          BY <3>1, <3>2, <4>1, <4>3
      <3> QED
        BY <2>1, <3>3, <3>4, <3>5 DEF op
    <2>5. Answer(req, m, {})
      BY <2>1 DEF m
    <2> QED
      BY <2>2, <2>4, <2>5, AnswerOrder
  <1>5. ASSUME DeviceBatch(req) PROVE OrderInv'
    <2> DEFINE m == Message("services", req.id, <<req.batch>>)
               next_req == [req EXCEPT !.batch = @ + 1]
    <2>1. Discovering(req) /\ req.batch <= Batches /\ Answer(req, m, {next_req})
      BY <1>5 DEF DeviceBatch
    <2>2. m \in GattMessages /\ m.type = "services" /\ m.address = b
          /\ m.services = <<req.batch>>
      <3>1. <<req.batch>> \in Seq(Nat) /\ "services" \in MessageTypes
        BY <1>1 DEF MessageTypes
      <3> QED
        BY <3>1, <1>3
    <2>3. next_req.id = req.id /\ next_req.batch = req.batch + 1
      BY <1>1
    <2>4. requests' = (requests \ {req}) \cup {next_req} /\ calls' = calls
      BY <2>1 DEF Answer
    <2>5. \A r, a : Discovery(r, a)' <=> Discovery(r, a)
      BY <2>4 DEF Discovery
    <2>6. \A a : Discovery(next_req, a) <=> Discovery(req, a)
      BY <2>3 DEF Discovery
    <2> HIDE DEF m, b, op, next_req
    <2>7. ASSUME NEW a \in Addresses, NEW n \in 1..(Batches + 1), Underway(a, n)
          PROVE  \E k \in 1..(Batches + 1) : Follows(m, a, n, k) /\ Underway(a, k)'
      <3>1. CASE a = b
        <4>1. /\ Discovery(req, a) /\ req.batch = n
              /\ \A o \in requests : Discovery(o, a) /\ o # req => o.batch = 1 /\ req.id < o.id
          BY <2>1, <2>7, <3>1, DiscoveringIs DEF b
        <4>2. n + 1 \in 1..(Batches + 1) /\ n + 1 # 1 /\ n <= Batches
          BY <2>1, <4>1, GattAssumption
        <4>3. Follows(m, a, n, n + 1)
          BY <2>2, <3>1, <4>1, <4>2 DEF Follows
        <4>4. /\ next_req \in requests' /\ Discovery(next_req, a)' /\ next_req.batch = n + 1
              /\ \A o \in requests' : Discovery(o, a)' /\ o # next_req =>
                    o.batch = 1 /\ next_req.id < o.id
          BY <2>3, <2>4, <2>5, <2>6, <4>1
        <4>5. Underway(a, n + 1)'
          BY <4>2, <4>4 DEF Underway
        <4> QED
          BY <4>2, <4>3, <4>5
      <3>2. CASE a # b
        <4>1. Follows(m, a, n, n)
          BY <2>2, <3>2 DEF Follows
        <4>2. ~Discovery(req, a) /\ ~Discovery(next_req, a)
          BY <1>2, <2>6, <3>2
        <4>3. /\ \A r : r \in requests' /\ Discovery(r, a)' =>
                    r \in requests /\ Discovery(r, a)
              /\ \A r : r \in requests /\ Discovery(r, a) =>
                    r \in requests' /\ Discovery(r, a)'
          BY <2>4, <2>5, <4>2
        <4>4. Underway(a, n)'
          BY <2>7, <4>3 DEF Underway
        <4> QED
          BY <4>1, <4>4
      <3> QED
        BY <3>1, <3>2
    <2>8. /\ \A r, o \in {next_req} : r = o
          /\ \A r \in {next_req} : r.id = req.id
      BY <2>3
    <2> QED
      BY <2>1, <2>2, <2>7, <2>8, AnswerOrder
  <1> QED
    BY <1>0, <1>4, <1>5

(* A message that nobody listens to: nothing was kept that it belongs to. *)
LEMMA IgnoreOrder ==
  ASSUME GattInv, OrderInv, ignore
  PROVE  OrderInv'
  <1>1. /\ ~gatt_registered /\ inbox # <<>> /\ inbox' = Tail(inbox)
        /\ calls' = calls /\ pending_services' = pending_services /\ fired' = fired
        /\ gatt_registered' = gatt_registered /\ dispatch' = dispatch /\ once' = once
        /\ requests' = requests
    BY DEF ignore, tables
  <1>2. inbox \in Seq(GattMessages)
    BY DEF GattInv, GattTypeOK
  <1>3. ASSUME NEW a \in Addresses PROVE InOrder(a)'
    <2>1. pending_services[a].services = <<>> /\ dispatch.msg = NoMessage
      BY <1>1 DEF OrderInv, NothingKept
    <2>2. ASSUME NEW n \in 1..(Batches + 1) PROVE EndsAt(<<>>, n)
      <3>1. n \in Nat /\ n >= 1
        BY GattAssumption
      <3> QED
        BY <3>1, EndsAtFacts, Zenon
    <2>3. \A n \in 1..(Batches + 1) : Kept(a, n)'
      BY <1>1, <2>1, <2>2 DEF Kept, Todo
    <2>4. \A n : Underway(a, n) => Underway(a, n)'
      BY <1>1 DEF Underway, Discovery
    <2>5. InOrder(a)
      BY DEF OrderInv, BatchesInOrder
    <2> QED
      BY <1>1, <1>2, <2>3, <2>4, <2>5, OrderTaken
  <1> QED
    BY <1>1, <1>3 DEF OrderInv, OneRequest, BatchesInOrder, LookedAtLast, NothingKept,
                      OnceInOrder, FiredInOrder

(* The tables of a message, for the order: batches and the rest are looked at *)
(* last.                                                                      *)
LEMMA LookupOrder ==
  ASSUME NEW m \in GattMessages
  PROVE  LET left == Lookups(m.type)
         IN  /\ \A i \in DOMAIN left : left[i] \in {"services", "batch"} => i = Len(left)
             /\ (\E i \in DOMAIN left : left[i] = "batch") <=> m.type = "services"
             /\ (\E i \in DOMAIN left : left[i] = "services") <=> m.type \in {"done", "error"}
  <1> DEFINE left == Lookups(m.type)
  <1>1. m.type \in MessageTypes
    BY DEF GattMessages
  <1>2. CASE m.type \in {"read", "write"}
    <2>1. DOMAIN left = {1} /\ left[1] = m.type
      <3>1. CASE m.type = "read"
        BY <3>1 DEF Lookups
      <3>2. CASE m.type = "write"
        BY <3>2 DEF Lookups
      <3> QED
        BY <1>2, <3>1, <3>2
    <2> QED
      BY <1>2, <2>1
  <1>3. CASE m.type = "notify"
    BY <1>3 DEF Lookups
  <1>4. CASE m.type = "services"
    <2>1. DOMAIN left = {1} /\ left[1] = "batch" /\ Len(left) = 1
      BY <1>4 DEF Lookups
    <2> QED
      BY <1>4, <2>1
  <1>5. CASE m.type = "done"
    <2>1. DOMAIN left = {1} /\ left[1] = "services" /\ Len(left) = 1
      BY <1>5 DEF Lookups
    <2> QED
      BY <1>5, <2>1
  <1>6. CASE m.type = "error"
    <2>1. left = <<"read", "write", "services">>
      BY <1>6 DEF Lookups
    <2>2. /\ DOMAIN left = {1, 2, 3} /\ left[1] = "read" /\ left[2] = "write"
          /\ left[3] = "services" /\ Len(left) = 3
      BY <2>1
    <2> QED
      BY <1>6, <2>2
  <1> QED
    BY <1>1, <1>2, <1>3, <1>4, <1>5, <1>6 DEF MessageTypes

(* The next message is dispatched: what it adds is due, not yet kept. *)
LEMMA ReceiveOrder ==
  ASSUME GattInv, OrderInv, receive
  PROVE  OrderInv'
  <1> DEFINE m == Head(inbox)
  <1>1. /\ dispatch.msg = NoMessage /\ inbox # <<>> /\ inbox' = Tail(inbox)
        /\ dispatch' = [msg |-> m, left |-> Lookups(m.type)]
        /\ calls' = calls /\ pending_services' = pending_services /\ fired' = fired
        /\ gatt_registered /\ gatt_registered' = gatt_registered /\ once' = once
        /\ requests' = requests
    BY DEF receive, tables
  <1>2. inbox \in Seq(GattMessages) /\ m \in GattMessages
    <2>1. inbox \in Seq(GattMessages)
      BY DEF GattInv, GattTypeOK
    <2> QED
      BY <1>1, <2>1
  <1>3. m # NoMessage /\ m.type \in MessageTypes /\ m.address \in Addresses
    BY <1>2 DEF GattMessages, NoMessage, MessageTypes
  <1>4. dispatch'.msg = m /\ dispatch'.left = Lookups(m.type)
    BY <1>1
  <1>5. dispatch.left = <<>> /\ once = <<>>
    BY <1>1 DEF GattInv, DispatchPlaced
  <1> HIDE DEF m
  <1>6. /\ LookedAtLast'
        /\ \A a : Todo(a, "batch")' <=> m.address = a /\ m.type = "services"
        /\ \A a : Todo(a, "services")' <=> m.address = a /\ m.type \in {"done", "error"}
    <2> DEFINE left == Lookups(m.type)
    <2>1. /\ \A i \in DOMAIN left : left[i] \in {"services", "batch"} => i = Len(left)
          /\ (\E i \in DOMAIN left : left[i] = "batch") <=> m.type = "services"
          /\ (\E i \in DOMAIN left : left[i] = "services") <=> m.type \in {"done", "error"}
      BY <1>2, LookupOrder
    <2>2. dispatch'.left = left /\ dispatch'.msg = m
      BY <1>4
    <2> HIDE DEF left
    <2>3. LookedAtLast'
      BY <2>1, <2>2, Zenon DEF LookedAtLast
    <2>4. ASSUME NEW a
          PROVE  /\ Todo(a, "batch")' <=> m.address = a /\ m.type = "services"
                 /\ Todo(a, "services")' <=> m.address = a /\ m.type \in {"done", "error"}
      BY <1>3, <2>1, <2>2, Zenon DEF Todo
    <2> QED
      BY <2>3, <2>4, Zenon
  <1>7. ASSUME NEW a \in Addresses PROVE InOrder(a)'
    <2>1. \A n \in 1..(Batches + 1) : Kept(a, n) => EndsAt(pending_services[a].services, n)
      BY <1>1 DEF Kept, Todo
    <2>2. ASSUME NEW n \in 1..(Batches + 1), NEW k \in 1..(Batches + 1), Kept(a, n),
                 Follows(m, a, n, k)
          PROVE  Kept(a, k)'
      <3>1. EndsAt(pending_services[a].services, n)
        BY <2>1, <2>2
      <3>2. CASE m.address # a \/ m.type \in {"read", "write", "notify"}
        BY <1>1, <1>6, <2>2, <3>1, <3>2 DEF Kept, Follows
      <3>3. CASE m.address = a /\ m.type = "services"
        <4>1. k = n + 1 /\ k - 1 = n /\ k > 1 /\ m.services = <<n>>
          BY <2>2, <3>3, GattAssumption DEF Follows
        <4> QED
          BY <1>1, <1>4, <1>6, <3>1, <3>3, <4>1 DEF Kept
      <3>4. CASE m.address = a /\ m.type = "done"
        BY <1>1, <1>6, <2>2, <3>1, <3>4 DEF Kept, Follows
      <3>5. CASE m.address = a /\ m.type = "error"
        BY <1>4, <1>6, <3>5 DEF Kept
      <3> QED
        BY <1>3, <3>2, <3>3, <3>4, <3>5 DEF MessageTypes
    <2>3. \A n : Underway(a, n) => Underway(a, n)'
      BY <1>1 DEF Underway, Discovery
    <2>4. InOrder(a)
      BY DEF OrderInv, BatchesInOrder
    <2> QED
      BY <1>1, <1>2, <2>2, <2>3, <2>4, OrderTaken DEF m
  <1>8. OneRequest' /\ FiredInOrder' /\ NothingKept'
    BY <1>1 DEF OrderInv, OneRequest, FiredInOrder, NothingKept
  <1>9. OnceInOrder'
    BY <1>1, <1>5 DEF OnceInOrder
  <1> QED
    BY <1>6, <1>7, <1>8, <1>9 DEF OrderInv, BatchesInOrder

(* Looking at a table takes it off the list; the services come last. *)
LEMMA LookingOrder ==
  ASSUME GattInv, OrderInv, NEW t \in Tables, Looking(t)
  PROVE  /\ LookedAtLast' /\ OneRequest' /\ FiredInOrder'
         /\ dispatch.msg # NoMessage /\ dispatch'.msg = dispatch.msg
         /\ dispatch.msg.address \in Addresses /\ once = <<>>
         /\ gatt_registered /\ gatt_registered' = gatt_registered
         /\ inbox' = inbox /\ inbox \in Seq(GattMessages)
         /\ Todo(dispatch.msg.address, t)
         /\ \A a, n : Underway(a, n) => Underway(a, n)'
         /\ \A a, u : u # t => (Todo(a, u)' <=> Todo(a, u))
         /\ t \in {"services", "batch"} => \A a, u : ~Todo(a, u)'
  <1>1. /\ dispatch.left # <<>> /\ Head(dispatch.left) = t /\ once = <<>>
        /\ dispatch' = [dispatch EXCEPT !.left = Tail(@)]
        /\ calls' = calls /\ gatt_registered' = gatt_registered /\ fired' = fired
        /\ requests' = requests /\ inbox' = inbox
    BY DEF Looking
  <1>2. /\ dispatch \in [msg : GattMessages \cup {NoMessage}, left : Seq(Tables)]
        /\ dispatch.left \in Seq(Tables) /\ inbox \in Seq(GattMessages)
    BY DEF GattInv, GattTypeOK
  <1>3. /\ dispatch.msg # NoMessage /\ dispatch'.msg = dispatch.msg
        /\ dispatch.msg.address \in Addresses
    BY LookingFacts
  <1>4. dispatch'.left = Tail(dispatch.left)
    BY <1>1, <1>2
  <1>5. /\ 1 \in DOMAIN dispatch.left /\ dispatch.left[1] = t
        /\ Len(Tail(dispatch.left)) = Len(dispatch.left) - 1 /\ Len(dispatch.left) \in Nat
        /\ DOMAIN Tail(dispatch.left) = 1..(Len(dispatch.left) - 1)
        /\ \A i \in DOMAIN Tail(dispatch.left) :
              i + 1 \in DOMAIN dispatch.left /\ Tail(dispatch.left)[i] = dispatch.left[i + 1]
    BY <1>1, <1>2, Taken
  <1>6. LookedAtLast'
    <2> SUFFICES ASSUME NEW i \in DOMAIN Tail(dispatch.left),
                        Tail(dispatch.left)[i] \in {"services", "batch"}
                 PROVE  i = Len(Tail(dispatch.left))
      BY <1>4 DEF LookedAtLast
    <2>1. i + 1 = Len(dispatch.left)
      BY <1>5, Zenon DEF OrderInv, LookedAtLast
    <2> QED
      BY <1>5, <2>1
  <1>7. gatt_registered
    BY <1>3 DEF OrderInv, NothingKept
  <1>8. \A a, u : u # t => (Todo(a, u)' <=> Todo(a, u))
    BY <1>3, LookingFacts, Zenon DEF Todo
  <1>9. t \in {"services", "batch"} => \A a, u : ~Todo(a, u)'
    <2> SUFFICES ASSUME t \in {"services", "batch"} PROVE DOMAIN Tail(dispatch.left) = {}
      BY <1>4 DEF Todo
    <2>1. Len(dispatch.left) = 1
      BY <1>5 DEF OrderInv, LookedAtLast
    <2> QED
      BY <1>5, <2>1
  <1>10. OneRequest' /\ FiredInOrder' /\ \A a, n : Underway(a, n) => Underway(a, n)'
    BY <1>1 DEF OrderInv, OneRequest, FiredInOrder, Underway, Discovery
  <1>11. Todo(dispatch.msg.address, t)
    BY <1>3, <1>5 DEF Todo
  <1> QED
    BY <1>1, <1>2, <1>3, <1>6, <1>7, <1>8, <1>9, <1>10, <1>11

(* The reads and writes have no part in the order. *)
LEMMA LookOthersOrder ==
  ASSUME GattInv, OrderInv, look_reads \/ look_writes
  PROVE  OrderInv'
  <1>1. PICK t \in Tables : Looking(t) /\ t \in {"read", "write"}
    BY DEF look_reads, look_writes, Tables
  <1>2. pending_services' = pending_services
    BY DEF look_reads, look_writes
  <1>3. /\ LookedAtLast' /\ OneRequest' /\ FiredInOrder'
        /\ dispatch.msg # NoMessage /\ dispatch'.msg = dispatch.msg
        /\ gatt_registered /\ gatt_registered' = gatt_registered
        /\ inbox' = inbox /\ inbox \in Seq(GattMessages)
        /\ \A a, n : Underway(a, n) => Underway(a, n)'
        /\ \A a, u : u # t => (Todo(a, u)' <=> Todo(a, u))
    BY <1>1, LookingOrder, Zenon
  <1>4. ASSUME NEW a \in Addresses PROVE InOrder(a)'
    <2>1. /\ Todo(a, "batch")' <=> Todo(a, "batch")
          /\ Todo(a, "services")' <=> Todo(a, "services")
      BY <1>1, <1>3
    <2>2. \A n : Kept(a, n) => Kept(a, n)'
      BY <1>2, <1>3, <2>1 DEF Kept
    <2>3. InOrder(a)
      BY DEF OrderInv, BatchesInOrder
    <2> QED
      BY <1>3, <2>2, <2>3, OrderSame
  <1>5. dispatch.msg.type # "done"
    BY <1>1, LookingFacts
  <1>6. NothingKept' /\ OnceInOrder'
    BY <1>3, <1>5 DEF NothingKept, OnceInOrder
  <1> QED
    BY <1>3, <1>4, <1>6 DEF OrderInv, BatchesInOrder

(* A batch joins the run it belongs to. *)
LEMMA KeepBatchOrder ==
  ASSUME GattInv, OrderInv, keep_batch
  PROVE  OrderInv'
  <1> DEFINE b == dispatch.msg.address
             t == pending_services[b].services \o dispatch.msg.services
  <1>1. Looking("batch") /\ "batch" \in Tables
    BY DEF keep_batch, Tables
  <1>2. /\ pending_services' = [pending_services EXCEPT ![b].services = t]
        /\ once' = once
    BY DEF keep_batch
  <1>3. /\ LookedAtLast' /\ OneRequest' /\ FiredInOrder'
        /\ dispatch.msg # NoMessage /\ dispatch'.msg = dispatch.msg
        /\ b \in Addresses /\ once = <<>>
        /\ gatt_registered /\ gatt_registered' = gatt_registered
        /\ inbox' = inbox /\ inbox \in Seq(GattMessages)
        /\ Todo(b, "batch")
        /\ \A a, n : Underway(a, n) => Underway(a, n)'
        /\ \A a, u : ~Todo(a, u)'
    BY <1>1, LookingOrder, Zenon
  <1>4. dispatch.msg.type = "services"
    BY <1>1, LookingFacts
  <1>5. pending_services \in [Addresses -> [services : Seq(Nat), handlers : Seq(Nat)]]
    BY DEF GattInv, GattTypeOK
  <1>6. /\ pending_services'[b].services = t
        /\ \A a \in Addresses : a # b => pending_services'[a] = pending_services[a]
    BY <1>2, <1>3, <1>5
  <1> HIDE DEF t
  <1>7. ASSUME NEW a \in Addresses PROVE InOrder(a)'
    <2>1. ASSUME NEW n \in 1..(Batches + 1), Kept(a, n) PROVE Kept(a, n)'
      <3>1. CASE a = b
        <4>1. /\ n > 1 /\ EndsAt(pending_services[b].services, n - 1)
              /\ dispatch.msg.services = <<n - 1>>
          BY <1>3, <2>1, <3>1 DEF Kept
        <4>2. n - 1 \in Nat /\ n - 1 >= 1 /\ (n - 1) + 1 = n
          BY <4>1
        <4>3. pending_services[b].services \in Seq(Nat)
          BY <1>3, <1>5
        <4>4. EndsAt(t, (n - 1) + 1)
          BY <4>1, <4>2, <4>3, EndsAtFacts, Zenon DEF t
        <4>5. EndsAt(t, n)
          BY <4>2, <4>4, Zenon
        <4> QED
          BY <1>3, <1>6, <3>1, <4>5 DEF Kept
      <3>2. CASE a # b
        <4>1. ~Todo(a, "batch") /\ ~Todo(a, "services")
          BY <3>2 DEF Todo
        <4>2. EndsAt(pending_services[a].services, n)
          BY <2>1, <4>1 DEF Kept
        <4> QED
          BY <1>3, <1>6, <3>2, <4>2 DEF Kept
      <3> QED
        BY <3>1, <3>2
    <2>2. InOrder(a)
      BY DEF OrderInv, BatchesInOrder
    <2> QED
      BY <1>3, <2>1, <2>2, OrderSame
  <1>8. NothingKept' /\ OnceInOrder'
    BY <1>2, <1>3, <1>4 DEF NothingKept, OnceInOrder
  <1> QED
    BY <1>3, <1>7, <1>8 DEF OrderInv, BatchesInOrder

(* Done hands over a run that ends with the last batch; nothing stays behind. *)
LEMMA LookServicesOrder ==
  ASSUME GattInv, OrderInv, look_services
  PROVE  OrderInv'
  <1> DEFINE b == dispatch.msg.address
             acc == pending_services[b]
  <1>1. Looking("services") /\ "services" \in Tables
    BY DEF look_services, Tables
  <1>2. /\ pending_services' = [pending_services EXCEPT ![b] = NoServices]
        /\ once' = [i \in DOMAIN acc.handlers |->
                       [id |-> acc.handlers[i],
                        services |-> IF dispatch.msg.type = "done" THEN acc.services
                                                                   ELSE <<>>]]
    BY DEF look_services
  <1>3. /\ LookedAtLast' /\ OneRequest' /\ FiredInOrder'
        /\ dispatch.msg # NoMessage /\ dispatch'.msg = dispatch.msg
        /\ b \in Addresses
        /\ gatt_registered /\ gatt_registered' = gatt_registered
        /\ inbox' = inbox /\ inbox \in Seq(GattMessages)
        /\ Todo(b, "services")
        /\ \A a, n : Underway(a, n) => Underway(a, n)'
        /\ \A a, u : ~Todo(a, u)'
    BY <1>1, LookingOrder, Zenon
  <1>4. dispatch.msg.type \in {"done", "error"}
    BY <1>1, LookingFacts
  <1>5. pending_services \in [Addresses -> [services : Seq(Nat), handlers : Seq(Nat)]]
    BY DEF GattInv, GattTypeOK
  <1>6. /\ pending_services'[b].services = <<>>
        /\ \A a \in Addresses : a # b => pending_services'[a] = pending_services[a]
    BY <1>2, <1>3, <1>5 DEF NoServices
  <1>7. ASSUME NEW a \in Addresses PROVE InOrder(a)'
    <2>1. ASSUME NEW n \in 1..(Batches + 1), Kept(a, n) PROVE Kept(a, n)'
      <3>1. CASE a = b
        <4>1. n \in Nat /\ n >= 1
          BY GattAssumption
        <4>2. EndsAt(<<>>, n)
          BY <4>1, EndsAtFacts, Zenon
        <4> QED
          BY <1>3, <1>6, <3>1, <4>2 DEF Kept
      <3>2. CASE a # b
        <4>1. ~Todo(a, "batch") /\ ~Todo(a, "services")
          BY <3>2 DEF Todo
        <4>2. EndsAt(pending_services[a].services, n)
          BY <2>1, <4>1 DEF Kept
        <4> QED
          BY <1>3, <1>6, <3>2, <4>2 DEF Kept
      <3> QED
        BY <3>1, <3>2
    <2>2. InOrder(a)
      BY DEF OrderInv, BatchesInOrder
    <2> QED
      BY <1>3, <2>1, <2>2, OrderSame
  <1>8. ASSUME dispatch.msg.type = "done" PROVE EndsAt(acc.services, Batches + 1)
    <2>1. InOrder(b)
      BY <1>3 DEF OrderInv, BatchesInOrder
    <2>2. PICK n : Kept(b, n)
      BY <2>1 DEF InOrder
    <2> QED
      BY <1>3, <1>8, <2>2 DEF Kept
  <1>9. OnceInOrder'
    <2> SUFFICES ASSUME dispatch.msg.type = "done", NEW i \in DOMAIN once'
                 PROVE  EndsAt(once'[i].services, Batches + 1)
      BY <1>3 DEF OnceInOrder
    <2>1. once'[i].services = acc.services
      BY <1>2
    <2> QED
      BY <1>8, <2>1
  <1>10. NothingKept'
    BY <1>3 DEF NothingKept
  <1> QED
    BY <1>3, <1>7, <1>9, <1>10 DEF OrderInv, BatchesInOrder

(* A callback runs with what was handed over. *)
LEMMA RunCallbackOrder ==
  ASSUME GattInv, OrderInv, run_callback
  PROVE  OrderInv'
  <1> DEFINE m == [dispatch.msg EXCEPT !.services = Head(once).services]
             h == Head(once).id
  <1>1. /\ once # <<>> /\ once' = Tail(once)
        /\ fired' = [fired EXCEPT ![h] = Append(@, m)]
        /\ calls' = calls /\ pending_services' = pending_services
        /\ gatt_registered' = gatt_registered /\ dispatch' = dispatch
        /\ requests' = requests /\ inbox' = inbox
    BY DEF run_callback, tables
  <1>2. /\ once \in Seq(OnceEntries) /\ inbox \in Seq(GattMessages)
        /\ fired \in [1..MaxCalls -> Seq(GattMessages)]
        /\ dispatch \in [msg : GattMessages \cup {NoMessage}, left : Seq(Tables)]
    BY DEF GattInv, GattTypeOK
  <1>3. dispatch.msg # NoMessage /\ dispatch.msg \in GattMessages
    BY <1>1, <1>2 DEF GattInv, DispatchPlaced
  <1>4. /\ 1 \in DOMAIN once /\ Head(once) = once[1]
        /\ \A i \in DOMAIN Tail(once) : i + 1 \in DOMAIN once /\ Tail(once)[i] = once[i + 1]
    BY <1>1, <1>2
  <1>5. m.type = dispatch.msg.type /\ m.services = once[1].services
    BY <1>3, <1>4 DEF GattMessages
  <1>6. ASSUME dispatch.msg.type = "done", NEW i \in DOMAIN once
        PROVE  EndsAt(once[i].services, Batches + 1)
    BY <1>3, <1>6 DEF OrderInv, OnceInOrder
  <1>7. OnceInOrder'
    BY <1>1, <1>4, <1>6 DEF OnceInOrder
  <1> HIDE DEF m, h
  <1>8. FiredInOrder'
    <2> SUFFICES ASSUME NEW id \in 1..MaxCalls, NEW i \in DOMAIN fired'[id],
                        fired'[id][i].type = "done"
                 PROVE  EndsAt(fired'[id][i].services, Batches + 1)
      BY DEF FiredInOrder
    <2>1. CASE id # h
      <3>1. fired'[id] = fired[id]
        BY <1>1, <1>2, <2>1
      <3> QED
        BY <3>1 DEF OrderInv, FiredInOrder
    <2>2. CASE id = h
      <3>1. fired'[id] = Append(fired[id], m) /\ fired[id] \in Seq(GattMessages)
        BY <1>1, <1>2, <2>2
      <3>2. CASE i \in DOMAIN fired[id]
        <4>1. fired'[id][i] = fired[id][i]
          BY <3>1, <3>2
        <4> QED
          BY <3>2, <4>1 DEF OrderInv, FiredInOrder
      <3>3. CASE i \notin DOMAIN fired[id]
        <4>1. fired'[id][i] = m
          BY <3>1, <3>3
        <4> QED
          BY <1>4, <1>5, <1>6, <4>1
      <3> QED
        BY <3>2, <3>3
    <2> QED
      BY <2>1, <2>2
  <1>9. ASSUME NEW a \in Addresses PROVE InOrder(a)'
    <2>1. \A n : (Kept(a, n) => Kept(a, n)') /\ (Underway(a, n) => Underway(a, n)')
      BY <1>1 DEF Kept, Todo, Underway, Discovery
    <2>2. InOrder(a)
      BY DEF OrderInv, BatchesInOrder
    <2> QED
      BY <1>1, <1>2, <2>1, <2>2, OrderSame
  <1>10. OneRequest' /\ LookedAtLast' /\ NothingKept'
    BY <1>1 DEF OrderInv, OneRequest, LookedAtLast, NothingKept
  <1> QED
    BY <1>7, <1>8, <1>9, <1>10 DEF OrderInv, BatchesInOrder

(* A message that has been handled has nothing left to do. *)
LEMMA HandledOrder ==
  ASSUME GattInv, OrderInv, handled
  PROVE  OrderInv'
  <1>1. /\ dispatch.left = <<>> /\ dispatch' = [msg |-> NoMessage, left |-> <<>>]
        /\ calls' = calls /\ pending_services' = pending_services /\ fired' = fired
        /\ gatt_registered' = gatt_registered /\ once' = once
        /\ requests' = requests /\ inbox' = inbox
    BY DEF handled, tables
  <1>2. inbox \in Seq(GattMessages)
    BY DEF GattInv, GattTypeOK
  <1>3. dispatch'.msg = NoMessage /\ dispatch'.left = <<>>
    BY <1>1
  <1>4. ASSUME NEW a \in Addresses PROVE InOrder(a)'
    <2>1. \A u : ~Todo(a, u) /\ ~Todo(a, u)'
      BY <1>1, <1>3 DEF Todo
    <2>2. \A n : (Kept(a, n) => Kept(a, n)') /\ (Underway(a, n) => Underway(a, n)')
      BY <1>1, <2>1 DEF Kept, Underway, Discovery
    <2>3. InOrder(a)
      BY DEF OrderInv, BatchesInOrder
    <2> QED
      BY <1>1, <1>2, <2>2, <2>3, OrderSame
  <1>5. LookedAtLast' /\ OnceInOrder'
    BY <1>3 DEF LookedAtLast, OnceInOrder
  <1>6. OneRequest' /\ FiredInOrder' /\ NothingKept'
    BY <1>1, <1>3 DEF OrderInv, OneRequest, FiredInOrder, NothingKept
  <1> QED
    BY <1>4, <1>5, <1>6 DEF OrderInv, BatchesInOrder

(* At first nothing is under way. *)
LEMMA OrderInit == GattInit => OrderInv
  <1> SUFFICES ASSUME GattInit PROVE OrderInv
    OBVIOUS
  <1>1. /\ calls = <<>> /\ once = <<>> /\ inbox = <<>> /\ requests = {}
        /\ dispatch = [msg |-> NoMessage, left |-> <<>>]
        /\ \A a \in Addresses : pending_services[a].services = <<>>
        /\ \A id \in 1..MaxCalls : fired[id] = <<>>
    BY DEF GattInit, NoServices
  <1>2. ASSUME NEW a \in Addresses PROVE InOrder(a)
    <2> DEFINE e == [i \in 0..0 |-> 1]
    <2>1. e \in [0..0 -> 1..(Batches + 1)] /\ e[0] = 1 /\ Len(inbox) = 0
      BY <1>1, GattAssumption
    <2>2. EndsAt(<<>>, 1)
      <3>1. 1 \in Nat /\ 1 >= 1
        OBVIOUS
      <3> QED
        BY <3>1, EndsAtFacts, Zenon
    <2>3. Kept(a, 1) /\ Underway(a, 1)
      BY <1>1, <2>2 DEF Kept, Todo, Underway
    <2> HIDE DEF e
    <2> QED
      BY <2>1, <2>3 DEF InOrder
  <1>3. OneRequest /\ LookedAtLast /\ NothingKept /\ OnceInOrder /\ FiredInOrder
    BY <1>1 DEF OneRequest, LookedAtLast, NothingKept, OnceInOrder, FiredInOrder
  <1> QED
    BY <1>2, <1>3 DEF OrderInv, BatchesInOrder

(* Every step keeps the order of the batches. *)
LEMMA OrderStep == GattInv /\ OrderInv /\ [GattNext]_gatt_vars => OrderInv'
  <1> SUFFICES ASSUME GattInv, OrderInv, [GattNext]_gatt_vars PROVE OrderInv'
    OBVIOUS
  <1>1. CASE User \/ Device
    BY <1>1, UserOrder, DeviceOrder
  <1>2. CASE Dispatch
    BY <1>2, IgnoreOrder, ReceiveOrder, LookOthersOrder, LookServicesOrder,
       KeepBatchOrder, RunCallbackOrder, HandledOrder DEF Dispatch
  <1>3. CASE UNCHANGED gatt_vars
    <2>1. /\ calls' = calls /\ gatt_registered' = gatt_registered /\ once' = once
          /\ pending_services' = pending_services /\ dispatch' = dispatch
          /\ fired' = fired /\ requests' = requests /\ inbox' = inbox
      BY <1>3, Zenon DEF gatt_vars, tables
    <2>2. inbox \in Seq(GattMessages)
      BY DEF GattInv, GattTypeOK
    <2>3. ASSUME NEW a \in Addresses PROVE InOrder(a)'
      <3>1. \A n : (Kept(a, n) => Kept(a, n)') /\ (Underway(a, n) => Underway(a, n)')
        BY <2>1 DEF Kept, Todo, Underway, Discovery
      <3>2. InOrder(a)
        BY DEF OrderInv, BatchesInOrder
      <3> QED
        BY <2>1, <2>2, <3>1, <3>2, OrderSame
    <2> QED
      BY <2>1, <2>3 DEF OrderInv, OneRequest, BatchesInOrder, LookedAtLast, NothingKept,
                        OnceInOrder, FiredInOrder
  <1> QED
    BY <1>1, <1>2, <1>3 DEF GattNext

(* A discovery is told consecutive batches of one service table, to the last  *)
(* one, whatever errors and other discoveries of the device come in between:  *)
(* pending_services_ is emptied before the next table starts.                 *)
THEOREM ServicesInOrderHolds == GattSpec => []ServicesInOrder
  <1>1. GattInv /\ OrderInv => ServicesInOrder
    <2> SUFFICES ASSUME GattInv, OrderInv, NEW id \in CallIds, NEW msg \in Results(id),
                        msg.type = "done"
                 PROVE  \E first \in 1..(Batches + 1) :
                           msg.services = [b \in 1..(Batches + 1 - first) |-> first + b - 1]
      BY DEF ServicesInOrder
    <2>1. id \in 1..MaxCalls /\ fired[id] \in Seq(GattMessages)
      BY GattTypes DEF GattInv, GattTypeOK
    <2>2. PICK i \in DOMAIN fired[id] : msg = fired[id][i]
      BY DEF Results, ToSet
    <2>3. msg.services \in Seq(Nat)
      <3>1. msg \in GattMessages
        BY <2>1, <2>2
      <3> QED
        BY <3>1 DEF GattMessages
    <2>4. EndsAt(msg.services, Batches + 1)
      BY <2>1, <2>2 DEF OrderInv, FiredInOrder
    <2>5. PICK first \in 1..(Batches + 1) :
             /\ Len(msg.services) = (Batches + 1) - first
             /\ \A j \in 1..Len(msg.services) : msg.services[j] = (first + j) - 1
      BY <2>4 DEF EndsAt
    <2>6. msg.services = [b \in 1..(Batches + 1 - first) |-> first + b - 1]
      BY <2>3, <2>5, GattAssumption
    <2> QED
      BY <2>6
  <1> QED
    BY <1>1, OrderInit, OrderStep, GattInvariance, PTL DEF GattSpec
=============================================================================
