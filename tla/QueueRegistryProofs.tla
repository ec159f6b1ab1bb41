------------------------- MODULE QueueRegistryProofs -------------------------
(***************************************************************************)
(* Proofs about QueueRegistry.tla, for any queues, any list of listeners   *)
(* and any limit of the counters.                                          *)
(***************************************************************************)
EXTENDS QueueRegistry, SequenceTheorems, TLAPS

Inv == TypeOK /\ EachListenerOnce /\ ListedMeansUsed

-----------------------------------------------------------------------------
(* Subscribed adds a subscriber that is not there yet at the end, and       *)
(* leaves an entry that holds it as it is.                                  *)
LEMMA SubscribedEntry ==
  ASSUME NEW info \in QueueInfo, NEW e \in Subscribers,
         NoneTwice(info.subscribers)
  PROVE  LET new  == Subscribed(info, e)
             subs == info.subscribers
             more == new.subscribers
         IN  /\ new \in QueueInfo
             /\ new.message_count = info.message_count
             /\ new.instantiated = info.instantiated
             /\ Elements(more) = Elements(subs) \cup {e}
             /\ NoneTwice(more)
<1> DEFINE new  == Subscribed(info, e)
           subs == info.subscribers
           more == new.subscribers
<1>1. subs \in Seq(Subscribers) /\ DOMAIN subs = 1 .. Len(subs) /\ Len(subs) \in Nat
  BY DEF QueueInfo
<1>2. CASE Holds(subs, e)
  <2>1. new = info
    BY <1>2 DEF Subscribed
  <2>2. e \in Elements(subs)
    BY <1>2 DEF Holds, Elements
  <2> QED BY <2>1, <2>2
<1>3. CASE ~Holds(subs, e)
  <2>1. new = [info EXCEPT !.subscribers = Append(subs, e)]
    BY <1>3 DEF Subscribed
  <2>2. more = Append(subs, e)
    BY <2>1 DEF QueueInfo
  <2> HIDE DEF new, subs
  <2>3. /\ more \in Seq(Subscribers) /\ Len(more) = Len(subs) + 1
        /\ \A i \in 1 .. Len(subs) : more[i] = subs[i]
        /\ more[Len(subs) + 1] = e
    BY <1>1, <2>2, AppendProperties
  <2>4. DOMAIN more = 1 .. (Len(subs) + 1)
    BY <2>3
  <2>5. new \in QueueInfo /\ new.message_count = info.message_count
        /\ new.instantiated = info.instantiated
    BY <1>1, <2>1, <2>2, <2>3 DEF QueueInfo
  <2>6. Elements(more) = Elements(subs) \cup {e}
    <3>1. ASSUME NEW i \in DOMAIN more
          PROVE  more[i] \in Elements(subs) \cup {e}
      BY <1>1, <2>3, <2>4 DEF Elements
    <3>2. ASSUME NEW i \in DOMAIN subs
          PROVE  subs[i] \in Elements(more)
      BY <1>1, <2>3, <2>4 DEF Elements
    <3>3. e \in Elements(more)
      BY <1>1, <2>3, <2>4 DEF Elements
    <3> QED BY <3>1, <3>2, <3>3 DEF Elements
  <2>7. \A i \in DOMAIN subs : subs[i] # e
    BY <1>3 DEF Holds
  <2>8. ASSUME NEW i \in DOMAIN more, NEW j \in DOMAIN more, more[i] = more[j]
        PROVE  i = j
    <3>1. (i \in DOMAIN subs \/ i = Len(subs) + 1) /\ (j \in DOMAIN subs \/ j = Len(subs) + 1)
      BY <1>1, <2>4
    <3>2. CASE i \in DOMAIN subs /\ j \in DOMAIN subs
      <4>1. subs[i] = subs[j]
        BY <1>1, <2>3, <2>8, <3>2
      <4> QED BY <3>2, <4>1 DEF subs, NoneTwice
    <3> QED BY <1>1, <2>3, <2>7, <2>8, <3>1, <3>2
  <2> QED BY <2>5, <2>6, <2>8 DEF new, subs, NoneTwice
<1> QED BY <1>2, <1>3

(* The empty registry satisfies the inductive invariant.                    *)
LEMMA InitInv == Init => Inv
<1> SUFFICES ASSUME Init PROVE Inv
  OBVIOUS
<1>1. NewQueue \in QueueInfo
  <2>1. 0 \in 0 .. MaxCount
    BY MaxCountAssumption
  <2> QED BY <2>1 DEF NewQueue, QueueInfo
<1>2. TypeOK
  BY <1>1, ListenersAssumption DEF Init, TypeOK
<1>3. EachListenerOnce
  <2> SUFFICES ASSUME NEW q \in Queues
               PROVE  /\ queues[q].subscribers = <<>>
                      /\ Declared(q, registered) = {}
    <3>1. Elements(<<>>) = {} /\ NoneTwice(<<>>)
      BY DEF Elements, NoneTwice
    <3> QED BY <3>1 DEF EachListenerOnce
  <2>1. registered = 0 /\ queues[q] = NewQueue
    BY DEF Init
  <2>2. {j \in 1 .. 0 : Listeners[j].queue = q} = {}
    OBVIOUS
  <2> QED BY <2>1, <2>2 DEF NewQueue, Declared
<1>4. ListedMeansUsed
  <2> SUFFICES ASSUME NEW q \in Queues
               PROVE  queues[q].instantiated <=> queues[q].message_count > 0
    BY DEF ListedMeansUsed, Snapshot
  <2>1. queues[q].message_count = 0 /\ ~queues[q].instantiated
    BY DEF Init, NewQueue
  <2> QED BY <2>1, MaxCountAssumption
<1> QED BY <1>2, <1>3, <1>4 DEF Inv

(* Registering the next listener keeps the inductive invariant.             *)
LEMMA RegisterInv == Inv /\ RegisterListener => Inv'
<1> SUFFICES ASSUME Inv, RegisterListener PROVE Inv'
  OBVIOUS
<1> DEFINE n == registered + 1
           q == Listeners[n].queue
           e == Listeners[n].subscriber
           new == Subscribed(queues[q], e)
<1>1. n \in 1 .. Len(Listeners) /\ registered \in Nat /\ registered' = n
  BY ListenersAssumption DEF Inv, TypeOK, RegisterListener
<1>2. q \in Queues /\ e \in Subscribers
  <2>1. Listeners[n] \in Listener
    BY <1>1, ListenersAssumption, ElementOfSeq
  <2> QED BY <2>1 DEF Listener
<1>3. queues[q] \in QueueInfo
  BY <1>2 DEF Inv, TypeOK
<1>4. queues' = [queues EXCEPT ![q] = new]
  BY DEF RegisterListener
<1>5. /\ new \in QueueInfo
      /\ new.message_count = queues[q].message_count
      /\ new.instantiated = queues[q].instantiated
      /\ Elements(new.subscribers) = Elements(queues[q].subscribers) \cup {e}
      /\ NoneTwice(new.subscribers)
  BY <1>2, <1>3, SubscribedEntry DEF Inv, EachListenerOnce
<1>6. \A p \in Queues :
        Declared(p, n) = Declared(p, registered) \cup (IF p = q THEN {e} ELSE {})
  BY <1>1 DEF Declared
<1> HIDE DEF new, n, e, q
<1>7. TypeOK'
  <2>1. registered' \in 0 .. Len(Listeners)
    BY <1>1 DEF n
  <2> QED BY <1>4, <1>5, <2>1 DEF Inv, TypeOK
<1>8. ListedMeansUsed'
  BY <1>2, <1>4, <1>5 DEF Inv, TypeOK, ListedMeansUsed, Snapshot
<1>9. EachListenerOnce'
  <2> SUFFICES ASSUME NEW p \in Queues
               PROVE  /\ Elements(queues'[p].subscribers) = Declared(p, n)
                      /\ NoneTwice(queues'[p].subscribers)
    BY <1>1 DEF EachListenerOnce
  <2>1. CASE p = q
    <3>1. queues'[p] = new
      BY <1>2, <1>4, <2>1 DEF Inv, TypeOK
    <3>2. Elements(queues[q].subscribers) = Declared(q, registered)
      BY <1>2 DEF Inv, EachListenerOnce
    <3> QED BY <1>2, <1>5, <1>6, <2>1, <3>1, <3>2
  <2>2. CASE p # q
    <3>1. queues'[p] = queues[p]
      BY <1>4, <2>2 DEF Inv, TypeOK
    <3>2. Declared(p, n) = Declared(p, registered)
      BY <1>6, <2>2
    <3> QED BY <3>1, <3>2 DEF Inv, EachListenerOnce
  <2> QED BY <2>1, <2>2
<1> QED BY <1>7, <1>8, <1>9 DEF Inv

(* Counting a message keeps the entry's subscribers and its type.           *)
LEMMA CountedEntry ==
  ASSUME NEW info \in QueueInfo
  PROVE  LET new == Counted(info)
         IN  /\ new \in QueueInfo
             /\ new.subscribers = info.subscribers
             /\ new.instantiated
             /\ new.message_count \in 1 .. MaxCount
             /\ new.message_count >= info.message_count
<1> DEFINE m == info.message_count
           k == SaturatingAdd(m)
<1>1. m \in 0 .. MaxCount /\ MaxCount \in Nat \ {0}
      /\ info.subscribers \in Seq(Subscribers)
  BY MaxCountAssumption DEF QueueInfo
<1>2. k \in 1 .. MaxCount /\ k >= m
  BY <1>1 DEF SaturatingAdd
<1>3. Counted(info) = [subscribers |-> info.subscribers, message_count |-> k,
                       instantiated |-> TRUE]
  BY DEF Counted
<1> HIDE DEF k
<1>4. k \in 0 .. MaxCount
  BY <1>1, <1>2
<1> QED BY <1>1, <1>2, <1>3, <1>4 DEF QueueInfo

(* Preparing a delivery keeps the inductive invariant.                      *)
LEMMA DeliveryInv ==
  ASSUME Inv, NEW q \in Queues, PrepareDelivery(q)
  PROVE  Inv'
<1> DEFINE new == Counted(queues[q])
<1>1. queues[q] \in QueueInfo
  BY DEF Inv, TypeOK
<1>2. /\ new \in QueueInfo /\ new.subscribers = queues[q].subscribers
      /\ new.instantiated /\ new.message_count \in 1 .. MaxCount
  BY <1>1, CountedEntry
<1>3. queues' = [queues EXCEPT ![q] = new] /\ registered' = registered
  BY DEF PrepareDelivery
<1> HIDE DEF new
<1>4. TypeOK'
  BY <1>2, <1>3 DEF Inv, TypeOK
<1>5. ListedMeansUsed'
  BY <1>2, <1>3, MaxCountAssumption DEF Inv, TypeOK, ListedMeansUsed, Snapshot
<1>6. \A p \in Queues : queues'[p].subscribers = queues[p].subscribers
  BY <1>2, <1>3 DEF Inv, TypeOK
<1>7. EachListenerOnce'
  BY <1>3, <1>6 DEF Inv, EachListenerOnce
<1> QED BY <1>4, <1>5, <1>7 DEF Inv

(* The inductive invariant holds in every reachable state.                  *)
THEOREM RegistryInvariance == Spec => []Inv
<1>1. Inv /\ UNCHANGED registryVars => Inv'
  BY DEF Inv, TypeOK, EachListenerOnce, ListedMeansUsed, Snapshot, registryVars
<1>2. Inv /\ [Next]_registryVars => Inv'
  BY <1>1, RegisterInv, DeliveryInv DEF Next
<1> QED BY InitInv, <1>2, PTL DEF Spec

-----------------------------------------------------------------------------
(* The registry's variables always have their types.                        *)
THEOREM RegistryTypes == Spec => []TypeOK
BY RegistryInvariance, PTL DEF Inv

(* However often and in whatever order listeners are declared, a queue has  *)
(* each of them once.                                                       *)
THEOREM ListenersOnce == Spec => []EachListenerOnce
BY RegistryInvariance, PTL DEF Inv

(* The dashboard lists the queues that have counted a message and no other. *)
THEOREM ListsUsedQueues == Spec => []ListedMeansUsed
BY RegistryInvariance, PTL DEF Inv

(* A counter of messages never falls, not even at its limit.                *)
THEOREM CountsOnly == Spec => CountNeverFalls
<1>1. ASSUME Inv, [Next]_registryVars, NEW q \in Queues
      PROVE  queues'[q].message_count >= queues[q].message_count
  <2>1. queues[q] \in QueueInfo /\ queues[q].message_count \in Nat
    BY <1>1, MaxCountAssumption DEF Inv, TypeOK, QueueInfo
  <2>2. CASE RegisterListener
    <3>1. PICK p \in Queues : \E e \in Subscribers :
            queues' = [queues EXCEPT ![p] = Subscribed(@, e)]
      <4>1. registered + 1 \in 1 .. Len(Listeners)
        BY <1>1, <2>2, ListenersAssumption DEF Inv, TypeOK, RegisterListener
      <4>2. Listeners[registered + 1] \in Listener
        BY <4>1, ListenersAssumption, ElementOfSeq
      <4> QED BY <2>2, <4>2 DEF RegisterListener, Listener
    <3>2. PICK e \in Subscribers : queues' = [queues EXCEPT ![p] = Subscribed(@, e)]
      BY <3>1
    <3>3. Subscribed(queues[q], e).message_count = queues[q].message_count
      BY <2>1 DEF Subscribed, QueueInfo
    <3> QED BY <1>1, <2>1, <3>2, <3>3 DEF Inv, TypeOK
  <2>3. CASE \E p \in Queues : PrepareDelivery(p)
    BY <1>1, <2>1, <2>3, CountedEntry DEF PrepareDelivery, Inv, TypeOK
  <2>4. CASE UNCHANGED registryVars
    BY <2>1, <2>4 DEF registryVars
  <2> QED BY <1>1, <2>2, <2>3, <2>4 DEF Next
<1>2. Inv /\ [Next]_registryVars =>
        [\A q \in Queues :
           queues'[q].message_count >= queues[q].message_count]_registryVars
  BY <1>1
<1> QED BY RegistryInvariance, <1>2, PTL DEF Spec, CountNeverFalls
=============================================================================
