------------------------- MODULE ServiceConfigProofs -------------------------
(***************************************************************************)
(* Proofs about ServiceConfig.tla and Gateway.tla, for any directories,    *)
(* any configurations in them and any order in which they are read.        *)
(*                                                                         *)
(* What the texts are trimmed to is computed only where there is nothing   *)
(* to trim; otherwise the proofs use that the check and the use of a text  *)
(* trim it in the same way.                                                *)
(***************************************************************************)
EXTENDS Gateway, FiniteSetTheorems, SequenceTheorems, TLAPS

-----------------------------------------------------------------------------
(* Numbers.                                                                *)

(* Some numbers have a least one.                                          *)
LEMMA LeastNumber ==
  ASSUME NEW S, S \subseteq Nat, S # {}
  PROVE  Min(S) \in S /\ \A y \in S : Min(S) <= y
<1>1. PICK x \in S : \A y \in S : ~(<<y, x>> \in OpToRel(<, Nat))
  BY NatLessThanWellFounded, WFMin
<1>2. ASSUME NEW y \in S
      PROVE  x <= y
  <2>1. x \in Nat /\ y \in Nat /\ <<y, x>> \in Nat \X Nat
    OBVIOUS
  <2>2. ~(y < x)
    BY <1>1, <2>1 DEF OpToRel
  <2> QED BY <2>1, <2>2
<1>3. \E z \in S : \A y \in S : z <= y
  BY <1>2
<1> QED BY <1>3 DEF Min

-----------------------------------------------------------------------------
(* A list sorted by its names.                                             *)

Before(list, n) == {m \in DOMAIN list : list[m].name < list[n].name}

(* Each element of a list with different names has a place of its own, and  *)
(* each place an element: as many as there are before it.                   *)
LEMMA PlacesOfNames ==
  ASSUME NEW S, NEW list \in Seq(S),
         \A n \in DOMAIN list : list[n].name \in Nat,
         \A m, n \in DOMAIN list : list[m].name = list[n].name => m = n
  PROVE  /\ \A n \in DOMAIN list :
              /\ Cardinality(Before(list, n)) \in Nat
              /\ Cardinality(Before(list, n)) + 1 \in DOMAIN list
         /\ \A m, n \in DOMAIN list :
              list[m].name < list[n].name =>
                Cardinality(Before(list, m)) < Cardinality(Before(list, n))
         /\ \A k \in DOMAIN list : \E n \in DOMAIN list :
              Cardinality(Before(list, n)) = k - 1
<1> DEFINE D == 1 .. Len(list)
           rank(n) == Cardinality(Before(list, n))
           f == [n \in D |-> rank(n) + 1]
<1>1. DOMAIN list = D /\ Len(list) \in Nat
  BY LenProperties
<1>2. IsFiniteSet(D) /\ Cardinality(D) = Len(list)
  <2>1. 1 \in Int /\ Len(list) \in Int
    BY <1>1
  <2>2. /\ IsFiniteSet(1 .. Len(list))
        /\ Cardinality(1 .. Len(list)) = IF 1 > Len(list) THEN 0 ELSE Len(list) - 1 + 1
    BY <2>1, FS_Interval
  <2>3. (IF 1 > Len(list) THEN 0 ELSE Len(list) - 1 + 1) = Len(list)
    BY <1>1
  <2> QED BY <2>2, <2>3
<1>3. ASSUME NEW n \in D
      PROVE  /\ IsFiniteSet(Before(list, n))
             /\ rank(n) \in Nat /\ rank(n) < Len(list)
  <2>1. Before(list, n) \in SUBSET D /\ n \notin Before(list, n)
    BY <1>1 DEF Before
  <2>2. IsFiniteSet(Before(list, n)) /\ rank(n) <= Len(list) /\ rank(n) # Len(list)
    BY <1>2, <2>1, FS_Subset
  <2> QED BY <1>1, <2>2, FS_CardinalityType
<1>4. ASSUME NEW m \in D, NEW n \in D, list[m].name < list[n].name
      PROVE  rank(m) < rank(n)
  <2>1. Before(list, m) \in SUBSET Before(list, n)
    BY <1>1, <1>4 DEF Before
  <2>2. m \in Before(list, n) /\ m \notin Before(list, m)
    BY <1>1, <1>4 DEF Before
  <2>3. rank(m) <= rank(n) /\ rank(m) # rank(n)
    BY <1>3, <2>1, <2>2, FS_Subset
  <2>4. rank(m) \in Nat /\ rank(n) \in Nat
    BY <1>3
  <2> QED BY <2>3, <2>4
<1>5. ASSUME NEW m \in D, NEW n \in D, rank(m) = rank(n)
      PROVE  m = n
  <2>1. ~(list[m].name < list[n].name) /\ ~(list[n].name < list[m].name)
    BY <1>3, <1>4, <1>5
  <2>2. list[m].name \in Nat /\ list[n].name \in Nat
    BY <1>1
  <2> QED BY <1>1, <2>1, <2>2
<1>6. ASSUME NEW n \in D
      PROVE  rank(n) + 1 \in D
  BY <1>1, <1>3
<1>7. f \in Injection(D, D)
  <2>1. f \in [D -> D]
    BY <1>6
  <2>2. ASSUME NEW m \in D, NEW n \in D, f[m] = f[n]
        PROVE  m = n
    <3>1. rank(m) \in Nat /\ rank(n) \in Nat
      BY <1>3
    <3>2. rank(m) = rank(n)
      BY <2>2, <3>1
    <3> QED BY <1>5, <3>2
  <2> HIDE DEF f
  <2> QED BY <2>1, <2>2 DEF Injection, IsInjective
<1> HIDE DEF f
<1>8. f \in Surjection(D, D)
  BY <1>2, <1>7, FS_Injection
<1>9. ASSUME NEW k \in D
      PROVE  \E n \in D : rank(n) = k - 1
  <2>1. PICK n \in D : f[n] = k
    BY <1>8 DEF Surjection
  <2>2. f[n] = rank(n) + 1
    BY DEF f
  <2>3. rank(n) \in Nat
    BY <1>3
  <2> QED BY <2>1, <2>2, <2>3
<1> HIDE DEF D
<1> QED BY <1>1, <1>3, <1>4, <1>6, <1>9

(* Sorting keeps the elements, each of them, and puts lesser names first.   *)
LEMMA Sorting ==
  ASSUME NEW S, NEW list \in Seq(S),
         \A n \in DOMAIN list : list[n].name \in Nat,
         \A m, n \in DOMAIN list : list[m].name = list[n].name => m = n
  PROVE  LET sorted == SortedByName(list) IN
         /\ sorted \in Seq(S) /\ DOMAIN sorted = DOMAIN list
         /\ \A k \in DOMAIN sorted : \E n \in DOMAIN list : sorted[k] = list[n]
         /\ \A n \in DOMAIN list : \E k \in DOMAIN sorted : sorted[k] = list[n]
         /\ \A k, l \in DOMAIN sorted : k < l => sorted[k].name < sorted[l].name
<1> DEFINE rank(n) == Cardinality(Before(list, n))
           at(k) == CHOOSE n \in DOMAIN list : rank(n) = k - 1
           sorted == SortedByName(list)
<1>1. DOMAIN list = 1 .. Len(list) /\ Len(list) \in Nat
  BY LenProperties
<1>2. /\ \A n \in DOMAIN list : rank(n) \in Nat /\ rank(n) + 1 \in DOMAIN list
      /\ \A m, n \in DOMAIN list :
           list[m].name < list[n].name => rank(m) < rank(n)
      /\ \A k \in DOMAIN list : \E n \in DOMAIN list : rank(n) = k - 1
  BY PlacesOfNames
<1>3. \A k \in DOMAIN list : at(k) \in DOMAIN list /\ rank(at(k)) = k - 1
  BY <1>2
<1>4. sorted = [k \in DOMAIN list |-> list[at(k)]]
  BY DEF SortedByName, Before
<1> HIDE DEF rank, at, sorted
<1>9. ASSUME NEW m \in DOMAIN list, NEW n \in DOMAIN list, rank(m) <= rank(n)
      PROVE  m = n \/ list[m].name < list[n].name
  <2>1. list[n].name < list[m].name => rank(n) < rank(m)
    BY <1>2
  <2>2. rank(n) \in Nat /\ rank(m) \in Nat
    BY <1>2
  <2>3. ~(list[n].name < list[m].name)
    BY <1>9, <2>1, <2>2
  <2>4. list[n].name \in Nat /\ list[m].name \in Nat
    OBVIOUS
  <2> QED BY <2>3, <2>4
<1>5. DOMAIN sorted = DOMAIN list /\ \A k \in DOMAIN list : sorted[k] = list[at(k)]
  BY <1>4
<1>6. sorted \in Seq(S)
  <2>1. \A k \in 1 .. Len(list) : sorted[k] \in S
    BY <1>1, <1>3, <1>5, ElementOfSeq
  <2> QED BY <1>1, <1>4, <1>5, <2>1
<1>7. ASSUME NEW n \in DOMAIN list
      PROVE  \E k \in DOMAIN list : sorted[k] = list[n]
  <2> DEFINE k == rank(n) + 1
  <2>1. k \in DOMAIN list /\ rank(at(k)) = k - 1 /\ at(k) \in DOMAIN list
    BY <1>2, <1>3
  <2>2. rank(n) \in Nat
    BY <1>2
  <2>3. rank(at(k)) = rank(n)
    BY <2>1, <2>2
  <2>4. at(k) = n \/ list[at(k)].name < list[n].name
    BY <1>9, <2>1, <2>2, <2>3
  <2>5. at(k) = n \/ list[n].name < list[at(k)].name
    BY <1>9, <2>1, <2>2, <2>3
  <2>6. list[n].name \in Nat /\ list[at(k)].name \in Nat
    BY <2>1
  <2>7. at(k) = n
    BY <2>4, <2>5, <2>6
  <2> QED BY <1>5, <2>1, <2>7
<1>8. ASSUME NEW k \in DOMAIN list, NEW l \in DOMAIN list, k < l
      PROVE  sorted[k].name < sorted[l].name
  <2>1. rank(at(k)) < rank(at(l))
    BY <1>1, <1>3, <1>8
  <2>2. at(k) \in DOMAIN list /\ at(l) \in DOMAIN list
    BY <1>3
  <2>3. rank(at(k)) \in Nat /\ rank(at(l)) \in Nat
    BY <1>2, <2>2
  <2>4. list[at(k)].name < list[at(l)].name
    BY <1>9, <2>1, <2>2, <2>3
  <2> QED BY <1>5, <2>4
<1> QED BY <1>3, <1>5, <1>6, <1>7, <1>8 DEF sorted

-----------------------------------------------------------------------------
(* The load.                                                               *)

(* The services among the directories that have been read.                  *)
Read == {name \in DOMAIN files \ todo : IsService(files[name])}

(* What has been loaded is what is configured, nothing is loaded twice, as  *)
(* long as nothing is in error nothing is left out, and the list is sorted  *)
(* when it is returned.                                                     *)
FromFiles ==
  \A n \in DOMAIN services :
    LET name == services[n].name IN
    /\ name \in Read /\ Accepted(files[name])
    /\ services[n] = Loaded(name, files[name])

OnceEach ==
  \A m, n \in DOMAIN services : services[m].name = services[n].name => m = n

NoneLeftOut ==
  outcome \in {"loading", "loaded"} =>
    \A name \in Read : \E n \in DOMAIN services : services[n].name = name

Sorted ==
  outcome = "loaded" =>
    /\ todo = {}
    /\ \A k, l \in DOMAIN services : k < l => services[k].name < services[l].name

LoadInv ==
  /\ files \in Layouts /\ todo \subseteq DOMAIN files
  /\ outcome \in {"loading", "loaded", "rejected", "unreadable"}
  /\ services \in Seq({Loaded(name, files[name]) : name \in DOMAIN files})
  /\ FromFiles /\ OnceEach /\ NoneLeftOut /\ Sorted

(* A service keeps the name of its directory.                               *)
LEMMA LoadedName ==
  ASSUME NEW name, NEW file
  PROVE  Loaded(name, file).name = name
BY DEF Loaded

LEMMA NamesAreNumbers ==
  ASSUME LoadInv
  PROVE  /\ DOMAIN files \subseteq Nat /\ DOMAIN files \subseteq Names
         /\ \A n \in DOMAIN services :
              services[n].name \in Nat /\ services[n].name \in DOMAIN files
BY LimitsAssumption DEF LoadInv, FromFiles, Read

LEMMA LoadInit == Init => LoadInv
<1> SUFFICES ASSUME Init
             PROVE  LoadInv
  OBVIOUS
<1>1. DOMAIN services = {} /\ services \in Seq({Loaded(name, files[name]) : name \in DOMAIN files})
  BY DEF Init
<1>2. Read = {}
  BY DEF Init, Read
<1> QED BY <1>1, <1>2 DEF Init, LoadInv, FromFiles, OnceEach, NoneLeftOut, Sorted

(* A directory that is not a service changes nothing but what is to do.     *)
LEMMA SkipKeeps ==
  ASSUME LoadInv, NEW name \in Names, Skip(name)
  PROVE  LoadInv'
<1>1. Read' = Read
  BY DEF Skip, Reads, Read
<1> QED BY <1>1 DEF Skip, Reads, LoadInv, FromFiles, OnceEach, NoneLeftOut, Sorted

LEMMA PushKeeps ==
  ASSUME LoadInv, NEW name \in Names, Push(name)
  PROVE  LoadInv'
<1> DEFINE new == Loaded(name, files[name])
           S == {Loaded(m, files[m]) : m \in DOMAIN files}
<1>1. /\ files' = files /\ outcome' = outcome /\ outcome = "loading"
      /\ name \in todo /\ name \in DOMAIN files /\ todo' = todo \ {name}
      /\ services \in Seq(S) /\ new \in S /\ services' = Append(services, new)
      /\ IsService(files[name]) /\ Accepted(files[name])
  BY DEF Push, Reads, LoadInv
<1>2. Read' = Read \cup {name} /\ name \notin Read
  BY <1>1 DEF Read
<1>3. new.name = name
  BY LoadedName
<1> HIDE DEF new, S
<1>4. /\ services' \in Seq(S)
      /\ DOMAIN services' = DOMAIN services \cup {Len(services) + 1}
      /\ Len(services) + 1 \notin DOMAIN services
      /\ services'[Len(services) + 1] = new
      /\ \A n \in DOMAIN services : services'[n] = services[n]
  BY <1>1
<1>5. FromFiles'
  BY <1>1, <1>2, <1>3, <1>4 DEF FromFiles, LoadInv, new
<1>6. OnceEach'
  BY <1>2, <1>3, <1>4 DEF OnceEach, FromFiles, LoadInv
<1>7. NoneLeftOut'
  BY <1>1, <1>2, <1>3, <1>4 DEF NoneLeftOut, LoadInv
<1> QED BY <1>1, <1>4, <1>5, <1>6, <1>7 DEF LoadInv, Sorted, S

(* An error ends the load where it is.                                      *)
LEMMA EndsKeep ==
  ASSUME LoadInv, ReadFails \/ \E name \in Names : Reject(name)
  PROVE  LoadInv'
<1>1. /\ files' = files /\ services' = services /\ todo' \subseteq todo
      /\ outcome' \in {"rejected", "unreadable"}
  BY DEF ReadFails, Reject, Reads
<1>2. Read \subseteq Read'
  BY <1>1 DEF Read
<1> QED BY <1>1, <1>2 DEF LoadInv, FromFiles, OnceEach, NoneLeftOut, Sorted

(* Finishing sorts the list that there is.                                  *)
LEMMA FinishKeeps ==
  ASSUME LoadInv, Finish
  PROVE  LoadInv'
<1> DEFINE S == {Loaded(m, files[m]) : m \in DOMAIN files}
<1>1. /\ files' = files /\ todo' = todo /\ todo = {} /\ outcome = "loading"
      /\ outcome' = "loaded" /\ services' = SortedByName(services)
      /\ services \in Seq(S)
  BY DEF Finish, LoadInv
<1>2. Read' = Read
  BY <1>1 DEF Read
<1> HIDE DEF S
<1>3. /\ \A n \in DOMAIN services : services[n].name \in Nat
      /\ \A m, n \in DOMAIN services : services[m].name = services[n].name => m = n
  BY NamesAreNumbers DEF LoadInv, OnceEach
<1>4. /\ services' \in Seq(S) /\ DOMAIN services' = DOMAIN services
      /\ \A k \in DOMAIN services' : \E n \in DOMAIN services : services'[k] = services[n]
      /\ \A n \in DOMAIN services : \E k \in DOMAIN services' : services'[k] = services[n]
      /\ \A k, l \in DOMAIN services' :
           k < l => services'[k].name < services'[l].name
  BY <1>1, <1>3, Sorting
<1>5. FromFiles'
  BY <1>1, <1>2, <1>4 DEF FromFiles, LoadInv
<1>6. OnceEach'
  <2>1. ASSUME NEW k \in DOMAIN services', NEW l \in DOMAIN services',
               services'[k].name = services'[l].name
        PROVE  k = l
    <3>1. k \in Nat /\ l \in Nat
      <4>1. DOMAIN services = 1 .. Len(services) /\ Len(services) \in Nat
        BY <1>1
      <4>2. k \in 1 .. Len(services) /\ l \in 1 .. Len(services)
        BY <1>4, <4>1
      <4> QED BY <4>1, <4>2
    <3>2. services'[k].name \in Nat /\ services'[l].name \in Nat
      BY <1>3, <1>4
    <3>3. /\ k < l => services'[k].name < services'[l].name
          /\ l < k => services'[l].name < services'[k].name
      BY <1>4
    <3>4. ~(k < l) /\ ~(l < k)
      BY <2>1, <3>2, <3>3
    <3> QED BY <3>1, <3>4
  <2> QED BY <2>1 DEF OnceEach
<1>7. NoneLeftOut'
  <2>1. ASSUME NEW name \in Read
        PROVE  \E k \in DOMAIN services' : services'[k].name = name
    <3>1. PICK n \in DOMAIN services : services[n].name = name
      BY <1>1 DEF LoadInv, NoneLeftOut
    <3> QED BY <1>4, <3>1
  <2> QED BY <1>2, <2>1 DEF NoneLeftOut
<1> QED BY <1>1, <1>4, <1>5, <1>6, <1>7 DEF LoadInv, Sorted, S

LEMMA LoadNext == LoadInv /\ [Next]_vars => LoadInv'
<1> SUFFICES ASSUME LoadInv, [Next]_vars
             PROVE  LoadInv'
  OBVIOUS
<1>1. CASE ReadFails
  BY <1>1, EndsKeep
<1>2. CASE Finish
  BY <1>2, FinishKeeps
<1>3. ASSUME NEW name \in Names, Skip(name)
      PROVE  LoadInv'
  BY <1>3, SkipKeeps
<1>4. ASSUME NEW name \in Names, Push(name)
      PROVE  LoadInv'
  BY <1>4, PushKeeps
<1>5. ASSUME NEW name \in Names, Reject(name)
      PROVE  LoadInv'
  BY <1>5, EndsKeep
<1>6. CASE UNCHANGED vars
  BY <1>6 DEF vars, LoadInv, FromFiles, OnceEach, NoneLeftOut, Sorted, Read
<1> QED BY <1>1, <1>2, <1>3, <1>4, <1>5, <1>6 DEF Next

LEMMA LoadInvariant == Spec => []LoadInv
BY LoadInit, LoadNext, PTL DEF Spec

-----------------------------------------------------------------------------
(* What the loaded services promise.                                       *)

(* Types: every service is a directory of services/, and every port that is *)
(* computed for one of its copies fits a u16.                               *)
LEMMA PortsInRange ==
  ASSUME NEW file, file.runners \in Nat, file.url \in Url \cup {None}, Accepted(file)
  PROVE  /\ RunnerUrls(file) \in Seq(Url) /\ Len(RunnerUrls(file)) = file.runners
         /\ \A i, j \in DOMAIN RunnerUrls(file) :
              RunnerUrls(file)[i] = RunnerUrls(file)[j] => i = j
<1> DEFINE runners == file.runners
           url == file.url
<1>1. /\ runners \in Nat /\ runners > 0 /\ url \in Url
      /\ runners > 1 => url.port # None /\ url.port + runners - 1 <= MaxPort
  BY DEF Accepted, PortsFit
<1> HIDE DEF runners, url
<1>2. CASE runners = 1
  <2>1. RunnerUrls(file) = <<url>>
    BY <1>2 DEF RunnerUrls, runners, url
  <2> QED BY <1>1, <1>2, <2>1 DEF runners
<1>3. CASE runners # 1
  <2>1. RunnerUrls(file) = [k \in 1 .. runners |-> [url EXCEPT !.port = @ + k - 1]]
    BY <1>3 DEF RunnerUrls, runners, url
  <2>2. url.port \in Nat /\ url.port + runners - 1 <= MaxPort
    BY <1>1, <1>3, LimitsAssumption DEF Url
  <2>3. ASSUME NEW k \in 1 .. runners
        PROVE  RunnerUrls(file)[k] \in Url /\ RunnerUrls(file)[k].port = url.port + k - 1
    <3>1. /\ [url EXCEPT !.port = @ + k - 1] \in Url
          /\ [url EXCEPT !.port = @ + k - 1].port = url.port + k - 1
      BY <1>1, <2>2, LimitsAssumption DEF Url
    <3> QED BY <2>1, <3>1
  <2>4. RunnerUrls(file) \in Seq(Url) /\ Len(RunnerUrls(file)) = runners
    <3>1. RunnerUrls(file) \in [1 .. runners -> Url]
      BY <2>1, <2>3
    <3> QED BY <1>1, <3>1
  <2>5. ASSUME NEW i \in 1 .. runners, NEW j \in 1 .. runners,
               RunnerUrls(file)[i] = RunnerUrls(file)[j]
        PROVE  i = j
    <3>1. url.port + i - 1 = url.port + j - 1
      BY <2>3, <2>5
    <3> QED BY <2>2, <3>1
  <2>6. DOMAIN RunnerUrls(file) = 1 .. runners
    BY <2>1
  <2> QED BY <2>4, <2>5, <2>6 DEF runners
<1> QED BY <1>2, <1>3

(* The file of a loaded service, and the fields that it has from there.     *)
LEMMA LoadedService ==
  ASSUME LoadInv, NEW n \in DOMAIN services
  PROVE  LET service == services[n]
             file == files[service.name]
         IN  /\ service.name \in DOMAIN files /\ Accepted(file)
             /\ file.runners \in Nat /\ file.url \in Url \cup {None}
             /\ service.runner_urls = RunnerUrls(file)
             /\ service.allowed_get_endpoints = GetEndpoints(file)
             /\ service.memory_limit_mb = file.memory_limit_mb
             /\ service.schedules =
                  [k \in DOMAIN file.schedules |-> Schedule(file.schedules[k])]
             /\ service.queue_listeners =
                  [k \in DOMAIN file.listeners |-> Listener(file.listeners[k])]
<1> DEFINE service == services[n]
           name == service.name
<1>1. /\ files \in Layouts /\ name \in DOMAIN files
      /\ Accepted(files[name]) /\ service = Loaded(name, files[name])
  BY DEF LoadInv, FromFiles, Read
<1>2. files[name].runners \in Nat /\ files[name].url \in Url \cup {None}
  BY <1>1, FilesAssumption
<1> HIDE DEF service, name
<1>3. /\ service.runner_urls = RunnerUrls(files[name])
      /\ service.allowed_get_endpoints = GetEndpoints(files[name])
      /\ service.memory_limit_mb = files[name].memory_limit_mb
      /\ service.schedules =
           [k \in DOMAIN files[name].schedules |-> Schedule(files[name].schedules[k])]
      /\ service.queue_listeners =
           [k \in DOMAIN files[name].listeners |-> Listener(files[name].listeners[k])]
  BY <1>1 DEF Loaded
<1> QED BY <1>1, <1>2, <1>3 DEF service, name

LEMMA LoadedUrls ==
  ASSUME LoadInv, NEW n \in DOMAIN services
  PROVE  LET urls == services[n].runner_urls IN
         /\ urls \in Seq(Url) /\ Len(urls) = files[services[n].name].runners
         /\ \A i, j \in DOMAIN urls : urls[i] = urls[j] => i = j
<1> DEFINE file == files[services[n].name]
<1>1. /\ file.runners \in Nat /\ file.url \in Url \cup {None} /\ Accepted(file)
      /\ services[n].runner_urls = RunnerUrls(file)
  BY LoadedService
<1> HIDE DEF file
<1>2. /\ RunnerUrls(file) \in Seq(Url) /\ Len(RunnerUrls(file)) = file.runners
      /\ \A i, j \in DOMAIN RunnerUrls(file) :
           RunnerUrls(file)[i] = RunnerUrls(file)[j] => i = j
  BY <1>1, PortsInRange
<1> QED BY <1>1, <1>2 DEF file

LEMMA TypeOKFromInv == LoadInv => TypeOK
<1> SUFFICES ASSUME LoadInv
             PROVE  TypeOK
  OBVIOUS
<1>1. ASSUME NEW n \in DOMAIN services
      PROVE  /\ services[n].name \in Names
             /\ \A k \in DOMAIN services[n].runner_urls :
                  services[n].runner_urls[k].port \in (0 .. MaxPort) \cup {None}
  <2>1. services[n].runner_urls \in Seq(Url)
    BY LoadedUrls
  <2>2. services[n].name \in Names
    BY NamesAreNumbers
  <2>3. ASSUME NEW k \in DOMAIN services[n].runner_urls
        PROVE  services[n].runner_urls[k].port \in (0 .. MaxPort) \cup {None}
    <3>1. services[n].runner_urls[k] \in Url
      BY <2>1
    <3> QED BY <3>1 DEF Url
  <2> QED BY <2>2, <2>3
<1> QED BY <1>1 DEF TypeOK, LoadInv

THEOREM ConfigTypeOK == Spec => []TypeOK
BY LoadInvariant, TypeOKFromInv, PTL

(* The copies of a service have ports of their own.                         *)
LEMMA CopiesApartFromInv == LoadInv => CopiesApart
BY LoadedUrls DEF CopiesApart

THEOREM CopiesStayApart == Spec => []CopiesApart
BY LoadInvariant, CopiesApartFromInv, PTL

(* A loaded runner has exactly the configured services, in whichever order  *)
(* the directories were read.                                               *)
LEMMA AllOrNothingFromInv == LoadInv => AllOrNothing
BY DEF LoadInv, FromFiles, NoneLeftOut, Sorted, Read, AllOrNothing

THEOREM LoadsAllOrNothing == Spec => []AllOrNothing
BY LoadInvariant, AllOrNothingFromInv, PTL

(* Every schedule that is loaded calls a declared endpoint of its service   *)
(* and waits in between.                                                    *)
LEMMA SchedulesFromInv == LoadInv => SchedulesCanRun
<1> SUFFICES ASSUME LoadInv, NEW n \in DOMAIN services,
                    NEW k \in DOMAIN services[n].schedules
             PROVE  /\ Supports(services[n], services[n].schedules[k].endpoint)
                    /\ services[n].schedules[k].interval_secs > 0
  BY DEF SchedulesCanRun
<1> DEFINE file == files[services[n].name]
<1>1. /\ services[n].schedules =
           [j \in DOMAIN file.schedules |-> Schedule(file.schedules[j])]
      /\ services[n].allowed_get_endpoints = GetEndpoints(file)
      /\ Accepted(file)
  BY LoadedService
<1>2. k \in DOMAIN file.schedules /\ services[n].schedules[k] = Schedule(file.schedules[k])
  BY <1>1
<1>3. ScheduleFits(file, file.schedules[k])
  BY <1>1, <1>2 DEF Accepted
<1> HIDE DEF file
<1>4. /\ Schedule(file.schedules[k]).interval_secs > 0
      /\ Schedule(file.schedules[k]).endpoint \in GetEndpoints(file)
  BY <1>3 DEF ScheduleFits, Schedule
<1> QED BY <1>1, <1>2, <1>4 DEF Supports

THEOREM LoadedSchedulesCanRun == Spec => []SchedulesCanRun
BY LoadInvariant, SchedulesFromInv, PTL

(* The pages of a limit that validation lets pass are a number, so not None.*)
LEMMA PagesFit ==
  ASSUME NEW service, LimitSupported(service.memory_limit_mb),
         service.memory_limit_mb # None
  PROVE  MemoryPageLimit(service) # None
<1> DEFINE limit == service.memory_limit_mb
<1>1. limit # None /\ limit \in 1 .. MaxPages \div 16 /\ MaxPages \in Nat
  BY LimitsAssumption DEF LimitSupported
<1> HIDE DEF limit
<1>2. MaxPages \div 16 \in Nat /\ (MaxPages \div 16) * 16 <= MaxPages
  BY <1>1
<1>3. limit \in Nat /\ limit * 16 \in Nat /\ ~(limit * 16 > MaxPages)
  BY <1>1, <1>2
<1>4. MemoryPageLimit(service) = limit * 16
  BY <1>1, <1>3 DEF MemoryPageLimit, limit
<1> QED BY <1>3, <1>4, LimitsAssumption

(* Every service that asks for a limit has one, and a module that is run on *)
(* its own gets its own.                                                    *)
LEMMA LimitsFromInv == LoadInv => LimitsHold
<1> SUFFICES ASSUME LoadInv, NEW n \in DOMAIN services,
                    services[n].memory_limit_mb # None
             PROVE  /\ MemoryPageLimit(services[n]) # None
                    /\ outcome = "loaded" =>
                         ModulePageLimit(services[n].name) = MemoryPageLimit(services[n])
  BY DEF LimitsHold
<1>1. LimitSupported(services[n].memory_limit_mb)
  BY LoadedService DEF Accepted
<1>2. MemoryPageLimit(services[n]) # None
  BY <1>1, PagesFit
<1>3. {m \in DOMAIN services : services[m].name = services[n].name} = {n}
  BY DEF LoadInv, OnceEach
<1>4. Min({n}) = n
  <2>1. DOMAIN services = 1 .. Len(services) /\ Len(services) \in Nat
    BY DEF LoadInv
  <2>2. n \in 1 .. Len(services)
    BY <2>1
  <2>3. {n} \subseteq Nat
    BY <2>1, <2>2
  <2> QED BY <2>3, LeastNumber
<1> QED BY <1>2, <1>3, <1>4 DEF ModulePageLimit

THEOREM LoadedLimitsHold == Spec => []LimitsHold
BY LoadInvariant, LimitsFromInv, PTL

(* Whether a path is for a service depends on its prefix alone.             *)
LEMMA MatchesByPrefix ==
  ASSUME NEW s, NEW t, NEW path, s.prefix = t.prefix
  PROVE  Matches(s, path) <=> Matches(t, path)
BY DEF Matches, EndpointIn

(* The service with the least name that matches a path has it, in whichever *)
(* order the directories were read.                                         *)
LEMMA RoutesFromInv == LoadInv => RoutesByName
<1> SUFFICES ASSUME LoadInv, outcome = "loaded", NEW path \in Paths
             PROVE  LET trimmed == TrimStart(path, Slash)
                        matching == {n \in DOMAIN files :
                                       /\ IsService(files[n])
                                       /\ Matches(Loaded(n, files[n]), trimmed)}
                    IN  IF matching = {} THEN Route(path) = None
                        ELSE Route(path).name = Min(matching)
  BY DEF RoutesByName
<1> DEFINE trimmed == TrimStart(path, Slash)
           matching == {n \in DOMAIN files :
                          /\ IsService(files[n])
                          /\ Matches(Loaded(n, files[n]), trimmed)}
           places == {n \in DOMAIN services : Matches(services[n], trimmed)}
<1>1. matching = {services[n].name : n \in places}
  <2>1. ASSUME NEW name \in matching
        PROVE  \E n \in places : services[n].name = name
    <3>1. name \in Read
      BY DEF LoadInv, Sorted, Read
    <3>2. PICK n \in DOMAIN services : services[n].name = name
      BY <3>1 DEF LoadInv, NoneLeftOut
    <3>3. services[n] = Loaded(name, files[name])
      BY <3>2 DEF LoadInv, FromFiles
    <3> QED BY <3>2, <3>3
  <2>2. ASSUME NEW n \in places
        PROVE  services[n].name \in matching
    BY DEF LoadInv, FromFiles, Read
  <2> QED BY <2>1, <2>2
<1>2. CASE matching = {}
  <2>1. places = {}
    BY <1>1, <1>2
  <2> QED BY <1>2, <2>1 DEF Route
<1>3. CASE matching # {}
  <2>1. places # {} /\ places \subseteq DOMAIN services
    BY <1>1, <1>3
  <2>2. DOMAIN services = 1 .. Len(services) /\ Len(services) \in Nat
    BY DEF LoadInv
  <2>3. places \subseteq Nat /\ matching \subseteq Nat
    BY <2>1, <2>2, NamesAreNumbers
  <2> DEFINE first == Min(places)
             least == Min(matching)
  <2>4. first \in places /\ \A n \in places : first <= n
    BY <2>1, <2>3, LeastNumber
  <2>5. least \in matching /\ \A m \in matching : least <= m
    BY <1>3, <2>3, LeastNumber
  <2>6. Route(path).name = services[first].name
    BY <2>1 DEF Route
  <2> HIDE DEF first, least, places, matching
  <2>7. services[first].name \in matching
    BY <1>1, <2>4
  <2>8. PICK n \in places : services[n].name = least
    BY <1>1, <2>5
  <2>9. first = n \/ services[first].name < services[n].name
    <3>1. first \in Nat /\ n \in Nat /\ first <= n
      BY <2>3, <2>4
    <3>2. first \in DOMAIN services /\ n \in DOMAIN services
      BY <2>1, <2>4
    <3>3. first < n => services[first].name < services[n].name
      BY <3>2 DEF LoadInv, Sorted
    <3> QED BY <3>1, <3>3
  <2>10. services[first].name = least
    <3>1. least <= services[first].name
      BY <2>5, <2>7
    <3>2. least \in Nat /\ services[first].name \in Nat
      BY <2>3, <2>5, <2>7
    <3> QED BY <2>8, <2>9, <3>1, <3>2
  <2> QED BY <1>3, <2>6, <2>10 DEF matching, least
<1> QED BY <1>2, <1>3

THEOREM PathsRouteByName == Spec => []RoutesByName
BY LoadInvariant, RoutesFromInv, PTL

-----------------------------------------------------------------------------
(* The loaded services in use: Gateway.tla.                                *)

LEMMA LoadStep == GatewayNext \/ UNCHANGED <<vars, gatewayVars>> => [Next]_vars
<1>1. ASSUME NEW request \in Requests, Dispatch(request)
      PROVE  UNCHANGED vars
  BY <1>1 DEF Dispatch, Publish, Control, PostElsewhere, OwnPage, ServicePage,
              ForServices, Unrouted, Undeclared, Forward, OtherMethod, Arrives
<1>2. ASSUME NEW n \in DOMAIN services, ScheduleRuns(n) \/ HealthPolls(n)
      PROVE  UNCHANGED vars
  BY <1>2 DEF ScheduleRuns, HealthPolls, RunnerCalls
<1> QED BY <1>1, <1>2 DEF GatewayNext, Load, Boot, Ready

(* The runner at work loads its services as ServiceConfig.tla says, and     *)
(* never changes them afterwards.                                           *)
THEOREM LoadRefined == GatewaySpec => Spec
<1>1. GatewayInit => Init
  BY DEF GatewayInit
<1>2. [GatewayNext]_<<vars, gatewayVars>> => [Next]_vars
  BY LoadStep
<1> QED BY <1>1, <1>2, PTL DEF GatewaySpec, Spec

(* A path that has a route is that of a loaded service.                     *)
LEMMA RouteOfLoaded ==
  ASSUME LoadInv, NEW path, Route(path) # None
  PROVE  \E n \in DOMAIN services : ServiceOf(Route(path)) = services[n]
<1> DEFINE matching == {n \in DOMAIN services : Matches(services[n], TrimStart(path, Slash))}
           first == Min(matching)
<1>1. matching # {} /\ Route(path).name = services[first].name
  BY DEF Route
<1>2. DOMAIN services = 1 .. Len(services) /\ Len(services) \in Nat
  BY DEF LoadInv
<1>3. matching \subseteq Nat
  BY <1>2
<1>4. first \in DOMAIN services
  <2>1. first \in matching
    BY <1>1, <1>3, LeastNumber
  <2> QED BY <2>1
<1> HIDE DEF first
<1> QED BY <1>1, <1>4 DEF ServiceOf

(* What a forward calls is declared: the step that could break it.          *)
LEMMA ForwardDeclared ==
  ASSUME LoadInv, NEW request \in Requests, Forward(request)
  PROVE  ForwardsDeclaredOnly'
<1> DEFINE path == PathOf(request)
           route == Route(path)
           service == ServiceOf(route)
<1>1. /\ request.method = "GET" /\ files' = files
      /\ path \notin OwnPages /\ ~IsPrefix(ServicesPrefix, path)
      /\ route # None /\ Supports(service, route.endpoint)
  BY DEF Forward, ForServices, Arrives, vars
<1>2. PICK k \in DOMAIN service.runner_urls :
        \E call \in Calls(service, service.runner_urls[k], "GET", route.endpoint) :
          exchange'.request = request /\ exchange'.calls = {call}
  BY DEF Forward, Answered
<1>3. PICK call \in Calls(service, service.runner_urls[k], "GET", route.endpoint) :
        exchange'.request = request /\ exchange'.calls = {call}
  BY <1>2
<1>4. call.service = service.name /\ call.path = route.endpoint
  BY <1>3 DEF Calls
<1>5. call.path \in GetEndpoints(files[call.service])
  <2>1. PICK n \in DOMAIN services : service = services[n]
    BY <1>1, RouteOfLoaded
  <2>2. services[n].allowed_get_endpoints = GetEndpoints(files[services[n].name])
    BY LoadedService
  <2> QED BY <1>1, <1>4, <2>1, <2>2 DEF Supports
<1>6. PICK declared \in DOMAIN files[call.service].paths :
        /\ "get" \in files[call.service].paths[declared]
        /\ Trim(declared, Slash) = call.path
  BY <1>5 DEF GetEndpoints
<1>7. path # StatsPath /\ path # <<"health">>
  BY <1>1 DEF OwnPages
<1> HIDE DEF path
<1> QED BY <1>1, <1>3, <1>6, <1>7 DEF ForwardsDeclaredOnly, path

(* Every other step calls no service for a client, or for a POST.           *)
LEMMA OthersDeclared ==
  ASSUME NEW request \in Requests, Dispatch(request), ~Forward(request)
  PROVE  ForwardsDeclaredOnly'
<1>1. CASE Publish(request) \/ Control(request) \/ PostElsewhere(request)
  <2>1. request.method = "POST" /\ exchange'.request = request
    BY <1>1 DEF Publish, Control, PostElsewhere, Arrives, Answered
  <2> QED BY <2>1 DEF ForwardsDeclaredOnly
<1>2. CASE \/ OwnPage(request) \/ ServicePage(request) \/ Unrouted(request)
           \/ Undeclared(request) \/ OtherMethod(request)
  <2>1. exchange'.calls = {}
    BY <1>2 DEF OwnPage, ServicePage, Unrouted, Undeclared, OtherMethod, Answered
  <2> QED BY <2>1 DEF ForwardsDeclaredOnly
<1> QED BY <1>1, <1>2 DEF Dispatch

LEMMA ForwardsNext ==
  LoadInv /\ ForwardsDeclaredOnly /\ [GatewayNext]_<<vars, gatewayVars>>
    => ForwardsDeclaredOnly'
<1> SUFFICES ASSUME LoadInv, ForwardsDeclaredOnly, [GatewayNext]_<<vars, gatewayVars>>
             PROVE  ForwardsDeclaredOnly'
  OBVIOUS
<1>1. ASSUME NEW request \in Requests, Dispatch(request)
      PROVE  ForwardsDeclaredOnly'
  BY <1>1, ForwardDeclared, OthersDeclared
<1>2. ASSUME NEW n \in DOMAIN services, ScheduleRuns(n) \/ HealthPolls(n)
      PROVE  ForwardsDeclaredOnly'
  <2>1. exchange'.request = None
    BY <1>2 DEF ScheduleRuns, HealthPolls, RunnerCalls
  <2> QED BY <2>1 DEF ForwardsDeclaredOnly
<1>3. CASE Ready
  BY <1>3 DEF Ready, ForwardsDeclaredOnly
<1>4. CASE Load \/ Boot \/ UNCHANGED <<vars, gatewayVars>>
  <2>1. files' = files /\ exchange' = exchange
    BY <1>4 DEF Load, Boot, vars, gatewayVars, Next, ReadFails, Finish, Skip, Push,
                Reject, Reads
  <2> QED BY <2>1 DEF ForwardsDeclaredOnly
<1> QED BY <1>1, <1>2, <1>3, <1>4 DEF GatewayNext

THEOREM DeclaredOnly == GatewaySpec => []ForwardsDeclaredOnly
<1>1. GatewayInit => ForwardsDeclaredOnly
  BY DEF GatewayInit, ForwardsDeclaredOnly
<1> QED BY <1>1, LoadRefined, LoadInvariant, ForwardsNext, PTL DEF GatewaySpec

-----------------------------------------------------------------------------
(* Publications.                                                           *)

(* A text without blanks is what trimming it leaves.                        *)
LEMMA NothingToTrim ==
  ASSUME NEW S, Blank \notin S, NEW text \in Seq(S)
  PROVE  Trim(text, Blank) = text
<1>1. Len(text) \in Nat /\ DOMAIN text = 1 .. Len(text)
  BY LenProperties
<1>2. \A i \in 1 .. Len(text) : text[i] \in S
  BY ElementOfSeq
<1>3. Kept(text, Blank) = 1 .. Len(text)
  BY <1>1, <1>2 DEF Kept
<1>4. CASE Len(text) = 0
  <2>1. Kept(text, Blank) = {} /\ text = <<>>
    BY <1>1, <1>3, <1>4, EmptySeq
  <2> QED BY <2>1 DEF Trim
<1>5. CASE Len(text) # 0
  <2> DEFINE D == 1 .. Len(text)
  <2>1. 1 \in D /\ Len(text) \in D /\ D \subseteq Nat
    BY <1>1, <1>5
  <2>2. Min(D) = 1
    <3>1. Min(D) \in D /\ \A y \in D : Min(D) <= y
      BY <2>1, LeastNumber
    <3> HIDE DEF D
    <3>2. Min(D) <= 1 /\ Min(D) \in Nat
      BY <3>1, <2>1
    <3>3. 1 <= Min(D)
      BY <3>1, <1>1 DEF D
    <3> QED BY <3>2, <3>3
  <2>3. Max(D) = Len(text)
    <3>1. \E x \in D : \A y \in D : x >= y
      BY <1>1, <2>1
    <3>2. Max(D) \in D /\ \A y \in D : Max(D) >= y
      BY <3>1 DEF Max
    <3>3. Max(D) >= Len(text)
      BY <2>1, <3>2
    <3>4. Max(D) <= Len(text) /\ Max(D) \in Nat
      BY <1>1, <3>2
    <3> QED BY <1>1, <3>3, <3>4
  <2>4. SubSeq(text, 1, Len(text)) = text
    BY <1>1
  <2> QED BY <1>1, <1>3, <1>5, <2>2, <2>3, <2>4 DEF Trim
<1> QED BY <1>4, <1>5

(* A part of a text has no blank if the text has none.                      *)
LEMMA PartOfText ==
  ASSUME NEW S, NEW text \in Seq(S), NEW m \in Nat, m > 0, NEW n \in Int, n <= Len(text)
  PROVE  SubSeq(text, m, n) \in Seq(S)
<1>1. Len(text) \in Nat /\ DOMAIN text = 1 .. Len(text)
  BY LenProperties
<1>2. \A i \in m .. n : i \in 1 .. Len(text)
  BY <1>1
<1> QED BY <1>1, <1>2, SubSeqProperties

LEMMA StartOfText ==
  ASSUME NEW S, NEW text \in Seq(S)
  PROVE  TrimStart(text, Slash) \in Seq(S)
<1>1. Len(text) \in Nat /\ DOMAIN text = 1 .. Len(text)
  BY LenProperties
<1>2. CASE Kept(text, Slash) = {}
  BY <1>2 DEF TrimStart
<1>3. CASE Kept(text, Slash) # {}
  <2>1. Kept(text, Slash) \subseteq 1 .. Len(text)
    BY <1>1 DEF Kept
  <2>2. Min(Kept(text, Slash)) \in 1 .. Len(text)
    BY <1>3, <2>1, <1>1, LeastNumber
  <2>3. SubSeq(text, Min(Kept(text, Slash)), Len(text)) \in Seq(S)
    BY <2>2, <1>1, PartOfText
  <2> QED BY <1>3, <2>3 DEF TrimStart
<1> QED BY <1>2, <1>3

(* The path of a request has no blank, nor has what is below a prefix.      *)
LEMMA QueueAsSent ==
  ASSUME NEW request \in Requests
  PROVE  LET queue == Below(QueuesPrefix, PathOf(request)) IN
         Trim(queue, Blank) = queue
<1> DEFINE S == ToSet(request.url) \ {Blank}
           url == request.url
           marks == {i \in DOMAIN url : url[i] = "?"}
           path == PathOf(request)
<1>1. url \in Seq(S)
  BY RequestsAssumption
<1>2. Blank \notin S
  OBVIOUS
<1> HIDE DEF S
<1>3. Len(url) \in Nat /\ DOMAIN url = 1 .. Len(url)
  BY <1>1, LenProperties
<1>4. path \in Seq(S)
  <2>1. CASE marks = {}
    <3>1. path = TrimStart(url, Slash)
      BY <2>1 DEF PathOf
    <3> QED BY <1>1, <3>1, StartOfText
  <2>2. CASE marks # {}
    <3>1. path = TrimStart(SubSeq(url, 1, Min(marks) - 1), Slash)
      BY <2>2 DEF PathOf
    <3>2. Min(marks) \in 1 .. Len(url)
      <4>1. marks \subseteq Nat /\ marks \subseteq 1 .. Len(url)
        BY <1>3
      <4> HIDE DEF marks
      <4>2. Min(marks) \in marks
        BY <2>2, <4>1, LeastNumber
      <4> QED BY <4>1, <4>2
    <3> DEFINE cut == Min(marks) - 1
    <3>3. cut \in Int /\ cut <= Len(url)
      BY <1>3, <3>2
    <3> HIDE DEF marks, cut, url
    <3>4. SubSeq(url, 1, cut) \in Seq(S)
      BY <1>1, <3>3, PartOfText
    <3>5. TrimStart(SubSeq(url, 1, cut), Slash) \in Seq(S)
      BY <3>4, StartOfText
    <3> QED BY <3>1, <3>5 DEF cut
  <2> QED BY <2>1, <2>2
<1> HIDE DEF path
<1>5. Len(QueuesPrefix) + 1 \in Nat /\ Len(QueuesPrefix) + 1 > 0
  BY DEF QueuesPrefix
<1>6. Len(path) \in Int
  BY <1>4, LenProperties
<1>7. Below(QueuesPrefix, path) \in Seq(S)
  BY <1>4, <1>5, <1>6, PartOfText DEF Below
<1> QED BY <1>2, <1>7, NothingToTrim DEF path

(* Every call of a loaded service goes to its own name.                     *)
LEMMA CallsOf ==
  ASSUME NEW service, NEW url, NEW method, NEW path,
         NEW call \in Calls(service, url, method, path)
  PROVE  call.service = service.name /\ call.method = method /\ call.path = path
BY DEF Calls

(* What was loaded of a listener is what its configuration says, trimmed.   *)
LEMMA ListenerRead ==
  ASSUME LoadInv, NEW n \in DOMAIN services,
         NEW k \in DOMAIN files[services[n].name].listeners
  PROVE  LET entry == files[services[n].name].listeners[k] IN
         /\ k \in DOMAIN services[n].queue_listeners
         /\ DOMAIN entry # {}
         /\ \A declared \in DOMAIN entry : services[n].queue_listeners[k] =
              [queue |-> Trim(declared, Blank), path |-> Trim(entry[declared], Blank)]
<1> DEFINE file == files[services[n].name]
           entry == file.listeners[k]
<1>1. /\ services[n].queue_listeners =
           [j \in DOMAIN file.listeners |-> Listener(file.listeners[j])]
      /\ Accepted(file)
  BY LoadedService
<1>2. ListenerFits(entry) /\ services[n].queue_listeners[k] = Listener(entry)
  BY <1>1 DEF Accepted
<1> HIDE DEF entry
<1>3. PICK queue \in DOMAIN entry : DOMAIN entry = {queue}
  BY <1>2 DEF ListenerFits
<1>4. queue = CHOOSE q \in DOMAIN entry : TRUE
  BY <1>3
<1>5. Listener(entry) = [queue |-> Trim(queue, Blank), path |-> Trim(entry[queue], Blank)]
  BY <1>4 DEF Listener
<1> QED BY <1>1, <1>2, <1>3, <1>5 DEF entry

(* A publication is posted to the listeners of its queue.                   *)
LEMMA PublishAsks ==
  ASSUME LoadInv, NEW request \in Requests, Publish(request)
  PROVE  PublishedAsAsked'
<1> DEFINE queue == Below(QueuesPrefix, PathOf(request))
           posted == {<<call.service, call.path>> : call \in exchange'.calls}
<1>1. Trim(queue, Blank) = queue
  BY QueueAsSent
<1> HIDE DEF queue
<1>2. /\ files' = files /\ outcome = "loaded"
      /\ exchange'.request = request
      /\ exchange'.status = 202 => exchange'.calls \in Deliveries(Subscribers(queue))
  BY <1>1 DEF Publish, Answered, Arrives, vars, queue
<1> SUFFICES ASSUME exchange'.status = 202
             PROVE  /\ \A to \in posted : Asks(to[1], to[2], queue)
                    /\ \A name \in DOMAIN files : IsService(files[name]) =>
                         \A k \in DOMAIN files[name].listeners :
                           \A declared \in DOMAIN files[name].listeners[k] :
                             LET hook == Trim(files[name].listeners[k][declared], Blank) IN
                             Trim(declared, Blank) = queue =>
                               <<name, TrimStart(hook, Slash)>> \in posted
  BY <1>2 DEF PublishedAsAsked, Asks, queue
<1>3. PICK made : /\ DOMAIN made = Subscribers(queue)
                  /\ \A s \in Subscribers(queue) : made[s] \in CallsTo(s)
                  /\ exchange'.calls = {made[s] : s \in Subscribers(queue)}
  BY <1>2 DEF Deliveries, Range
<1>4. ASSUME NEW s \in Subscribers(queue)
      PROVE  /\ made[s].service = s.service.name
             /\ made[s].path = TrimStart(s.path, Slash)
  BY <1>3, CallsOf DEF CallsTo
<1>5. ASSUME NEW to \in posted
      PROVE  Asks(to[1], to[2], queue)
  <2>1. PICK s \in Subscribers(queue) : to = <<s.service.name, TrimStart(s.path, Slash)>>
    BY <1>3, <1>4
  <2>2. PICK n \in DOMAIN services : \E k \in DOMAIN services[n].queue_listeners :
          /\ services[n].queue_listeners[k].queue = queue
          /\ s = [service |-> services[n], path |-> services[n].queue_listeners[k].path]
    BY DEF Subscribers
  <2>3. PICK k \in DOMAIN services[n].queue_listeners :
          /\ services[n].queue_listeners[k].queue = queue
          /\ s = [service |-> services[n], path |-> services[n].queue_listeners[k].path]
    BY <2>2
  <2> DEFINE file == files[services[n].name]
             entry == file.listeners[k]
  <2>4. k \in DOMAIN file.listeners
    BY LoadedService
  <2>5. PICK declared \in DOMAIN entry : services[n].queue_listeners[k] =
          [queue |-> Trim(declared, Blank), path |-> Trim(entry[declared], Blank)]
    BY <2>4, ListenerRead
  <2> QED BY <2>1, <2>3, <2>4, <2>5 DEF Asks
<1>6. ASSUME NEW name \in DOMAIN files, IsService(files[name]),
             NEW k \in DOMAIN files[name].listeners,
             NEW declared \in DOMAIN files[name].listeners[k],
             Trim(declared, Blank) = queue
      PROVE  <<name, TrimStart(Trim(files[name].listeners[k][declared], Blank), Slash)>>
               \in posted
  <2> DEFINE hook == Trim(files[name].listeners[k][declared], Blank)
  <2>1. PICK n \in DOMAIN services : services[n].name = name
    BY <1>2, <1>6, AllOrNothingFromInv DEF AllOrNothing
  <2>2. /\ k \in DOMAIN services[n].queue_listeners
        /\ services[n].queue_listeners[k] = [queue |-> queue, path |-> hook]
    BY <1>6, <2>1, ListenerRead
  <2> HIDE DEF hook
  <2> DEFINE s == [service |-> services[n], path |-> hook]
  <2>3. s \in Subscribers(queue)
    BY <2>2 DEF Subscribers
  <2>4. <<made[s].service, made[s].path>> \in posted
    BY <1>3, <2>3
  <2>5. made[s].service = name /\ made[s].path = TrimStart(hook, Slash)
    BY <1>4, <2>1, <2>3
  <2> QED BY <2>4, <2>5 DEF hook
<1> QED BY <1>5, <1>6

LEMMA PublishedNext ==
  LoadInv /\ PublishedAsAsked /\ [GatewayNext]_<<vars, gatewayVars>> => PublishedAsAsked'
<1> SUFFICES ASSUME LoadInv, PublishedAsAsked, [GatewayNext]_<<vars, gatewayVars>>
             PROVE  PublishedAsAsked'
  OBVIOUS
<1>1. ASSUME NEW request \in Requests, Dispatch(request), ~Publish(request)
      PROVE  PublishedAsAsked'
  <2>1. /\ exchange'.request = request
        /\ request.method # "POST" \/ exchange'.status # 202
    BY <1>1 DEF Dispatch, Control, PostElsewhere, OwnPage, ServicePage, ForServices,
                Unrouted, Undeclared, Forward, OtherMethod, Arrives, Answered
  <2> QED BY <2>1 DEF PublishedAsAsked
<1>2. ASSUME NEW n \in DOMAIN services, ScheduleRuns(n) \/ HealthPolls(n)
      PROVE  PublishedAsAsked'
  <2>1. exchange'.request = None
    BY <1>2 DEF ScheduleRuns, HealthPolls, RunnerCalls
  <2> QED BY <2>1 DEF PublishedAsAsked
<1>3. CASE Ready
  BY <1>3 DEF Ready, PublishedAsAsked
<1>4. CASE Load \/ Boot \/ UNCHANGED <<vars, gatewayVars>>
  <2>1. files' = files /\ exchange' = exchange
    BY <1>4 DEF Load, Boot, vars, gatewayVars, Next, ReadFails, Finish, Skip, Push,
                Reject, Reads
  <2> QED BY <2>1 DEF PublishedAsAsked, Asks
<1> QED BY <1>1, <1>2, <1>3, <1>4, PublishAsks DEF GatewayNext

(* Whatever is published and acknowledged is posted to the services that    *)
(* ask for it in their configurations and to no others.                     *)
THEOREM PublicationsAsAsked == GatewaySpec => []PublishedAsAsked
<1>1. GatewayInit => PublishedAsAsked
  BY DEF GatewayInit, PublishedAsAsked
<1> QED BY <1>1, LoadRefined, LoadInvariant, PublishedNext, PTL DEF GatewaySpec

-----------------------------------------------------------------------------
(* What the runner calls.                                                  *)

(* The sources of a loaded service agree if those of every service do.      *)
LEMMA LoadedAgrees ==
  ASSUME AllSourcesAgree, LoadInv, NEW n \in DOMAIN services
  PROVE  SourcesAgree(files[services[n].name])
<1>1. /\ files \in Layouts /\ services[n].name \in DOMAIN files
      /\ IsService(files[services[n].name]) /\ Accepted(files[services[n].name])
  BY DEF LoadInv, FromFiles, Read
<1> QED BY <1>1 DEF AllSourcesAgree

Served(call) == Handles(files[call.service].program, call.method, call.path)

(* Calls with GET go to declared endpoints, or to /health.                  *)
LEMMA GetIsServed ==
  ASSUME AllSourcesAgree, LoadInv, NEW n \in DOMAIN services, NEW url, NEW path,
         path = <<"health">> \/ Supports(services[n], path),
         NEW call \in Calls(services[n], url, "GET", path)
  PROVE  Served(call)
<1>1. SourcesAgree(files[services[n].name])
  BY LoadedAgrees
<1>2. services[n].allowed_get_endpoints = GetEndpoints(files[services[n].name])
  BY LoadedService
<1>3. Handles(files[services[n].name].program, "GET", path)
  BY <1>1, <1>2 DEF SourcesAgree, Supports, GetEndpoints
<1> QED BY <1>3, CallsOf DEF Served

(* Schedules call declared endpoints.                                       *)
LEMMA ScheduleIsServed ==
  ASSUME AllSourcesAgree, LoadInv, NEW n \in DOMAIN services,
         NEW k \in DOMAIN services[n].schedules, NEW url,
         NEW call \in Calls(services[n], url, "GET", services[n].schedules[k].endpoint)
  PROVE  Served(call)
<1>1. Supports(services[n], services[n].schedules[k].endpoint)
  BY SchedulesFromInv DEF SchedulesCanRun
<1> QED BY <1>1, GetIsServed

(* A schedule that the operator asks for by its number is one of them.      *)
LEMMA NumberedSchedule ==
  ASSUME LoadInv, NEW n \in DOMAIN services, NEW i \in Nat,
         i < Len(services[n].schedules)
  PROVE  i + 1 \in DOMAIN services[n].schedules
<1> DEFINE list == files[services[n].name].schedules
           m == Len(list)
           made == services[n].schedules
           S == {made[k] : k \in 1 .. m}
<1>1. list \in Seq(ToSet(list))
  BY FilesAssumption DEF LoadInv, FromFiles, Read
<1>2. m \in Nat /\ DOMAIN list = 1 .. m
  BY <1>1
<1>3. made = [k \in DOMAIN list |-> Schedule(list[k])]
  BY LoadedService
<1> HIDE DEF list, m, made
<1>4. made \in [1 .. m -> S]
  BY <1>2, <1>3
<1> HIDE DEF S
<1>5. made \in Seq(S) /\ Len(made) = m /\ DOMAIN made = 1 .. m
  BY <1>2, <1>4
<1> QED BY <1>2, <1>5 DEF made

(* Deliveries go to listeners.                                              *)
LEMMA DeliveryIsServed ==
  ASSUME AllSourcesAgree, LoadInv, NEW queue,
         NEW subscriber \in Subscribers(queue), NEW call \in CallsTo(subscriber)
  PROVE  Served(call)
<1>1. PICK n \in DOMAIN services : \E k \in DOMAIN services[n].queue_listeners :
        subscriber = [service |-> services[n], path |-> services[n].queue_listeners[k].path]
  BY DEF Subscribers
<1>2. PICK k \in DOMAIN services[n].queue_listeners :
        subscriber = [service |-> services[n], path |-> services[n].queue_listeners[k].path]
  BY <1>1
<1> DEFINE file == files[services[n].name]
<1>3. services[n].queue_listeners =
        [j \in DOMAIN file.listeners |-> Listener(file.listeners[j])]
  BY LoadedService
<1>4. SourcesAgree(file) /\ Accepted(file)
  BY LoadedAgrees, LoadedService
<1>5. Handles(file.program, "POST", TrimStart(subscriber.path, Slash))
  <2> DEFINE entry == file.listeners[k]
             declared == CHOOSE q \in DOMAIN entry : TRUE
  <2>1. k \in DOMAIN file.listeners /\ subscriber.path = Listener(entry).path
    BY <1>2, <1>3
  <2>2. declared \in DOMAIN entry
    BY <1>4, <2>1 DEF Accepted, ListenerFits
  <2>3. subscriber.path = Trim(entry[declared], Blank)
    BY <2>1 DEF Listener
  <2> QED BY <1>4, <2>1, <2>2, <2>3 DEF SourcesAgree
<1>6. /\ call.service = services[n].name /\ call.method = "POST"
      /\ call.path = TrimStart(subscriber.path, Slash)
  BY <1>2, CallsOf DEF CallsTo
<1> QED BY <1>5, <1>6 DEF Served

(* What a request or the runner itself leads to.                            *)
LEMMA RequestIsServed ==
  ASSUME AllSourcesAgree, LoadInv, NEW request \in Requests, Dispatch(request)
  PROVE  \A call \in exchange'.calls : Served(call)
<1>1. CASE Publish(request)
  <2>1. PICK queue : exchange'.calls = {} \/ exchange'.calls \in Deliveries(Subscribers(queue))
    BY <1>1 DEF Publish, Answered
  <2>2. CASE exchange'.calls \in Deliveries(Subscribers(queue))
    <3>1. ASSUME NEW call \in exchange'.calls
          PROVE  \E subscriber \in Subscribers(queue) : call \in CallsTo(subscriber)
      BY <2>2 DEF Deliveries, Range
    <3> QED BY <3>1, DeliveryIsServed
  <2> QED BY <2>1, <2>2
<1>2. CASE Control(request)
  <2> DEFINE parts == Segments(Below(ServicesPrefix, PathOf(request)))
             n == Min(ServiceNamed(parts[1]))
             i == IndexOf[parts[3]]
  <2>1. \/ exchange'.calls = {}
        \/ /\ ServiceNamed(parts[1]) # {} /\ parts[3] \in DOMAIN IndexOf
           /\ i < Len(services[n].schedules)
           /\ \E call \in Calls(services[n], BaseUrl(services[n]), "GET",
                                services[n].schedules[i + 1].endpoint) :
                exchange'.calls = {call}
    BY <1>2 DEF Control, Answered
  <2>2. CASE /\ ServiceNamed(parts[1]) # {} /\ parts[3] \in DOMAIN IndexOf
             /\ i < Len(services[n].schedules)
             /\ \E call \in Calls(services[n], BaseUrl(services[n]), "GET",
                                  services[n].schedules[i + 1].endpoint) :
                  exchange'.calls = {call}
    <3>1. DOMAIN services = 1 .. Len(services) /\ Len(services) \in Nat
      BY DEF LoadInv
    <3>2. ServiceNamed(parts[1]) \subseteq DOMAIN services /\ DOMAIN services \subseteq Nat
      BY <3>1 DEF ServiceNamed
    <3>3. n \in DOMAIN services
      BY <2>2, <3>2, LeastNumber
    <3>4. i \in Nat
      BY <2>2, IndexAssumption
    <3> HIDE DEF n, i, parts
    <3>5. i + 1 \in DOMAIN services[n].schedules
      BY <2>2, <3>3, <3>4, NumberedSchedule
    <3> QED BY <2>2, <3>3, <3>5, ScheduleIsServed
  <2> QED BY <2>1, <2>2
<1>3. CASE Forward(request)
  <2> DEFINE route == Route(PathOf(request))
             service == ServiceOf(route)
  <2>1. /\ route # None /\ Supports(service, route.endpoint)
        /\ \E url : \E call \in Calls(service, url, "GET", route.endpoint) :
             exchange'.calls = {call}
    BY <1>3 DEF Forward, Answered
  <2>2. PICK n \in DOMAIN services : service = services[n]
    BY <2>1, RouteOfLoaded
  <2> HIDE DEF service, route
  <2> QED BY <2>1, <2>2, GetIsServed
<1>4. CASE \/ PostElsewhere(request) \/ OwnPage(request) \/ ServicePage(request)
           \/ Unrouted(request) \/ Undeclared(request) \/ OtherMethod(request)
  BY <1>4 DEF PostElsewhere, OwnPage, ServicePage, Unrouted, Undeclared, OtherMethod,
              Answered
<1> QED BY <1>1, <1>2, <1>3, <1>4 DEF Dispatch

LEMMA RunnerIsServed ==
  ASSUME AllSourcesAgree, LoadInv, NEW n \in DOMAIN services,
         ScheduleRuns(n) \/ HealthPolls(n)
  PROVE  \A call \in exchange'.calls : Served(call)
<1>1. CASE HealthPolls(n)
  <2>1. PICK call \in Calls(services[n], BaseUrl(services[n]), "GET", <<"health">>) :
          exchange'.calls = {call}
    BY <1>1 DEF HealthPolls, RunnerCalls
  <2> QED BY <2>1, GetIsServed
<1>2. CASE ScheduleRuns(n)
  <2>1. PICK k \in DOMAIN services[n].schedules :
          RunnerCalls("schedule", services[n], services[n].schedules[k].endpoint)
    BY <1>2 DEF ScheduleRuns
  <2>2. PICK call \in Calls(services[n], BaseUrl(services[n]), "GET",
                            services[n].schedules[k].endpoint) :
          exchange'.calls = {call}
    BY <2>1 DEF RunnerCalls
  <2> QED BY <2>2, ScheduleIsServed
<1> QED BY <1>1, <1>2

LEMMA ServedNext ==
  ASSUME AllSourcesAgree, LoadInv, CallsAreServed, [GatewayNext]_<<vars, gatewayVars>>
  PROVE  CallsAreServed'
<1>1. ASSUME files' = files, \A call \in exchange'.calls : Served(call)
      PROVE  CallsAreServed'
  BY <1>1 DEF CallsAreServed, Served
<1>2. ASSUME NEW request \in Requests, Dispatch(request)
      PROVE  CallsAreServed'
  <2>1. files' = files
    BY <1>2 DEF Dispatch, Publish, Control, PostElsewhere, OwnPage, ServicePage,
                ForServices, Unrouted, Undeclared, Forward, OtherMethod, Arrives, vars
  <2> QED BY <1>1, <1>2, <2>1, RequestIsServed
<1>3. ASSUME NEW n \in DOMAIN services, ScheduleRuns(n) \/ HealthPolls(n)
      PROVE  CallsAreServed'
  <2>1. files' = files
    BY <1>3 DEF ScheduleRuns, HealthPolls, RunnerCalls, vars
  <2> QED BY <1>1, <1>3, <2>1, RunnerIsServed
<1>4. CASE Ready
  BY <1>4 DEF Ready, CallsAreServed
<1>5. CASE Load \/ Boot \/ UNCHANGED <<vars, gatewayVars>>
  <2>1. files' = files /\ exchange' = exchange
    BY <1>5 DEF Load, Boot, vars, gatewayVars, Next, ReadFails, Finish, Skip, Push,
                Reject, Reads
  <2> QED BY <2>1 DEF CallsAreServed
<1> QED BY <1>2, <1>3, <1>4, <1>5 DEF GatewayNext

(* Provided that what is written apart for each service agrees, nothing is  *)
(* called that has no handler: trimming, shorthand forms of schedules,      *)
(* prefixes, routes and parameters turn no declared path into another one.  *)
(* TLC checks the proviso for the services of the repository.               *)
THEOREM CallsHaveHandlers ==
  ASSUME AllSourcesAgree
  PROVE  GatewaySpec => []CallsAreServed
<1>1. GatewayInit => CallsAreServed
  BY DEF GatewayInit, CallsAreServed
<1>2. LoadInv /\ CallsAreServed /\ [GatewayNext]_<<vars, gatewayVars>> => CallsAreServed'
  BY ServedNext
<1> QED BY <1>1, <1>2, LoadRefined, LoadInvariant, PTL DEF GatewaySpec
=============================================================================
