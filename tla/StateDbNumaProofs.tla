------------------------- MODULE StateDbNumaProofs --------------------------
(***************************************************************************)
(* The NUMA-aware state database, for every number of domains, workers and *)
(* slots and every scavenging depth: it implements StatePool; each slot is *)
(* in one queue or in one hand; what is set aside for another domain's     *)
(* workers is neither forgotten nor worse than what remains.               *)
(*                                                                         *)
(* A base state is in the deque, in a scavenger queue, or carried from the *)
(* one to the others (Placed).  A worker may stop although it has left     *)
(* base states in the deque, as it gives up after ScavengingDepth states   *)
(* of other domains.  They are not forgotten, because (Watched) what is in *)
(* a scavenger queue will be seen by a worker that has not passed it yet,  *)
(* for the one that put it there looks for it before it stops, and one     *)
(* that takes it will come back to the deque.                              *)
(***************************************************************************)
EXTENDS StateDbNuma, FiniteFacts

\* No buffer starts at the address where another one ends.
Apart == \A c, d \in Domains : End(c) \notin Buffer(d)

Proved == INSTANCE StatePoolProofs WITH
          free    <- UNION {free[d] : d \in Domains},
          current <- Unprocessed,
          next    <- ToSet(nextStateDb),
          active  <- {t \in Threads : pc[t] # "done"}

AllFree == UNION {free[d] : d \in Domains}
SetAside == Scavenged \union Carried
Active == {t \in Threads : pc[t] # "done"}
-----------------------------------------------------------------------------
(* The invariant.                                                          *)

Placed ==
    /\ Distinct(currentStateDb) /\ Distinct(nextStateDb)
    /\ \A d \in Domains : /\ Distinct(scavenger[d])
                          /\ ToSet(scavenger[d]) \subseteq Buffer(d)
                          /\ ToSet(scavenger[d]) \intersect ToSet(currentStateDb) = {}
                          /\ free[d] \subseteq Buffer(d)
    /\ \A t \in Threads : carried[t] # Null => /\ carried[t] \notin ToSet(currentStateDb)
                                               /\ \A d \in Domains : carried[t] \notin ToSet(scavenger[d])
    /\ \A t, u \in Threads : carried[t] # Null /\ carried[t] = carried[u] => t = u

PhaseOf(t) ==
    /\ base[t] = Null <=> pc[t] \in {"pop", "scavenge", "place", "others", "done"}
    /\ fresh[t] = Null <=> pc[t] # "store"
    /\ carried[t] = Null <=> pc[t] # "place"
    /\ pc[t] \in {"otherFree", "steal", "store"} => inputs[t] > 0
    /\ pc[t] = "place" => depth[t] < ScavengingDepth
                          /\ GetStateNumaDomain(carried[t]) # Preferred[t]
    /\ pc[t] \notin {"scavenge", "place"} => depth[t] = 0
Phases == \A t \in Threads : PhaseOf(t)

\* Before it stops, t will look into d's scavenger queue, or into the deque.
LooksInto(t, d) == /\ d # Preferred[t] /\ pc[t] # "done"
                   /\ pc[t] = "others" => d \in untried[t]
LooksAtDeque(t) == \/ pc[t] \in {"pop", "place", "run", "otherFree", "steal", "store"}
                   \/ pc[t] = "scavenge" /\ depth[t] < ScavengingDepth

Watched ==
    /\ \A d \in Domains : scavenger[d] # <<>> => \E t \in Threads : LooksInto(t, d)
    /\ currentStateDb # <<>> => \/ \E t \in Threads : LooksAtDeque(t)
                                \/ \E d \in Domains : scavenger[d] # <<>>

Encoded ==
    /\ \A s \in Unprocessed : data[s] \in States /\ data[s].against = "previous"
    /\ \A t \in Threads : base[t] # Null => data[base[t]] \in States /\ data[base[t]].against = "previous"
    /\ \A s \in ToSet(nextStateDb) : data[s] \in States /\ data[s].against = "current"

\* What has been popped off the deque is no worse than what is left in it.
Ahead == \A s \in SetAside, x \in ToSet(currentStateDb) : data[s].reward >= data[x].reward

Shape == TypeOK /\ ~thrown /\ Placed /\ Phases /\ Watched
Content == Encoded /\ Ahead /\ Descending(data, currentStateDb) /\ Descending(data, nextStateDb)
IInv == Shape /\ Content /\ Proved!IInv
-----------------------------------------------------------------------------
(* The queues.                                                             *)

LEMMA HomeFacts ==
  ASSUME Apart, NEW s \in Slots
  PROVE  GetStateNumaDomain(s) \in Domains /\ s \in Buffer(GetStateNumaDomain(s))
  <1>1. PICK d \in Domains : s \in Buffer(d)
    BY NumaAssumption
  <1>2. \A c \in Domains : Start[c] \in Nat /\ MaxStates[c] \in Nat \ {0}
    BY NumaAssumption
  <1>3. {c \in Domains : Start[c] <= s /\ s <= End(c)} = {d}
    <2>1. Start[d] <= s /\ s <= End(d) /\ s \in Int
      BY <1>1, <1>2 DEF Buffer, End
    <2>2. ASSUME NEW c \in Domains, c # d, Start[c] <= s, s <= End(c) PROVE FALSE
      <3>1. s # End(c)
        BY <1>1 DEF Apart
      <3>2. s \in Buffer(c)
        BY <1>2, <2>1, <2>2, <3>1 DEF Buffer, End
      <3> QED
        BY <1>1, <2>2, <3>2, NumaAssumption
    <2> QED
      BY <1>1, <2>1, <2>2
  <1>4. d \in Int
    BY NumaAssumption DEF Domains
  <1>5. GetStateNumaDomain(s) = d
    <2>1. IsFiniteSet({d}) /\ {d} \subseteq Int /\ {d} # {}
      BY <1>4, FS_Singleton
    <2>2. Min({d}) \in {d}
      BY <2>1, Extremes
    <2> QED
      BY <1>3, <2>2 DEF GetStateNumaDomain
  <1> QED
    BY <1>1, <1>5

\* The domain tried next.
LEMMA UntriedFacts ==
  ASSUME TypeOK, NEW t \in Threads, untried[t] # {}
  PROVE  Min(untried[t]) \in untried[t] /\ Min(untried[t]) \in Domains
  <1>1. untried[t] \subseteq Domains /\ Domains \subseteq Int /\ IsFiniteSet(Domains)
    BY NumaAssumption, FS_Interval DEF TypeOK, Domains
  <1>2. IsFiniteSet(untried[t])
    BY <1>1, FS_Subset
  <1> QED
    BY <1>1, <1>2, Extremes

\* A slot leaves a free queue.
LEMMA TakeFreeFacts ==
  ASSUME TypeOK, Placed, NEW d \in Domains, NEW s \in free[d],
         free' = [free EXCEPT ![d] = @ \ {s}]
  PROVE  /\ AllFree' = AllFree \ {s} /\ s \in AllFree /\ s \in Slots
         /\ free' \in [Domains -> SUBSET Slots]
         /\ \A c \in Domains : free'[c] \subseteq Buffer(c)
  <1>1. /\ free'[d] = free[d] \ {s} /\ \A c \in Domains \ {d} : free'[c] = free[c]
        /\ free' \in [Domains -> SUBSET Slots]
        /\ \A c \in Domains : free[c] \subseteq Buffer(c)
    BY DEF TypeOK, Placed
  <1>2. \A c \in Domains \ {d} : s \notin free[c]
    BY <1>1, NumaAssumption
  <1>3. s \in Slots
    BY DEF TypeOK
  <1> QED
    BY <1>1, <1>2, <1>3 DEF AllFree

\* A slot returns to the free queue of its domain, which has room for it.
LEMMA ReturnFacts ==
  ASSUME Apart, TypeOK, Placed, NEW s \in Slots, s \notin AllFree, ReturnFreeState(s)
  PROVE  /\ AllFree' = AllFree \union {s} /\ thrown' = thrown
         /\ free' \in [Domains -> SUBSET Slots]
         /\ \A c \in Domains : free'[c] \subseteq Buffer(c)
  <1> DEFINE d == GetStateNumaDomain(s)
  <1>1. d \in Domains /\ s \in Buffer(d)
    BY HomeFacts
  <1> HIDE DEF d
  <1>2. free[d] \subseteq Buffer(d) /\ s \notin free[d]
    BY <1>1 DEF Placed, AllFree
  <1>3. Start[d] \in Nat /\ MaxStates[d] \in Nat
    BY <1>1, NumaAssumption
  <1>4. IsFiniteSet(Buffer(d)) /\ Cardinality(Buffer(d)) = MaxStates[d]
    <2>1. Start[d] \in Int /\ End(d) - 1 \in Int
      BY <1>3 DEF End
    <2>2. /\ IsFiniteSet(Buffer(d))
          /\ Cardinality(Buffer(d)) = IF Start[d] > End(d) - 1 THEN 0 ELSE End(d) - 1 - Start[d] + 1
      BY <2>1, FS_Interval DEF Buffer
    <2>3. MaxStates[d] = IF Start[d] > End(d) - 1 THEN 0 ELSE End(d) - 1 - Start[d] + 1
      BY <1>3 DEF End
    <2> QED
      BY <2>2, <2>3
  <1>5. /\ IsFiniteSet(Buffer(d) \ {s}) /\ Cardinality(Buffer(d) \ {s}) = MaxStates[d] - 1
    BY <1>1, <1>4, FS_RemoveElement
  <1>6. Cardinality(free[d]) \in Nat /\ Cardinality(free[d]) <= MaxStates[d] - 1
    <2>1. free[d] \subseteq Buffer(d) \ {s}
      BY <1>2
    <2> QED
      BY <1>5, <2>1, FS_Subset, FS_CardinalityType
  <1>7. free' = [free EXCEPT ![d] = @ \union {s}] /\ thrown' = thrown
    BY <1>3, <1>6 DEF ReturnFreeState, d
  <1>8. /\ free'[d] = free[d] \union {s} /\ \A c \in Domains \ {d} : free'[c] = free[c]
        /\ free' \in [Domains -> SUBSET Slots]
    BY <1>1, <1>7 DEF TypeOK
  <1> QED
    BY <1>1, <1>7, <1>8 DEF AllFree, Placed

\* A base state leaves a scavenger queue.
LEMMA TakeScavengedFacts ==
  ASSUME TypeOK, Placed, NEW d \in Domains, scavenger[d] # <<>>,
         scavenger' = [scavenger EXCEPT ![d] = Tail(@)],
         UNCHANGED <<currentStateDb, nextStateDb, carried, free>>
  PROVE  /\ Head(scavenger[d]) \in Unprocessed /\ Head(scavenger[d]) \in Slots
         /\ Unprocessed' = Unprocessed \ {Head(scavenger[d])}
         /\ SetAside' \subseteq SetAside
         /\ scavenger' \in [Domains -> Seq(Slots)]
         /\ \A c \in Domains : scavenger'[c] # <<>> => scavenger[c] # <<>>
         /\ Placed'
  <1> DEFINE s == Head(scavenger[d])
  <1>1. scavenger[d] \in Seq(Slots) /\ Distinct(scavenger[d])
    BY DEF TypeOK, Placed
  <1>2. /\ Tail(scavenger[d]) \in Seq(Slots) /\ Distinct(Tail(scavenger[d]))
        /\ s \in ToSet(scavenger[d]) /\ s \in Slots
        /\ ToSet(Tail(scavenger[d])) = ToSet(scavenger[d]) \ {s}
    BY <1>1, TailFacts, Members
  <1> HIDE DEF s
  <1>3. /\ scavenger'[d] = Tail(scavenger[d]) /\ \A c \in Domains \ {d} : scavenger'[c] = scavenger[c]
        /\ scavenger' \in [Domains -> Seq(Slots)]
    BY <1>2 DEF TypeOK
  <1>4. \A c \in Domains : ToSet(scavenger'[c]) = ToSet(scavenger[c]) \ {s}
    <2> TAKE c \in Domains
    <2>1. CASE c = d
      BY <1>2, <1>3, <2>1
    <2>2. CASE c # d
      <3>1. s \notin ToSet(scavenger[c])
        BY <1>2, <2>2, NumaAssumption DEF Placed
      <3> QED
        BY <1>3, <2>2, <3>1
    <2> QED
      BY <2>1, <2>2
  <1>5. Placed'
    BY <1>2, <1>3, <1>4 DEF Placed
  <1>6. s \notin ToSet(currentStateDb) /\ \A t \in Threads : carried[t] # s \/ carried[t] = Null
    BY <1>2 DEF Placed
  <1>7. \A x : x \in Unprocessed' <=> x \in Unprocessed \ {s}
    <2>1. Scavenged' = Scavenged \ {s}
      BY ONLY <1>4 DEF Scavenged
    <2>2. Carried' = Carried /\ s \notin Carried
      BY <1>2, <1>6 DEF Carried
    <2>3. /\ Unprocessed = ToSet(currentStateDb) \union Scavenged \union Carried
          /\ Unprocessed' = ToSet(currentStateDb) \union Scavenged' \union Carried'
      BY DEF Unprocessed
    <2> QED
      BY ONLY <1>6, <2>1, <2>2, <2>3
  <1>8. s \in Unprocessed /\ SetAside' \subseteq SetAside
    BY <1>2, <1>4 DEF Unprocessed, SetAside, Scavenged, Carried
  <1> QED
    BY <1>2, <1>3, <1>5, <1>7, <1>8 DEF s

\* A base state leaves the deque, at either end.
LEMMA TakeCurrentFacts ==
  ASSUME TypeOK, Placed, NEW s \in ToSet(currentStateDb),
         currentStateDb' \in Seq(Slots), Distinct(currentStateDb'),
         ToSet(currentStateDb') = ToSet(currentStateDb) \ {s},
         UNCHANGED <<scavenger, nextStateDb, carried>>,
         \A c \in Domains : free'[c] \subseteq Buffer(c)
  PROVE  /\ s \in Unprocessed /\ Unprocessed' = Unprocessed \ {s}
         /\ SetAside' = SetAside
         /\ Placed'
  <1>1. s \notin SetAside
    BY DEF Placed, SetAside, Scavenged, Carried
  <1>2. SetAside' = SetAside
    BY DEF SetAside, Scavenged, Carried
  <1>3. Unprocessed = ToSet(currentStateDb) \union SetAside
    BY DEF Unprocessed, SetAside
  <1>4. Unprocessed' = ToSet(currentStateDb') \union SetAside'
    BY DEF Unprocessed, SetAside
  <1>5. Placed'
    BY DEF Placed
  <1> QED
    BY <1>1, <1>2, <1>3, <1>4, <1>5

\* A base state of another domain is popped off the deque ...
LEMMA PopForeignFacts ==
  ASSUME TypeOK, Placed, Phases, NEW t \in Threads, PopForeign(t)
  PROVE  /\ currentStateDb \in Seq(Slots) /\ currentStateDb # <<>>
         /\ Head(currentStateDb) \in Slots /\ Head(currentStateDb) \in ToSet(currentStateDb)
         /\ currentStateDb' = Tail(currentStateDb) /\ currentStateDb' \in Seq(Slots)
         /\ Unprocessed' = Unprocessed
         /\ SetAside' = SetAside \union {Head(currentStateDb)}
         /\ Placed'
  <1> DEFINE s == Head(currentStateDb)
  <1>1. /\ currentStateDb \in Seq(Slots) /\ currentStateDb # <<>> /\ Distinct(currentStateDb)
        /\ currentStateDb' = Tail(currentStateDb) /\ carried' = [carried EXCEPT ![t] = s]
        /\ UNCHANGED <<scavenger, nextStateDb, free>> /\ carried[t] = Null
    BY DEF PopForeign, TypeOK, BaseTypeOK, Placed, Phases, PhaseOf
  <1>2. /\ currentStateDb' \in Seq(Slots) /\ Distinct(currentStateDb')
        /\ s \in ToSet(currentStateDb) /\ s \in Slots
        /\ ToSet(currentStateDb') = ToSet(currentStateDb) \ {s}
    BY <1>1, TailFacts, Members
  <1> HIDE DEF s
  <1>3. /\ carried'[t] = s /\ \A u \in Threads \ {t} : carried'[u] = carried[u]
        /\ s # Null
    BY <1>1, <1>2, StateDbAssumption DEF TypeOK
  <1>4. Carried' = Carried \union {s}
    BY <1>1, <1>3 DEF Carried
  <1>5. Scavenged' = Scavenged
    BY <1>1 DEF Scavenged
  <1>6. Unprocessed' = Unprocessed /\ SetAside' = SetAside \union {s}
    BY <1>2, <1>4, <1>5 DEF Unprocessed, SetAside
  <1>7. Placed'
    BY <1>1, <1>2, <1>3 DEF Placed
  <1> QED
    BY <1>1, <1>2, <1>6, <1>7 DEF s

\* ... and put into the scavenger queue of its domain.
LEMMA PlaceForeignFacts ==
  ASSUME Apart, TypeOK, Placed, Phases, NEW t \in Threads, PlaceForeign(t)
  PROVE  LET d == GetStateNumaDomain(carried[t]) IN
         /\ d \in Domains /\ d # Preferred[t] /\ scavenger'[d] # <<>>
         /\ scavenger' \in [Domains -> Seq(Slots)]
         /\ \A c \in Domains : scavenger[c] # <<>> => scavenger'[c] # <<>>
         /\ \A c \in Domains \ {d} : scavenger'[c] = scavenger[c]
         /\ Unprocessed' = Unprocessed /\ SetAside' = SetAside
         /\ Placed'
  <1> DEFINE s == carried[t]
             d == GetStateNumaDomain(s)
             longer == <<s>> \o scavenger[d]
  <1>1. /\ s \in Slots /\ s # Null /\ d # Preferred[t]
        /\ carried' = [carried EXCEPT ![t] = Null]
        /\ scavenger' = [scavenger EXCEPT ![d] = longer]
        /\ UNCHANGED <<currentStateDb, nextStateDb, free>>
    BY DEF PlaceForeign, TypeOK, Phases, PhaseOf
  <1>2. d \in Domains /\ s \in Buffer(d)
    BY <1>1, HomeFacts
  <1>3. scavenger[d] \in Seq(Slots) /\ Distinct(scavenger[d]) /\ s \notin ToSet(scavenger[d])
    BY <1>1, <1>2 DEF TypeOK, Placed
  <1>4. /\ longer \in Seq(Slots) /\ Distinct(longer) /\ longer # <<>>
        /\ ToSet(longer) = ToSet(scavenger[d]) \union {s}
    <2> DEFINE q == scavenger[d]
    <2>1. q \in Seq(Slots) /\ Distinct(q) /\ s \in Slots /\ s \notin ToSet(q)
      BY <1>1, <1>3
    <2> HIDE DEF q, s
    <2>2. /\ longer = <<s>> \o q
      BY DEF q
    <2> HIDE DEF longer
    <2> QED
      BY ONLY <2>1, <2>2, PrependFacts DEF q
  <1> HIDE DEF longer, d
  <1>5. /\ scavenger'[d] = longer /\ \A c \in Domains \ {d} : scavenger'[c] = scavenger[c]
        /\ scavenger' \in [Domains -> Seq(Slots)]
    BY <1>1, <1>2, <1>4 DEF TypeOK
  <1> HIDE DEF s
  <1>6. /\ carried'[t] = Null /\ \A u \in Threads \ {t} : carried'[u] = carried[u]
        /\ carried[t] = s
    BY <1>1 DEF TypeOK, s
  <1>7. Scavenged' = Scavenged \union {s}
    BY <1>2, <1>4, <1>5 DEF Scavenged
  <1>8. Carried = Carried' \union {s}
    BY <1>1, <1>6 DEF Carried
  <1>9. Unprocessed' = Unprocessed /\ SetAside' = SetAside
    BY <1>1, <1>7, <1>8 DEF Unprocessed, SetAside
  <1>10. Placed'
    <2>1. s \notin ToSet(currentStateDb) /\ \A u \in Threads \ {t} : carried[u] = Null \/ carried[u] # s
      BY <1>1, <1>6 DEF Placed
    <2>2. \A c \in Domains : /\ Distinct(scavenger'[c])
                             /\ ToSet(scavenger'[c]) \subseteq Buffer(c)
                             /\ ToSet(scavenger'[c]) \subseteq ToSet(scavenger[c]) \union {s}
                             /\ ToSet(scavenger'[c]) \intersect ToSet(currentStateDb) = {}
      <3> TAKE c \in Domains
      <3>1. CASE c = d
        BY <1>2, <1>4, <1>5, <2>1, <3>1 DEF Placed
      <3>2. CASE c # d
        BY <1>5, <3>2 DEF Placed
      <3> QED
        BY <3>1, <3>2
    <2> QED
      BY <1>1, <1>6, <2>1, <2>2 DEF Placed
  <1> QED
    BY <1>1, <1>2, <1>4, <1>5, <1>9, <1>10 DEF d, s
-----------------------------------------------------------------------------
(* Each step of the database is a step of the pool, or none.               *)

poolVars == <<AllFree, Unprocessed, ToSet(nextStateDb), base, fresh, Active>>

\* What all steps but storing a state and ending a step do to the order of the states,
\* and which slots they write.
Orderly ==
    /\ nextStateDb' = nextStateDb
    /\ \/ currentStateDb' = currentStateDb /\ SetAside' \subseteq SetAside
       \/ /\ currentStateDb # <<>> /\ currentStateDb' = Tail(currentStateDb)
          /\ SetAside' \subseteq SetAside \union {Head(currentStateDb)}
       \/ /\ currentStateDb # <<>> /\ currentStateDb' = Front(currentStateDb)
          /\ SetAside' \subseteq SetAside
    /\ Unprocessed' \subseteq Unprocessed
    /\ \A t \in Threads : base'[t] # Null => base'[t] = base[t] \/ base'[t] \in Unprocessed
    /\ \/ data' = data
       \/ \E s \in Slots : /\ data' = [data EXCEPT ![s] = Garbage]
                           /\ s \in AllFree' \/ \E t \in Threads : fresh'[t] = s

\* A worker that looks where it would have looked before forgets no state.
LEMMA WatchedKept ==
  ASSUME Watched, NEW t \in Threads,
         \A u \in Threads \ {t} : pc'[u] = pc[u] /\ depth'[u] = depth[u] /\ untried'[u] = untried[u],
         \A d \in Domains : scavenger'[d] # <<>> => scavenger[d] # <<>>,
         currentStateDb' # <<>> => currentStateDb # <<>>,
         \A d \in Domains : scavenger'[d] # <<>> /\ LooksInto(t, d) => LooksInto(t, d)',
         LooksAtDeque(t) => LooksAtDeque(t)',
         LooksAtDeque(t)' \/ \A d \in Domains : scavenger'[d] = scavenger[d]
  PROVE  Watched'
  <1>1. \A u \in Threads \ {t} : /\ \A d \in Domains : LooksInto(u, d)' <=> LooksInto(u, d)
                                 /\ LooksAtDeque(u)' <=> LooksAtDeque(u)
    BY DEF LooksInto, LooksAtDeque
  <1>2. ASSUME NEW d \in Domains, scavenger'[d] # <<>>
        PROVE  \E u \in Threads : LooksInto(u, d)'
    <2>1. PICK u \in Threads : LooksInto(u, d)
      BY <1>2 DEF Watched
    <2>2. CASE u = t
      BY <1>2, <2>1, <2>2
    <2>3. CASE u # t
      BY <1>1, <2>1, <2>3
    <2> QED
      BY <2>2, <2>3
  <1>3. ASSUME currentStateDb' # <<>>
        PROVE  (\E u \in Threads : LooksAtDeque(u)') \/ \E d \in Domains : scavenger'[d] # <<>>
    <2>1. CASE \E u \in Threads : LooksAtDeque(u)
      <3>1. PICK u \in Threads : LooksAtDeque(u)
        BY <2>1
      <3> QED
        BY <1>1, <3>1
    <2>2. CASE \E d \in Domains : scavenger[d] # <<>>
      BY <2>2
    <2> QED
      BY <1>3, <2>1, <2>2 DEF Watched
  <1> QED
    BY <1>2, <1>3 DEF Watched

\* What the workers hold, and where they are in their loops, changes for one of them.
LEMMA PhasesKept ==
  ASSUME Phases, NEW t \in Threads, PhaseOf(t)',
         \A u \in Threads \ {t} : /\ pc'[u] = pc[u] /\ base'[u] = base[u] /\ fresh'[u] = fresh[u]
                                  /\ inputs'[u] = inputs[u] /\ carried'[u] = carried[u]
                                  /\ depth'[u] = depth[u]
  PROVE  Phases'
  <1>1. ASSUME NEW u \in Threads, u # t PROVE PhaseOf(u)'
    <2>1. PhaseOf(u)
      BY DEF Phases
    <2> QED
      BY <1>1, <2>1 DEF PhaseOf
  <1> QED
    BY <1>1 DEF Phases

LEMMA ActiveKept ==
  ASSUME NEW t \in Threads, pc[t] # "done", pc'[t] # "done", \A u \in Threads \ {t} : pc'[u] = pc[u]
  PROVE  Active' = Active
  BY DEF Active

\* A worker takes a base state s ...
LEMMA StartBaseFacts ==
  ASSUME TypeOK, Phases, NEW t \in Threads, NEW s \in Slots, pc[t] \in {"pop", "scavenge", "others"},
         StartBase(t, s), carried' = carried, depth'[t] = 0,
         \A u \in Threads \ {t} : depth'[u] = depth[u]
  PROVE  /\ base[t] = Null /\ t \in Active /\ base' = [base EXCEPT ![t] = s]
         /\ UNCHANGED <<nextStateDb, data, fresh, Active>>
         /\ base' \in [Threads -> Slots \union {Null}]
         /\ inputs' \in [Threads -> 0 .. MaxInputs]
         /\ pc' \in [Threads -> {"pop", "scavenge", "place", "others",
                                 "run", "otherFree", "steal", "store", "done"}]
         /\ pc'[t] = "run" /\ \A u \in Threads \ {t} : pc'[u] = pc[u] /\ base'[u] = base[u]
         /\ Phases'
  <1>1. /\ base' = [base EXCEPT ![t] = s] /\ pc' = [pc EXCEPT ![t] = "run"]
        /\ UNCHANGED <<nextStateDb, data, fresh>>
    BY DEF StartBase
  <1>2. PICK n \in 0 .. MaxInputs : inputs' = [inputs EXCEPT ![t] = n]
    BY DEF StartBase
  <1>3. /\ base \in [Threads -> Slots \union {Null}] /\ inputs \in [Threads -> 0 .. MaxInputs]
        /\ pc \in [Threads -> {"pop", "scavenge", "place", "others",
                               "run", "otherFree", "steal", "store", "done"}]
    BY DEF TypeOK, BaseTypeOK
  <1>4. /\ base' \in [Threads -> Slots \union {Null}] /\ base'[t] = s
        /\ \A u \in Threads \ {t} : base'[u] = base[u]
    BY ONLY <1>1, <1>3
  <1>5. /\ pc' \in [Threads -> {"pop", "scavenge", "place", "others",
                                "run", "otherFree", "steal", "store", "done"}]
        /\ pc'[t] = "run" /\ \A u \in Threads \ {t} : pc'[u] = pc[u]
    BY ONLY <1>1, <1>3
  <1>6. /\ inputs' \in [Threads -> 0 .. MaxInputs] /\ \A u \in Threads \ {t} : inputs'[u] = inputs[u]
    BY ONLY <1>2, <1>3
  <1>7. base[t] = Null /\ fresh[t] = Null /\ carried[t] = Null
    BY DEF Phases, PhaseOf
  <1>8. PhaseOf(t)'
    BY <1>1, <1>4, <1>5, <1>7, StateDbAssumption DEF PhaseOf
  <1>9. Phases'
    BY <1>1, <1>4, <1>5, <1>6, <1>8, PhasesKept
  <1>10. Active' = Active
    BY <1>5, ActiveKept
  <1> QED
    BY <1>1, <1>4, <1>5, <1>6, <1>7, <1>9, <1>10 DEF Active

\* ... out of a scavenger queue
LEMMA TakeScavengedStep ==
  ASSUME IInv, NEW t \in Threads, NEW d \in Domains, pc[t] \in {"pop", "others"},
         scavenger[d] # <<>>, StartBase(t, Head(scavenger[d])),
         scavenger' = [scavenger EXCEPT ![d] = Tail(@)],
         untried' \in [Threads -> SUBSET Domains], \A u \in Threads \ {t} : untried'[u] = untried[u],
         UNCHANGED <<currentStateDb, free, carried, depth, thrown>>
  PROVE  Proved!TakeBase(t) /\ Shape' /\ Orderly
  <1>0. TypeOK /\ ~thrown /\ Placed /\ Phases /\ Watched
    BY DEF IInv, Shape
  <1> DEFINE s == Head(scavenger[d])
  <1>1. nextStateDb' = nextStateDb /\ depth[t] = 0
    BY <1>0 DEF StartBase, Phases, PhaseOf
  <1>2. /\ s \in Unprocessed /\ s \in Slots
        /\ Unprocessed' = Unprocessed \ {s} /\ SetAside' \subseteq SetAside
        /\ scavenger' \in [Domains -> Seq(Slots)]
        /\ \A c \in Domains : scavenger'[c] # <<>> => scavenger[c] # <<>>
        /\ Placed'
    BY <1>0, <1>1, TakeScavengedFacts
  <1>3. StartBase(t, s)
    OBVIOUS
  <1> HIDE DEF s
  <1>4. /\ base[t] = Null /\ t \in Active /\ base' = [base EXCEPT ![t] = s]
        /\ UNCHANGED <<nextStateDb, data, fresh, Active>>
        /\ base' \in [Threads -> Slots \union {Null}]
        /\ inputs' \in [Threads -> 0 .. MaxInputs]
        /\ pc' \in [Threads -> {"pop", "scavenge", "place", "others",
                                "run", "otherFree", "steal", "store", "done"}]
        /\ pc'[t] = "run" /\ \A u \in Threads \ {t} : pc'[u] = pc[u] /\ base'[u] = base[u]
        /\ Phases'
    BY <1>0, <1>1, <1>2, <1>3, StartBaseFacts
  <1>5. AllFree' = AllFree
    BY DEF AllFree
  <1>6. Proved!TakeBase(t)
    BY ONLY <1>2, <1>4, <1>5 DEF Proved!TakeBase, AllFree, Active
  <1>7. TypeOK'
    BY <1>0, <1>2, <1>4 DEF TypeOK, BaseTypeOK
  <1>8. Watched'
    BY <1>0, <1>2, <1>4, WatchedKept DEF LooksInto, LooksAtDeque
  <1>9. Orderly
    BY <1>2, <1>4 DEF Orderly
  <1> QED
    BY <1>0, <1>2, <1>4, <1>6, <1>7, <1>8, <1>9 DEF Shape

LEMMA PopScavengedStep ==
  ASSUME IInv, NEW t \in Threads, PopOwnScavenger(t) \/ PopOtherScavenger(t)
  PROVE  Proved!TakeBase(t) /\ Shape' /\ Orderly
  <1>0. TypeOK /\ untried \in [Threads -> SUBSET Domains]
    BY DEF IInv, Shape, TypeOK
  <1>1. CASE PopOwnScavenger(t)
    <2>1. Preferred[t] \in Domains
      BY NumaAssumption
    <2> QED
      BY <1>0, <1>1, <2>1, TakeScavengedStep DEF PopOwnScavenger
  <1>2. CASE PopOtherScavenger(t)
    <2> DEFINE d == Min(untried[t])
    <2>1. d \in Domains
      BY <1>0, <1>2, UntriedFacts DEF PopOtherScavenger
    <2>2. /\ pc[t] = "others" /\ scavenger[d] # <<>> /\ StartBase(t, Head(scavenger[d]))
          /\ scavenger' = [scavenger EXCEPT ![d] = Tail(@)]
          /\ untried' = [untried EXCEPT ![t] = {}]
          /\ UNCHANGED <<currentStateDb, free, carried, depth, thrown>>
      BY <1>2 DEF PopOtherScavenger
    <2> HIDE DEF d
    <2>3. untried' \in [Threads -> SUBSET Domains] /\ \A u \in Threads \ {t} : untried'[u] = untried[u]
      BY <1>0, <2>2
    <2> QED
      BY <2>1, <2>2, <2>3, TakeScavengedStep
  <1> QED
    BY <1>1, <1>2

\* ... or out of the deque.
LEMMA PopCurrentStep ==
  ASSUME IInv, NEW t \in Threads, PopCurrent(t)
  PROVE  Proved!TakeBase(t) /\ Shape' /\ Orderly
  <1>0. TypeOK /\ ~thrown /\ Placed /\ Phases /\ Watched
    BY DEF IInv, Shape
  <1> DEFINE s == Head(currentStateDb)
  <1>1. /\ pc[t] = "scavenge" /\ currentStateDb # <<>> /\ StartBase(t, s)
        /\ currentStateDb' = Tail(currentStateDb) /\ depth' = [depth EXCEPT ![t] = 0]
        /\ UNCHANGED <<free, scavenger, carried, untried, thrown>>
    BY DEF PopCurrent
  <1>2. currentStateDb \in Seq(Slots) /\ Distinct(currentStateDb)
    BY <1>0 DEF TypeOK, BaseTypeOK, Placed
  <1>3. /\ currentStateDb' \in Seq(Slots) /\ Distinct(currentStateDb')
        /\ s \in ToSet(currentStateDb) /\ s \in Slots
        /\ ToSet(currentStateDb') = ToSet(currentStateDb) \ {s}
    BY <1>1, <1>2, TailFacts, Members
  <1>4. nextStateDb' = nextStateDb
    BY <1>1 DEF StartBase
  <1> HIDE DEF s
  <1>5. s \in Unprocessed /\ Unprocessed' = Unprocessed \ {s} /\ SetAside' = SetAside /\ Placed'
    <2>1. \A c \in Domains : free'[c] \subseteq Buffer(c)
      BY <1>0, <1>1 DEF Placed
    <2> QED
      BY <1>0, <1>1, <1>3, <1>4, <2>1, TakeCurrentFacts
  <1>6. /\ depth' \in [Threads -> 0 .. ScavengingDepth] /\ depth'[t] = 0
        /\ \A u \in Threads \ {t} : depth'[u] = depth[u]
    BY <1>0, <1>1, NumaAssumption DEF TypeOK
  <1>7. /\ base[t] = Null /\ t \in Active /\ base' = [base EXCEPT ![t] = s]
        /\ UNCHANGED <<nextStateDb, data, fresh, Active>>
        /\ base' \in [Threads -> Slots \union {Null}]
        /\ inputs' \in [Threads -> 0 .. MaxInputs]
        /\ pc' \in [Threads -> {"pop", "scavenge", "place", "others",
                                "run", "otherFree", "steal", "store", "done"}]
        /\ pc'[t] = "run" /\ \A u \in Threads \ {t} : pc'[u] = pc[u] /\ base'[u] = base[u]
        /\ Phases'
    BY <1>0, <1>1, <1>3, <1>6, StartBaseFacts
  <1>8. AllFree' = AllFree
    BY <1>1 DEF AllFree
  <1>9. Proved!TakeBase(t)
    BY ONLY <1>5, <1>7, <1>8 DEF Proved!TakeBase, AllFree, Active
  <1>10. TypeOK'
    BY <1>0, <1>1, <1>3, <1>6, <1>7 DEF TypeOK, BaseTypeOK
  <1>11. Watched'
    BY <1>0, <1>1, <1>6, <1>7, WatchedKept DEF LooksInto, LooksAtDeque
  <1>12. Orderly
    BY <1>1, <1>5, <1>7 DEF Orderly
  <1> QED
    BY <1>0, <1>1, <1>5, <1>7, <1>9, <1>10, <1>11, <1>12 DEF Shape

\* A worker takes storage s for a new state.
LEMMA StartFreshFacts ==
  ASSUME TypeOK, Phases, NEW t \in Threads, NEW s \in Slots, pc[t] \in {"run", "otherFree", "steal"},
         pc[t] = "run" => inputs[t] > 0,
         StartFresh(t, s), UNCHANGED <<carried, depth>>
  PROVE  /\ base[t] # Null /\ fresh[t] = Null /\ fresh' = [fresh EXCEPT ![t] = s]
         /\ fresh'[t] = s /\ data' = [data EXCEPT ![s] = Garbage]
         /\ UNCHANGED <<nextStateDb, base, inputs, Active>>
         /\ fresh' \in [Threads -> Slots \union {Null}]
         /\ data' \in [Slots -> Contents]
         /\ pc' \in [Threads -> {"pop", "scavenge", "place", "others",
                                 "run", "otherFree", "steal", "store", "done"}]
         /\ pc'[t] = "store" /\ \A u \in Threads \ {t} : pc'[u] = pc[u]
         /\ Phases'
  <1>1. /\ fresh' = [fresh EXCEPT ![t] = s] /\ pc' = [pc EXCEPT ![t] = "store"]
        /\ data' = [data EXCEPT ![s] = Garbage]
        /\ UNCHANGED <<nextStateDb, base, inputs>>
    BY DEF StartFresh
  <1>2. /\ fresh \in [Threads -> Slots \union {Null}] /\ data \in [Slots -> Contents]
        /\ pc \in [Threads -> {"pop", "scavenge", "place", "others",
                               "run", "otherFree", "steal", "store", "done"}]
    BY DEF TypeOK, BaseTypeOK
  <1>3. /\ fresh' \in [Threads -> Slots \union {Null}] /\ fresh'[t] = s
        /\ \A u \in Threads \ {t} : fresh'[u] = fresh[u]
    BY ONLY <1>1, <1>2
  <1>4. /\ pc' \in [Threads -> {"pop", "scavenge", "place", "others",
                                "run", "otherFree", "steal", "store", "done"}]
        /\ pc'[t] = "store" /\ \A u \in Threads \ {t} : pc'[u] = pc[u]
    BY ONLY <1>1, <1>2
  <1>5. data' \in [Slots -> Contents]
    BY ONLY <1>1, <1>2 DEF Contents
  <1>6. base[t] # Null /\ fresh[t] = Null /\ carried[t] = Null /\ inputs[t] > 0 /\ depth[t] = 0
    BY DEF Phases, PhaseOf
  <1>7. PhaseOf(t)'
    BY <1>1, <1>3, <1>4, <1>6, StateDbAssumption DEF PhaseOf
  <1>8. Phases'
    BY <1>1, <1>3, <1>4, <1>7, PhasesKept
  <1>9. Active' = Active
    BY <1>4, ActiveKept
  <1> QED
    BY <1>1, <1>3, <1>4, <1>5, <1>6, <1>8, <1>9

LEMMA TakeFreeStep ==
  ASSUME IInv, NEW t \in Threads, NEW d \in Domains, NEW s \in free[d],
         pc[t] \in {"run", "otherFree"}, inputs[t] > 0, StartFresh(t, s),
         free' = [free EXCEPT ![d] = @ \ {s}],
         untried' \in [Threads -> SUBSET Domains], \A u \in Threads \ {t} : untried'[u] = untried[u],
         UNCHANGED <<currentStateDb, scavenger, carried, depth, thrown>>
  PROVE  Proved!TakeFree(t) /\ Shape' /\ Orderly
  <1>0. TypeOK /\ ~thrown /\ Placed /\ Phases /\ Watched
    BY DEF IInv, Shape
  <1>1. /\ AllFree' = AllFree \ {s} /\ s \in AllFree /\ s \in Slots
        /\ free' \in [Domains -> SUBSET Slots]
        /\ \A c \in Domains : free'[c] \subseteq Buffer(c)
    BY <1>0, TakeFreeFacts
  <1>2. /\ base[t] # Null /\ fresh[t] = Null /\ fresh' = [fresh EXCEPT ![t] = s]
        /\ fresh'[t] = s /\ data' = [data EXCEPT ![s] = Garbage]
        /\ UNCHANGED <<nextStateDb, base, inputs, Active>>
        /\ fresh' \in [Threads -> Slots \union {Null}]
        /\ data' \in [Slots -> Contents]
        /\ pc' \in [Threads -> {"pop", "scavenge", "place", "others",
                                "run", "otherFree", "steal", "store", "done"}]
        /\ pc'[t] = "store" /\ \A u \in Threads \ {t} : pc'[u] = pc[u]
        /\ Phases'
    BY <1>0, <1>1, StartFreshFacts
  <1>3. /\ UNCHANGED <<Scavenged, Carried>>
    BY DEF Scavenged, Carried
  <1>4. Unprocessed' = Unprocessed /\ SetAside' = SetAside
    BY <1>3 DEF Unprocessed, SetAside
  <1>5. Placed'
    BY <1>0, <1>1, <1>2 DEF Placed
  <1>6. Proved!TakeFree(t)
    BY ONLY <1>1, <1>2, <1>4 DEF Proved!TakeFree, AllFree, Active
  <1>7. TypeOK'
    BY <1>0, <1>1, <1>2 DEF TypeOK, BaseTypeOK
  <1>8. Watched'
    BY <1>0, <1>2, WatchedKept DEF LooksInto, LooksAtDeque
  <1>9. Orderly
    BY <1>1, <1>2, <1>4 DEF Orderly
  <1> QED
    BY <1>0, <1>2, <1>5, <1>6, <1>7, <1>8, <1>9 DEF Shape

LEMMA PopFreeStep ==
  ASSUME IInv, NEW t \in Threads, PopOwnFree(t) \/ PopOtherFree(t)
  PROVE  Proved!TakeFree(t) /\ Shape' /\ Orderly
  <1>0. TypeOK /\ Phases /\ untried \in [Threads -> SUBSET Domains]
    BY DEF IInv, Shape, TypeOK
  <1>1. CASE PopOwnFree(t)
    <2>1. Preferred[t] \in Domains
      BY NumaAssumption
    <2>2. PICK s \in free[Preferred[t]] : /\ free' = [free EXCEPT ![Preferred[t]] = @ \ {s}]
                                          /\ StartFresh(t, s)
      BY <1>1 DEF PopOwnFree
    <2> QED
      BY <1>0, <1>1, <2>1, <2>2, TakeFreeStep DEF PopOwnFree
  <1>2. CASE PopOtherFree(t)
    <2> DEFINE d == Min(untried[t])
    <2>1. d \in Domains
      BY <1>0, <1>2, UntriedFacts DEF PopOtherFree
    <2>2. /\ pc[t] = "otherFree"
          /\ \E s \in free[d] : free' = [free EXCEPT ![d] = @ \ {s}] /\ StartFresh(t, s)
          /\ untried' = [untried EXCEPT ![t] = {}]
          /\ UNCHANGED <<currentStateDb, scavenger, carried, depth, thrown>>
      BY <1>2 DEF PopOtherFree
    <2> HIDE DEF d
    <2>3. PICK s \in free[d] : free' = [free EXCEPT ![d] = @ \ {s}] /\ StartFresh(t, s)
      BY <2>2
    <2>4. untried' \in [Threads -> SUBSET Domains] /\ \A u \in Threads \ {t} : untried'[u] = untried[u]
      BY <1>0, <2>2
    <2>5. inputs[t] > 0
      BY <1>0, <2>2 DEF Phases, PhaseOf
    <2> QED
      BY <2>1, <2>2, <2>3, <2>4, <2>5, TakeFreeStep
  <1> QED
    BY <1>1, <1>2

\* Storage is that of the last base state in the deque.
LEMMA StealStateStep ==
  ASSUME IInv, NEW t \in Threads, StealState(t)
  PROVE  /\ Proved!Evict(t) /\ Shape' /\ Orderly
         /\ Last(currentStateDb) \in ToSet(currentStateDb) /\ fresh'[t] = Last(currentStateDb)
  <1>0. TypeOK /\ ~thrown /\ Placed /\ Phases /\ Watched
    BY DEF IInv, Shape
  <1> DEFINE s == Last(currentStateDb)
  <1>1. /\ pc[t] = "steal" /\ currentStateDb # <<>> /\ StartFresh(t, s)
        /\ currentStateDb' = Front(currentStateDb)
        /\ UNCHANGED <<free, scavenger, carried, depth, untried, thrown>>
    BY DEF StealState, numaVars
  <1>2. currentStateDb \in Seq(Slots) /\ Distinct(currentStateDb)
    BY <1>0 DEF TypeOK, BaseTypeOK, Placed
  <1>3. /\ currentStateDb' \in Seq(Slots) /\ Distinct(currentStateDb')
        /\ s \in ToSet(currentStateDb) /\ s \in Slots
        /\ ToSet(currentStateDb') = ToSet(currentStateDb) \ {s}
    BY <1>1, <1>2, FrontFacts, Members
  <1> HIDE DEF s
  <1>4. /\ base[t] # Null /\ fresh[t] = Null /\ fresh' = [fresh EXCEPT ![t] = s]
        /\ fresh'[t] = s /\ data' = [data EXCEPT ![s] = Garbage]
        /\ UNCHANGED <<nextStateDb, base, inputs, Active>>
        /\ fresh' \in [Threads -> Slots \union {Null}]
        /\ data' \in [Slots -> Contents]
        /\ pc' \in [Threads -> {"pop", "scavenge", "place", "others",
                                "run", "otherFree", "steal", "store", "done"}]
        /\ pc'[t] = "store" /\ \A u \in Threads \ {t} : pc'[u] = pc[u]
        /\ Phases'
    BY <1>0, <1>1, <1>3, StartFreshFacts
  <1>5. s \in Unprocessed /\ Unprocessed' = Unprocessed \ {s} /\ SetAside' = SetAside /\ Placed'
    <2>1. \A c \in Domains : free'[c] \subseteq Buffer(c)
      BY <1>0, <1>1 DEF Placed
    <2> QED
      BY <1>0, <1>1, <1>3, <1>4, <2>1, TakeCurrentFacts
  <1>6. AllFree' = AllFree
    BY <1>1 DEF AllFree
  <1>7. Proved!Evict(t)
    BY ONLY <1>4, <1>5, <1>6 DEF Proved!Evict, AllFree, Active
  <1>8. TypeOK'
    BY <1>0, <1>1, <1>3, <1>4 DEF TypeOK, BaseTypeOK
  <1>9. Watched'
    BY <1>0, <1>1, <1>4, WatchedKept DEF LooksInto, LooksAtDeque
  <1>10. Orderly
    BY <1>1, <1>3, <1>4, <1>5 DEF Orderly
  <1> QED
    BY <1>0, <1>1, <1>3, <1>4, <1>5, <1>7, <1>8, <1>9, <1>10 DEF Shape, s

\* A worker goes on to its next access without moving a slot.
LEMMA MoveStep ==
  ASSUME IInv, NEW t \in Threads,
         UNCHANGED <<currentStateDb, nextStateDb, data, base, fresh, free, scavenger, carried, thrown>>,
         pc' \in [Threads -> {"pop", "scavenge", "place", "others",
                              "run", "otherFree", "steal", "store", "done"}],
         inputs' \in [Threads -> 0 .. MaxInputs],
         depth' \in [Threads -> 0 .. ScavengingDepth],
         untried' \in [Threads -> SUBSET Domains],
         \A u \in Threads \ {t} : pc'[u] = pc[u] /\ inputs'[u] = inputs[u] /\ depth'[u] = depth[u],
         pc[t] # "done", pc'[t] # "done", PhaseOf(t)', Watched'
  PROVE  UNCHANGED poolVars /\ Shape' /\ Orderly
  <1>0. TypeOK /\ ~thrown /\ Placed /\ Phases
    BY DEF IInv, Shape
  <1>1. TypeOK'
    BY <1>0 DEF TypeOK, BaseTypeOK
  <1>2. Phases'
    BY <1>0, PhasesKept
  <1>3. Placed'
    BY <1>0 DEF Placed
  <1>4. Active' = Active
    BY ActiveKept
  <1>5. Scavenged' = Scavenged /\ Carried' = Carried /\ AllFree' = AllFree
    BY DEF Scavenged, Carried, AllFree
  <1>6. Unprocessed' = Unprocessed /\ SetAside' = SetAside
    BY <1>5 DEF Unprocessed, SetAside
  <1>7. UNCHANGED poolVars
    BY <1>4, <1>5, <1>6 DEF poolVars
  <1>8. Orderly
    BY <1>6 DEF Orderly
  <1> QED
    BY <1>0, <1>1, <1>2, <1>3, <1>7, <1>8 DEF Shape

LEMMA LookForBaseStep ==
  ASSUME IInv, NEW t \in Threads, OwnScavengerEmpty(t) \/ StopScavenging(t) \/ OtherScavengerEmpty(t)
  PROVE  UNCHANGED poolVars /\ Shape' /\ Orderly
  <1>0. /\ TypeOK /\ Phases /\ Watched /\ PhaseOf(t) /\ inputs \in [Threads -> 0 .. MaxInputs]
        /\ depth \in [Threads -> 0 .. ScavengingDepth] /\ untried \in [Threads -> SUBSET Domains]
        /\ pc \in [Threads -> {"pop", "scavenge", "place", "others",
                               "run", "otherFree", "steal", "store", "done"}]
        /\ ScavengingDepth \in Nat \ {0}
    BY NumaAssumption DEF IInv, Shape, TypeOK, BaseTypeOK, Phases
  <1>1. CASE OwnScavengerEmpty(t)
    <2>1. /\ pc[t] = "pop" /\ pc' = [pc EXCEPT ![t] = "scavenge"]
          /\ UNCHANGED <<currentStateDb, nextStateDb, data, base, fresh, inputs,
                         free, scavenger, carried, depth, untried, thrown>>
      BY <1>1 DEF OwnScavengerEmpty, numaVars
    <2>2. /\ pc'[t] = "scavenge" /\ \A u \in Threads \ {t} : pc'[u] = pc[u]
          /\ pc' \in [Threads -> {"pop", "scavenge", "place", "others",
                                  "run", "otherFree", "steal", "store", "done"}]
      BY <1>0, <2>1
    <2>3. depth[t] = 0
      BY <1>0, <2>1 DEF PhaseOf
    <2>4. PhaseOf(t)'
      BY <1>0, <2>1, <2>2 DEF PhaseOf
    <2>5. Watched'
      BY <1>0, <2>1, <2>2, <2>3, WatchedKept DEF LooksInto, LooksAtDeque
    <2> QED
      BY <1>0, <2>1, <2>2, <2>4, <2>5, MoveStep
  <1>2. CASE StopScavenging(t)
    <2>1. /\ pc[t] = "scavenge" /\ pc' = [pc EXCEPT ![t] = "others"]
          /\ depth[t] = ScavengingDepth \/ currentStateDb = <<>>
          /\ untried' = [untried EXCEPT ![t] = Others(t)] /\ depth' = [depth EXCEPT ![t] = 0]
          /\ UNCHANGED <<currentStateDb, nextStateDb, data, base, fresh, inputs,
                         free, scavenger, carried, thrown>>
      BY <1>2 DEF StopScavenging
    <2>2. /\ pc'[t] = "others" /\ \A u \in Threads \ {t} : pc'[u] = pc[u]
          /\ pc' \in [Threads -> {"pop", "scavenge", "place", "others",
                                  "run", "otherFree", "steal", "store", "done"}]
      BY <1>0, <2>1
    <2>3. /\ untried'[t] = Others(t) /\ \A u \in Threads \ {t} : untried'[u] = untried[u]
          /\ untried' \in [Threads -> SUBSET Domains]
      BY <1>0, <2>1 DEF Others
    <2>4. /\ depth'[t] = 0 /\ \A u \in Threads \ {t} : depth'[u] = depth[u]
          /\ depth' \in [Threads -> 0 .. ScavengingDepth]
      BY <1>0, <2>1
    <2>5. PhaseOf(t)'
      BY <1>0, <2>1, <2>2, <2>4 DEF PhaseOf
    <2>6. \A u \in Threads \ {t} : /\ \A d \in Domains : LooksInto(u, d)' <=> LooksInto(u, d)
                                   /\ LooksAtDeque(u)' <=> LooksAtDeque(u)
      BY <2>2, <2>3, <2>4 DEF LooksInto, LooksAtDeque
    <2>7. \A d \in Domains : LooksInto(t, d) => LooksInto(t, d)'
      BY <2>2, <2>3 DEF LooksInto, Others
    <2>8. ~LooksAtDeque(t) \/ currentStateDb = <<>>
      BY <1>0, <2>1 DEF LooksAtDeque
    <2>9. Watched'
      BY <1>0, <2>1, <2>6, <2>7, <2>8 DEF Watched
    <2> QED
      BY <1>0, <2>1, <2>2, <2>3, <2>4, <2>5, <2>9, MoveStep
  <1>3. CASE OtherScavengerEmpty(t)
    <2> DEFINE d == Min(untried[t])
    <2>1. /\ pc[t] = "others" /\ scavenger[d] = <<>>
          /\ untried' = [untried EXCEPT ![t] = untried[t] \ {d}]
          /\ UNCHANGED <<currentStateDb, nextStateDb, data, base, fresh, inputs, pc,
                         free, scavenger, carried, depth, thrown>>
      BY <1>3 DEF OtherScavengerEmpty, baseVars
    <2> HIDE DEF d
    <2>2. /\ untried'[t] = untried[t] \ {d} /\ \A u \in Threads \ {t} : untried'[u] = untried[u]
          /\ untried' \in [Threads -> SUBSET Domains]
      BY <1>0, <2>1
    <2>3. PhaseOf(t)'
      BY <1>0, <2>1 DEF PhaseOf
    <2>4. Watched'
      BY <1>0, <2>1, <2>2, WatchedKept DEF LooksInto, LooksAtDeque
    <2> QED
      BY <1>0, <2>1, <2>2, <2>3, <2>4, MoveStep
  <1> QED
    BY <1>1, <1>2, <1>3

LEMMA LookForStorageStep ==
  ASSUME IInv, NEW t \in Threads,
         OwnFreeEmpty(t) \/ OtherFreeEmpty(t) \/ AllFreeEmpty(t) \/ StealNothing(t)
  PROVE  UNCHANGED poolVars /\ Shape' /\ Orderly
  <1>0. /\ TypeOK /\ Phases /\ Watched /\ PhaseOf(t) /\ inputs \in [Threads -> 0 .. MaxInputs]
        /\ depth \in [Threads -> 0 .. ScavengingDepth] /\ untried \in [Threads -> SUBSET Domains]
        /\ pc \in [Threads -> {"pop", "scavenge", "place", "others",
                               "run", "otherFree", "steal", "store", "done"}]
        /\ MaxInputs \in Nat
    BY StateDbAssumption DEF IInv, Shape, TypeOK, BaseTypeOK, Phases
  <1>1. /\ UNCHANGED <<currentStateDb, nextStateDb, data, base, fresh, free, scavenger, carried,
                       depth, thrown>>
        /\ pc[t] \in {"run", "otherFree", "steal"}
        /\ pc[t] = "run" => inputs[t] > 0
    BY DEF OwnFreeEmpty, OtherFreeEmpty, AllFreeEmpty, StealNothing, DropState, baseVars, numaVars
  <1>2. inputs[t] > 0
    BY <1>0, <1>1 DEF PhaseOf
  <1>3. \/ pc' = pc
        \/ pc' = [pc EXCEPT ![t] = "otherFree"]
        \/ pc' = [pc EXCEPT ![t] = "steal"]
        \/ pc' = [pc EXCEPT ![t] = "run"]
    BY DEF OwnFreeEmpty, OtherFreeEmpty, AllFreeEmpty, StealNothing, DropState, baseVars
  <1>4. /\ pc'[t] \in {"run", "otherFree", "steal"} /\ \A u \in Threads \ {t} : pc'[u] = pc[u]
        /\ pc' \in [Threads -> {"pop", "scavenge", "place", "others",
                                "run", "otherFree", "steal", "store", "done"}]
    BY ONLY <1>0, <1>1, <1>3
  <1>5. untried' \in [Threads -> SUBSET Domains] /\ \A u \in Threads \ {t} : untried'[u] = untried[u]
    BY <1>0 DEF OwnFreeEmpty, OtherFreeEmpty, AllFreeEmpty, StealNothing, numaVars, Others
  <1>6. \/ inputs' = inputs
        \/ StealNothing(t) /\ inputs' = [inputs EXCEPT ![t] = @ - 1] /\ pc' = [pc EXCEPT ![t] = "run"]
    BY DEF OwnFreeEmpty, OtherFreeEmpty, AllFreeEmpty, StealNothing, DropState, baseVars
  <1>7. /\ inputs' \in [Threads -> 0 .. MaxInputs] /\ \A u \in Threads \ {t} : inputs'[u] = inputs[u]
        /\ inputs'[t] > 0 \/ pc'[t] = "run"
    BY <1>0, <1>2, <1>6
  <1>8. PhaseOf(t)'
    BY <1>0, <1>1, <1>4, <1>7 DEF PhaseOf
  <1>9. Watched'
    BY <1>0, <1>1, <1>4, <1>5, WatchedKept DEF LooksInto, LooksAtDeque
  <1> QED
    BY <1>0, <1>1, <1>4, <1>5, <1>7, <1>8, <1>9, MoveStep

\* A base state moves from the deque to a worker's hands and on to a scavenger queue.
LEMMA CarryStep ==
  ASSUME Apart, IInv, NEW t \in Threads, PopForeign(t) \/ PlaceForeign(t)
  PROVE  UNCHANGED poolVars /\ Shape' /\ Orderly
  <1>0. /\ TypeOK /\ ~thrown /\ Placed /\ Phases /\ Watched /\ PhaseOf(t)
        /\ depth \in [Threads -> 0 .. ScavengingDepth] /\ carried \in [Threads -> Slots \union {Null}]
        /\ pc \in [Threads -> {"pop", "scavenge", "place", "others",
                               "run", "otherFree", "steal", "store", "done"}]
        /\ ScavengingDepth \in Nat \ {0}
    BY NumaAssumption DEF IInv, Shape, TypeOK, BaseTypeOK, Phases
  <1>1. UNCHANGED <<nextStateDb, data, base, fresh, inputs, free, untried, thrown>>
    BY DEF PopForeign, PlaceForeign
  <1>2. AllFree' = AllFree
    BY <1>1 DEF AllFree
  <1>3. CASE PopForeign(t)
    <2> DEFINE s == Head(currentStateDb)
    <2>1. /\ pc[t] = "scavenge" /\ depth[t] < ScavengingDepth
          /\ GetStateNumaDomain(s) # Preferred[t]
          /\ carried' = [carried EXCEPT ![t] = s] /\ pc' = [pc EXCEPT ![t] = "place"]
          /\ UNCHANGED <<scavenger, depth>>
      BY <1>3 DEF PopForeign
    <2>2. /\ currentStateDb # <<>> /\ currentStateDb' = Tail(currentStateDb)
          /\ currentStateDb' \in Seq(Slots) /\ s \in Slots
          /\ Unprocessed' = Unprocessed /\ SetAside' = SetAside \union {s} /\ Placed'
      BY <1>0, <1>3, PopForeignFacts
    <2>3. Orderly
      BY <1>1, <2>2 DEF Orderly
    <2> HIDE DEF s
    <2>4. /\ pc'[t] = "place" /\ \A u \in Threads \ {t} : pc'[u] = pc[u]
          /\ pc' \in [Threads -> {"pop", "scavenge", "place", "others",
                                  "run", "otherFree", "steal", "store", "done"}]
      BY <1>0, <2>1
    <2>5. /\ carried'[t] = s /\ \A u \in Threads \ {t} : carried'[u] = carried[u]
          /\ carried' \in [Threads -> Slots \union {Null}]
      BY <1>0, <2>1, <2>2
    <2>6. TypeOK'
      BY <1>0, <1>1, <2>1, <2>2, <2>4, <2>5 DEF TypeOK, BaseTypeOK
    <2>7. GetStateNumaDomain(carried'[t]) = GetStateNumaDomain(s)
      BY <2>5
    <2>8. PhaseOf(t)'
      <3>1. base[t] = Null /\ fresh[t] = Null /\ s # Null
        BY <1>0, <2>1, <2>2, StateDbAssumption DEF PhaseOf
      <3>2. GetStateNumaDomain(carried[t])' # Preferred[t]
        BY <2>1, <2>7 DEF GetStateNumaDomain
      <3> QED
        BY <1>1, <2>1, <2>4, <2>5, <3>1, <3>2 DEF PhaseOf
    <2>9. Phases'
      BY <1>0, <1>1, <2>1, <2>4, <2>5, <2>8, PhasesKept
    <2>10. Watched'
      BY <1>0, <1>1, <2>1, <2>2, <2>4, WatchedKept DEF LooksInto, LooksAtDeque
    <2>11. Active' = Active
      BY <2>1, <2>4, ActiveKept
    <2>12. UNCHANGED poolVars
      BY <1>1, <1>2, <2>2, <2>11 DEF poolVars
    <2> QED
      BY <1>0, <1>1, <2>2, <2>3, <2>6, <2>9, <2>10, <2>12 DEF Shape
  <1>4. CASE PlaceForeign(t)
    <2> DEFINE d == GetStateNumaDomain(carried[t])
    <2>1. /\ pc[t] = "place" /\ pc' = [pc EXCEPT ![t] = "scavenge"]
          /\ depth' = [depth EXCEPT ![t] = @ + 1] /\ carried' = [carried EXCEPT ![t] = Null]
          /\ currentStateDb' = currentStateDb
      BY <1>4 DEF PlaceForeign
    <2>2. /\ d \in Domains /\ d # Preferred[t] /\ scavenger'[d] # <<>>
          /\ scavenger' \in [Domains -> Seq(Slots)]
          /\ \A c \in Domains \ {d} : scavenger'[c] = scavenger[c]
          /\ \A c \in Domains : scavenger[c] # <<>> => scavenger'[c] # <<>>
          /\ Unprocessed' = Unprocessed /\ SetAside' = SetAside /\ Placed'
      BY <1>0, <1>4, PlaceForeignFacts
    <2> HIDE DEF d
    <2>3. depth[t] < ScavengingDepth /\ base[t] = Null /\ fresh[t] = Null
      BY <1>0, <2>1 DEF PhaseOf
    <2>4. /\ pc'[t] = "scavenge" /\ \A u \in Threads \ {t} : pc'[u] = pc[u]
          /\ pc' \in [Threads -> {"pop", "scavenge", "place", "others",
                                  "run", "otherFree", "steal", "store", "done"}]
      BY <1>0, <2>1
    <2>5. /\ carried'[t] = Null /\ \A u \in Threads \ {t} : carried'[u] = carried[u]
          /\ carried' \in [Threads -> Slots \union {Null}]
      BY <1>0, <2>1
    <2>6. /\ \A u \in Threads \ {t} : depth'[u] = depth[u]
          /\ depth' \in [Threads -> 0 .. ScavengingDepth]
      BY <1>0, <2>1, <2>3
    <2>7. TypeOK'
      BY <1>0, <1>1, <2>1, <2>2, <2>4, <2>5, <2>6 DEF TypeOK, BaseTypeOK
    <2>8. PhaseOf(t)'
      BY <1>1, <2>3, <2>4, <2>5 DEF PhaseOf
    <2>9. Phases'
      BY <1>0, <1>1, <2>4, <2>5, <2>6, <2>8, PhasesKept
    <2>10. /\ \A u \in Threads \ {t} : /\ \A c \in Domains : LooksInto(u, c)' <=> LooksInto(u, c)
                                       /\ LooksAtDeque(u)' <=> LooksAtDeque(u)
           /\ \A c \in Domains : c = d \/ LooksInto(t, c) => LooksInto(t, c)'
      BY <1>1, <2>1, <2>2, <2>4, <2>6 DEF LooksInto, LooksAtDeque
    <2>11. ASSUME NEW c \in Domains, scavenger'[c] # <<>> PROVE \E u \in Threads : LooksInto(u, c)'
      <3>1. CASE c = d
        BY <2>10, <3>1
      <3>2. CASE c # d
        <4>1. PICK u \in Threads : LooksInto(u, c)
          BY <1>0, <2>2, <2>11, <3>2 DEF Watched
        <4> QED
          BY <2>10, <4>1
      <3> QED
        BY <3>1, <3>2
    <2>12. Watched'
      BY <2>2, <2>11 DEF Watched
    <2>13. Active' = Active
      BY <2>1, <2>4, ActiveKept
    <2>14. UNCHANGED poolVars
      BY <1>1, <1>2, <2>2, <2>13 DEF poolVars
    <2>15. Orderly
      BY <1>1, <2>1, <2>2 DEF Orderly
    <2> QED
      BY <1>0, <1>1, <2>2, <2>7, <2>9, <2>12, <2>14, <2>15 DEF Shape
  <1> QED
    BY <1>3, <1>4

\* A worker that finds nothing stops.  If it is the last one, nothing is left.
LEMMA PopNothingStep ==
  ASSUME IInv, NEW t \in Threads, PopNothing(t)
  PROVE  Proved!Stop(t) /\ Shape' /\ Orderly
  <1>0. /\ TypeOK /\ ~thrown /\ Placed /\ Phases /\ Watched /\ PhaseOf(t)
        /\ pc \in [Threads -> {"pop", "scavenge", "place", "others",
                               "run", "otherFree", "steal", "store", "done"}]
    BY DEF IInv, Shape, TypeOK, Phases
  <1>1. /\ pc[t] = "others" /\ untried[t] = {} /\ pc' = [pc EXCEPT ![t] = "done"]
        /\ UNCHANGED <<currentStateDb, nextStateDb, data, base, fresh, inputs,
                       free, scavenger, carried, depth, untried, thrown>>
    BY DEF PopNothing, StopWorker, numaVars
  <1>2. /\ pc'[t] = "done" /\ \A u \in Threads \ {t} : pc'[u] = pc[u]
        /\ pc' \in [Threads -> {"pop", "scavenge", "place", "others",
                                "run", "otherFree", "steal", "store", "done"}]
    BY <1>0, <1>1
  <1>3. base[t] = Null /\ fresh[t] = Null /\ carried[t] = Null /\ depth[t] = 0
    BY <1>0, <1>1 DEF PhaseOf
  <1>4. TypeOK' /\ Placed'
    BY <1>0, <1>1, <1>2 DEF TypeOK, BaseTypeOK, Placed
  <1>5. PhaseOf(t)'
    BY <1>1, <1>2, <1>3 DEF PhaseOf
  <1>6. Phases'
    BY <1>0, <1>1, <1>2, <1>5, PhasesKept
  <1>7. (\A d \in Domains : ~LooksInto(t, d)) /\ ~LooksAtDeque(t)
    BY <1>1 DEF LooksInto, LooksAtDeque
  <1>8. Watched'
    <2>1. \A u \in Threads \ {t} : /\ \A d \in Domains : LooksInto(u, d)' <=> LooksInto(u, d)
                                   /\ LooksAtDeque(u)' <=> LooksAtDeque(u)
      BY <1>1, <1>2 DEF LooksInto, LooksAtDeque
    <2> QED
      BY <1>0, <1>1, <1>7, <2>1 DEF Watched
  <1>9. Active' = Active \ {t} /\ t \in Active
    BY <1>1, <1>2 DEF Active
  <1>10. ASSUME Active = {t} PROVE Unprocessed = {}
    <2>1. \A u \in Threads \ {t} : pc[u] = "done"
      BY <1>10 DEF Active
    <2>2. \A u \in Threads : /\ ~LooksAtDeque(u) /\ \A d \in Domains : ~LooksInto(u, d)
                             /\ carried[u] = Null
      <3> TAKE u \in Threads
      <3>1. CASE u = t
        BY <1>3, <1>7, <3>1
      <3>2. CASE u # t
        <4>1. pc[u] = "done" /\ PhaseOf(u)
          BY <1>0, <2>1, <3>2 DEF Phases
        <4> QED
          BY <4>1 DEF LooksAtDeque, LooksInto, PhaseOf
      <3> QED
        BY <3>1, <3>2
    <2>3. currentStateDb = <<>> /\ \A d \in Domains : scavenger[d] = <<>>
      BY <1>0, <2>2 DEF Watched
    <2>4. ToSet(<<>>) = {}
      BY DEF ToSet
    <2>5. Scavenged = {} /\ Carried = {}
      BY <2>2, <2>3, <2>4 DEF Scavenged, Carried
    <2> QED
      BY <2>3, <2>4, <2>5 DEF Unprocessed
  <1>11. /\ AllFree' = AllFree /\ Scavenged' = Scavenged /\ Carried' = Carried
    BY <1>1 DEF AllFree, Scavenged, Carried
  <1>12. Unprocessed' = Unprocessed /\ SetAside' = SetAside
    BY <1>1, <1>11 DEF Unprocessed, SetAside
  <1>13. Proved!Stop(t)
    BY ONLY <1>1, <1>3, <1>9, <1>10, <1>11, <1>12 DEF Proved!Stop, AllFree, Active
  <1>14. Orderly
    BY <1>1, <1>12 DEF Orderly
  <1> QED
    BY <1>0, <1>1, <1>4, <1>6, <1>8, <1>13, <1>14 DEF Shape

\* The new state joins the next database.
LEMMA PushStep ==
  ASSUME IInv, NEW t \in Threads, Push(t)
  PROVE  Proved!Store(t) /\ Shape'
  <1>0. /\ TypeOK /\ ~thrown /\ Placed /\ Phases /\ Watched /\ PhaseOf(t)
        /\ nextStateDb \in Seq(Slots) /\ Distinct(nextStateDb) /\ data \in [Slots -> Contents]
        /\ fresh \in [Threads -> Slots \union {Null}] /\ inputs \in [Threads -> 0 .. MaxInputs]
        /\ pc \in [Threads -> {"pop", "scavenge", "place", "others",
                               "run", "otherFree", "steal", "store", "done"}]
        /\ MaxInputs \in Nat
    BY StateDbAssumption DEF IInv, Shape, TypeOK, BaseTypeOK, Phases, Placed
  <1>1. /\ pc[t] = "store" /\ pc' = [pc EXCEPT ![t] = "run"]
        /\ fresh' = [fresh EXCEPT ![t] = Null] /\ inputs' = [inputs EXCEPT ![t] = @ - 1]
        /\ UNCHANGED <<currentStateDb, base, free, scavenger, carried, depth, untried, thrown>>
    BY DEF Push, PushState, numaVars
  <1>2. PICK r \in Rewards :
           /\ data' = [data EXCEPT ![fresh[t]] = [reward |-> r, against |-> "current"]]
           /\ \E i \in InsertionPoints(r) : nextStateDb' = InsertAt(nextStateDb, i, fresh[t])
    BY DEF Push, PushState
  <1>3. PICK i \in InsertionPoints(r) : nextStateDb' = InsertAt(nextStateDb, i, fresh[t])
    BY <1>2
  <1>4. i \in 1 .. Len(nextStateDb) + 1
    BY <1>3 DEF InsertionPoints
  <1>5. /\ fresh[t] \in Slots /\ fresh[t] # Null /\ inputs[t] > 0 /\ base[t] # Null
        /\ carried[t] = Null /\ depth[t] = 0
    BY <1>0, <1>1 DEF PhaseOf
  <1>6. fresh[t] \notin ToSet(nextStateDb)
    BY <1>5 DEF IInv, Proved!IInv, Proved!SlotsConserved, Proved!Held
  <1>7. /\ nextStateDb' \in Seq(Slots) /\ Distinct(nextStateDb')
        /\ ToSet(nextStateDb') = ToSet(nextStateDb) \union {fresh[t]}
    BY <1>0, <1>3, <1>4, <1>5, <1>6, InsertFacts
  <1>8. data' \in [Slots -> Contents]
    <2>1. [reward |-> r, against |-> "current"] \in Contents
      BY DEF Contents, States, References
    <2> QED
      BY ONLY <1>0, <1>2, <1>5, <2>1
  <1>9. /\ pc'[t] = "run" /\ \A u \in Threads \ {t} : pc'[u] = pc[u]
        /\ pc' \in [Threads -> {"pop", "scavenge", "place", "others",
                                "run", "otherFree", "steal", "store", "done"}]
    BY ONLY <1>0, <1>1
  <1>10. /\ fresh'[t] = Null /\ \A u \in Threads \ {t} : fresh'[u] = fresh[u]
         /\ fresh' \in [Threads -> Slots \union {Null}]
    BY ONLY <1>0, <1>1
  <1>11. /\ \A u \in Threads \ {t} : inputs'[u] = inputs[u]
         /\ inputs' \in [Threads -> 0 .. MaxInputs]
    BY ONLY <1>0, <1>1, <1>5
  <1>12. TypeOK'
    BY <1>0, <1>1, <1>7, <1>8, <1>9, <1>10, <1>11 DEF TypeOK, BaseTypeOK
  <1>13. PhaseOf(t)'
    BY <1>1, <1>5, <1>9, <1>10 DEF PhaseOf
  <1>14. Phases'
    BY <1>0, <1>1, <1>9, <1>10, <1>11, <1>13, PhasesKept
  <1>15. Placed'
    BY <1>0, <1>1, <1>7 DEF Placed
  <1>16. Watched'
    BY <1>0, <1>1, <1>9, WatchedKept DEF LooksInto, LooksAtDeque
  <1>17. Active' = Active
    BY <1>1, <1>9, ActiveKept
  <1>18. AllFree' = AllFree /\ Unprocessed' = Unprocessed
    BY <1>1 DEF AllFree, Unprocessed, Scavenged, Carried
  <1>19. Proved!Store(t)
    BY ONLY <1>1, <1>5, <1>7, <1>17, <1>18 DEF Proved!Store, AllFree, Active
  <1> QED
    BY <1>0, <1>1, <1>12, <1>14, <1>15, <1>16, <1>19 DEF Shape

\* A worker is done with the slot it has filled, or with its base state.
LEMMA ReturnFreshStep ==
  ASSUME Apart, IInv, NEW t \in Threads, ReturnFresh(t)
  PROVE  Proved!GiveBack(t) /\ Shape' /\ Orderly
  <1> DEFINE s == fresh[t]
  <1>0. /\ TypeOK /\ ~thrown /\ Placed /\ Phases /\ Watched /\ PhaseOf(t)
        /\ data \in [Slots -> Contents]
        /\ fresh \in [Threads -> Slots \union {Null}] /\ inputs \in [Threads -> 0 .. MaxInputs]
        /\ pc \in [Threads -> {"pop", "scavenge", "place", "others",
                               "run", "otherFree", "steal", "store", "done"}]
        /\ MaxInputs \in Nat
    BY StateDbAssumption DEF IInv, Shape, TypeOK, BaseTypeOK, Phases
  <1>1. /\ pc[t] = "store" /\ pc' = [pc EXCEPT ![t] = "run"]
        /\ ReturnFreeState(s) /\ data' = [data EXCEPT ![s] = Garbage]
        /\ fresh' = [fresh EXCEPT ![t] = Null] /\ inputs' = [inputs EXCEPT ![t] = @ - 1]
        /\ UNCHANGED <<currentStateDb, nextStateDb, base, scavenger, carried, depth, untried>>
    BY DEF ReturnFresh, ReleaseFresh, ReturnFreeState
  <1>2. /\ s \in Slots /\ s # Null /\ inputs[t] > 0 /\ base[t] # Null
        /\ carried[t] = Null /\ depth[t] = 0
    BY <1>0, <1>1 DEF PhaseOf
  <1>3. s \notin AllFree
    BY <1>2 DEF IInv, Proved!IInv, Proved!SlotsConserved, Proved!Held, AllFree
  <1>4. /\ AllFree' = AllFree \union {s} /\ thrown' = thrown
        /\ free' \in [Domains -> SUBSET Slots]
        /\ \A c \in Domains : free'[c] \subseteq Buffer(c)
    BY <1>0, <1>1, <1>2, <1>3, ReturnFacts
  <1>5. data' \in [Slots -> Contents]
    BY ONLY <1>0, <1>1, <1>2 DEF Contents
  <1>6. /\ pc'[t] = "run" /\ \A u \in Threads \ {t} : pc'[u] = pc[u]
        /\ pc' \in [Threads -> {"pop", "scavenge", "place", "others",
                                "run", "otherFree", "steal", "store", "done"}]
    BY ONLY <1>0, <1>1
  <1>7. /\ fresh'[t] = Null /\ \A u \in Threads \ {t} : fresh'[u] = fresh[u]
        /\ fresh' \in [Threads -> Slots \union {Null}]
    BY ONLY <1>0, <1>1
  <1>8. /\ \A u \in Threads \ {t} : inputs'[u] = inputs[u]
        /\ inputs' \in [Threads -> 0 .. MaxInputs]
    BY ONLY <1>0, <1>1, <1>2
  <1>9. TypeOK'
    BY <1>0, <1>1, <1>4, <1>5, <1>6, <1>7, <1>8 DEF TypeOK, BaseTypeOK
  <1>10. PhaseOf(t)'
    BY <1>1, <1>2, <1>6, <1>7 DEF PhaseOf
  <1>11. Phases'
    BY <1>0, <1>1, <1>6, <1>7, <1>8, <1>10, PhasesKept
  <1>12. Placed'
    BY <1>0, <1>1, <1>4 DEF Placed
  <1>13. Watched'
    BY <1>0, <1>1, <1>6, WatchedKept DEF LooksInto, LooksAtDeque
  <1>14. Active' = Active
    BY <1>1, <1>6, ActiveKept
  <1>15. Unprocessed' = Unprocessed /\ SetAside' = SetAside
    BY <1>1 DEF Unprocessed, SetAside, Scavenged, Carried
  <1>16. Proved!GiveBack(t)
    BY ONLY <1>1, <1>2, <1>4, <1>14, <1>15 DEF Proved!GiveBack, AllFree, Active
  <1>17. Orderly
    BY <1>1, <1>2, <1>4, <1>15 DEF Orderly
  <1> QED
    BY <1>0, <1>4, <1>9, <1>11, <1>12, <1>13, <1>16, <1>17 DEF Shape

LEMMA ReturnBaseStep ==
  ASSUME Apart, IInv, NEW t \in Threads, ReturnBase(t)
  PROVE  Proved!FinishBase(t) /\ Shape' /\ Orderly
  <1> DEFINE s == base[t]
  <1>0. /\ TypeOK /\ ~thrown /\ Placed /\ Phases /\ Watched /\ PhaseOf(t)
        /\ data \in [Slots -> Contents] /\ base \in [Threads -> Slots \union {Null}]
        /\ pc \in [Threads -> {"pop", "scavenge", "place", "others",
                               "run", "otherFree", "steal", "store", "done"}]
    BY DEF IInv, Shape, TypeOK, BaseTypeOK, Phases
  <1>1. /\ pc[t] = "run" /\ pc' = [pc EXCEPT ![t] = "pop"]
        /\ ReturnFreeState(s) /\ data' = [data EXCEPT ![s] = Garbage]
        /\ base' = [base EXCEPT ![t] = Null]
        /\ UNCHANGED <<currentStateDb, nextStateDb, fresh, inputs, scavenger, carried, depth, untried>>
    BY DEF ReturnBase, ReleaseBase, ReturnFreeState
  <1>2. /\ s \in Slots /\ s # Null /\ fresh[t] = Null /\ carried[t] = Null /\ depth[t] = 0
    BY <1>0, <1>1 DEF PhaseOf
  <1>3. s \notin AllFree
    BY <1>2 DEF IInv, Proved!IInv, Proved!SlotsConserved, Proved!Held, AllFree
  <1>4. /\ AllFree' = AllFree \union {s} /\ thrown' = thrown
        /\ free' \in [Domains -> SUBSET Slots]
        /\ \A c \in Domains : free'[c] \subseteq Buffer(c)
    BY <1>0, <1>1, <1>2, <1>3, ReturnFacts
  <1>5. data' \in [Slots -> Contents]
    BY ONLY <1>0, <1>1, <1>2 DEF Contents
  <1>6. /\ pc'[t] = "pop" /\ \A u \in Threads \ {t} : pc'[u] = pc[u]
        /\ pc' \in [Threads -> {"pop", "scavenge", "place", "others",
                                "run", "otherFree", "steal", "store", "done"}]
    BY ONLY <1>0, <1>1
  <1>7. /\ base'[t] = Null /\ \A u \in Threads \ {t} : base'[u] = base[u]
        /\ base' \in [Threads -> Slots \union {Null}]
    BY ONLY <1>0, <1>1
  <1>8. TypeOK'
    BY <1>0, <1>1, <1>4, <1>5, <1>6, <1>7 DEF TypeOK, BaseTypeOK
  <1>9. PhaseOf(t)'
    BY <1>1, <1>2, <1>6, <1>7 DEF PhaseOf
  <1>10. Phases'
    BY <1>0, <1>1, <1>6, <1>7, <1>9, PhasesKept
  <1>11. Placed'
    BY <1>0, <1>1, <1>4 DEF Placed
  <1>12. Watched'
    BY <1>0, <1>1, <1>6, WatchedKept DEF LooksInto, LooksAtDeque
  <1>13. Active' = Active
    BY <1>1, <1>6, ActiveKept
  <1>14. Unprocessed' = Unprocessed /\ SetAside' = SetAside
    BY <1>1 DEF Unprocessed, SetAside, Scavenged, Carried
  <1>15. Proved!FinishBase(t)
    BY ONLY <1>1, <1>2, <1>4, <1>13, <1>14 DEF Proved!FinishBase, AllFree, Active
  <1>16. Orderly
    BY <1>1, <1>2, <1>4, <1>7, <1>14 DEF Orderly
  <1> QED
    BY <1>0, <1>4, <1>8, <1>10, <1>11, <1>12, <1>15, <1>16 DEF Shape

\* When the step ends, all base states have been processed.
LEMMA AdvanceShape ==
  ASSUME IInv, Advance
  PROVE  /\ Proved!EndStep /\ Shape'
         /\ currentStateDb' = nextStateDb /\ nextStateDb' = <<>> /\ SetAside' = {}
  <1>0. /\ TypeOK /\ ~thrown /\ Placed /\ Phases /\ Watched
        /\ nextStateDb \in Seq(Slots) /\ currentStateDb \in Seq(Slots) /\ data \in [Slots -> Contents]
        /\ Threads # {} /\ scavenger \in [Domains -> Seq(Slots)]
    BY StateDbAssumption DEF IInv, Shape, TypeOK, BaseTypeOK
  <1>1. /\ \A t \in Threads : pc[t] = "done"
        /\ currentStateDb' = currentStateDb \o nextStateDb /\ nextStateDb' = <<>>
        /\ pc' = [t \in Threads |-> "pop"]
        /\ data' = [s \in Slots |-> IF data[s] = Garbage
                                    THEN Garbage
                                    ELSE [data[s] EXCEPT !.against = AfterSwap(@)]]
        /\ UNCHANGED <<base, fresh, inputs, free, scavenger, carried, depth, untried, thrown>>
    BY DEF Advance, AdvanceStep, numaVars
  <1>2. Active = {}
    BY <1>1 DEF Active
  <1>3. Unprocessed = {}
    BY <1>2 DEF IInv, Proved!IInv, Proved!WorkersOrderly, Active
  <1>4. currentStateDb = <<>>
    BY <1>0, <1>3, Members DEF Unprocessed
  <1>5. currentStateDb' = nextStateDb
    BY <1>0, <1>1, <1>4, ConcatEmptySeq
  <1>6. ToSet(<<>>) = {} /\ <<>> \in Seq(Slots) /\ Len(<<>>) = 0
    BY DEF ToSet
  <1>7. \A d \in Domains : scavenger[d] = <<>>
    <2> TAKE d \in Domains
    <2>1. ToSet(scavenger[d]) = {} /\ scavenger[d] \in Seq(Slots)
      BY <1>0, <1>3 DEF Unprocessed, Scavenged
    <2> QED
      BY <2>1, Members
  <1>8. \A t \in Threads : pc'[t] = "pop"
    BY <1>1
  <1>9. Active' = Threads
    BY <1>8 DEF Active
  <1>10. SetAside = {} /\ SetAside' = SetAside /\ AllFree' = AllFree
    BY <1>1, <1>3 DEF Unprocessed, SetAside, Scavenged, Carried, AllFree
  <1>11. Unprocessed' = ToSet(nextStateDb) /\ ToSet(nextStateDb)' = {}
    BY <1>1, <1>5, <1>6, <1>10 DEF Unprocessed, SetAside
  <1>12. Proved!EndStep
    BY ONLY <1>1, <1>2, <1>3, <1>9, <1>10, <1>11 DEF Proved!EndStep, AllFree, Active
  <1>13. ASSUME NEW s \in Slots
         PROVE  (IF data[s] = Garbage THEN Garbage
                 ELSE [data[s] EXCEPT !.against = AfterSwap(@)]) \in Contents
    BY <1>0 DEF Contents, States, References, AfterSwap
  <1>14. data' \in [Slots -> Contents]
    BY ONLY <1>1, <1>13
  <1>15. TypeOK'
    BY <1>0, <1>1, <1>5, <1>6, <1>14 DEF TypeOK, BaseTypeOK
  <1>16. \A t \in Threads : /\ base[t] = Null /\ fresh[t] = Null /\ carried[t] = Null /\ depth[t] = 0
    BY <1>0, <1>1 DEF Phases, PhaseOf
  <1>17. Phases'
    BY <1>1, <1>8, <1>16 DEF Phases, PhaseOf
  <1>18. Placed'
    <2>1. Distinct(<<>>)
      BY <1>6 DEF Distinct
    <2> QED
      BY <1>0, <1>1, <1>5, <1>6, <1>7, <1>16, <2>1 DEF Placed
  <1>19. Watched'
    BY <1>0, <1>1, <1>7, <1>8 DEF Watched, LooksAtDeque
  <1> QED
    BY <1>0, <1>1, <1>5, <1>10, <1>12, <1>15, <1>17, <1>18, <1>19 DEF Shape
-----------------------------------------------------------------------------
(* What the slots contain.                                                 *)

\* A slot that is free or about to be filled is in nobody else's hands.
WrittenApart ==
    \A s \in Slots : s \in AllFree \/ (\E t \in Threads : fresh[t] = s) =>
        s \notin Unprocessed /\ s \notin ToSet(nextStateDb) /\ \A t \in Threads : base[t] # s

LEMMA WrittenElsewhere == Proved!IInv => WrittenApart
  BY StateDbAssumption DEF WrittenApart, Proved!IInv, Proved!SlotsConserved, Proved!Held, AllFree

DatabasesOfSlots ==
    /\ Unprocessed \subseteq Slots /\ ToSet(nextStateDb) \subseteq Slots
    /\ \A t \in Threads : base[t] # Null => base[t] \in Slots
    /\ \A i \in 1 .. Len(currentStateDb) : currentStateDb[i] \in ToSet(currentStateDb)
    /\ \A i \in 1 .. Len(nextStateDb) : nextStateDb[i] \in ToSet(nextStateDb)
    /\ Unprocessed = ToSet(currentStateDb) \union SetAside

LEMMA DatabasesAreSlots == TypeOK => DatabasesOfSlots
  <1> SUFFICES ASSUME TypeOK PROVE DatabasesOfSlots
    OBVIOUS
  <1>1. /\ currentStateDb \in Seq(Slots) /\ nextStateDb \in Seq(Slots)
        /\ \A d \in Domains : scavenger[d] \in Seq(Slots)
        /\ \A t \in Threads : carried[t] \in Slots \union {Null} /\ base[t] \in Slots \union {Null}
    BY DEF TypeOK, BaseTypeOK
  <1>2. /\ ToSet(currentStateDb) \subseteq Slots /\ ToSet(nextStateDb) \subseteq Slots
        /\ \A i \in 1 .. Len(currentStateDb) : currentStateDb[i] \in ToSet(currentStateDb)
        /\ \A i \in 1 .. Len(nextStateDb) : nextStateDb[i] \in ToSet(nextStateDb)
    BY <1>1, Members
  <1>3. \A d \in Domains : ToSet(scavenger[d]) \subseteq Slots
    BY <1>1, Members
  <1>4. SetAside \subseteq Slots
    BY <1>1, <1>3 DEF SetAside, Scavenged, Carried
  <1> QED
    BY <1>1, <1>2, <1>4 DEF DatabasesOfSlots, Unprocessed, SetAside

\* A step that is Orderly keeps what it does not take.
LEMMA ContentKept ==
  ASSUME IInv, Shape', Proved!IInv', Orderly
  PROVE  Content'
  <1>0. /\ TypeOK /\ TypeOK' /\ Placed /\ Content /\ data \in [Slots -> Contents]
        /\ currentStateDb \in Seq(Slots) /\ Distinct(currentStateDb) /\ Len(currentStateDb) \in Nat
    BY Members DEF IInv, Shape, TypeOK, BaseTypeOK, Placed
  <1>a. WrittenApart' /\ DatabasesOfSlots'
    BY <1>0, WrittenElsewhere, DatabasesAreSlots, PTL
  <1> DEFINE Kept(x) == data'[x] = data[x]
  <1>1. /\ \A x \in Unprocessed' \union ToSet(nextStateDb') : Kept(x)
        /\ \A t \in Threads : base'[t] # Null => Kept(base'[t])
    <2>1. CASE data' = data
      BY <2>1
    <2>2. CASE \E s \in Slots : /\ data' = [data EXCEPT ![s] = Garbage]
                                /\ s \in AllFree' \/ \E t \in Threads : fresh'[t] = s
      <3>1. PICK s \in Slots : /\ data' = [data EXCEPT ![s] = Garbage]
                               /\ s \in AllFree' \/ \E t \in Threads : fresh'[t] = s
        BY <2>2
      <3>2. \A x \in Slots : x # s => data'[x] = data[x]
        BY ONLY <1>0, <3>1
      <3>3. /\ s \notin Unprocessed' /\ s \notin ToSet(nextStateDb')
            /\ \A t \in Threads : base'[t] # s
        BY <1>a, <3>1 DEF WrittenApart
      <3>4. /\ Unprocessed' \subseteq Slots /\ ToSet(nextStateDb') \subseteq Slots
            /\ \A t \in Threads : base'[t] # Null => base'[t] \in Slots
        BY <1>a DEF DatabasesOfSlots
      <3> QED
        BY <3>2, <3>3, <3>4
    <2> QED
      BY <2>1, <2>2 DEF Orderly
  <1> HIDE DEF Kept
  <1>2. /\ nextStateDb' = nextStateDb /\ Unprocessed' \subseteq Unprocessed
        /\ \A t \in Threads : base'[t] # Null => base'[t] = base[t] \/ base'[t] \in Unprocessed
    BY DEF Orderly
  <1>3. Encoded'
    BY <1>0, <1>1, <1>2 DEF Encoded, Content, Kept
  <1>4. /\ ToSet(currentStateDb') \subseteq Unprocessed' /\ SetAside' \subseteq Unprocessed'
        /\ \A i \in 1 .. Len(currentStateDb') : currentStateDb'[i] \in ToSet(currentStateDb')
        /\ \A i \in 1 .. Len(nextStateDb) : nextStateDb[i] \in ToSet(nextStateDb)
    BY <1>a, <1>2 DEF DatabasesOfSlots
  <1>5. Descending(data, nextStateDb)'
    <2>1. \A i \in 1 .. Len(nextStateDb) : data'[nextStateDb[i]] = data[nextStateDb[i]]
      BY <1>1, <1>2, <1>4 DEF Kept
    <2>2. Descending(data, nextStateDb)
      BY <1>0 DEF Content
    <2> QED
      BY ONLY <1>2, <2>1, <2>2 DEF Descending
  <1>6. \A i \in 1 .. Len(currentStateDb') : data'[currentStateDb'[i]] = data[currentStateDb'[i]]
    BY <1>1, <1>4 DEF Kept
  <1>7. \A s \in SetAside', x \in ToSet(currentStateDb') : data'[s] = data[s] /\ data'[x] = data[x]
    BY <1>1, <1>4 DEF Kept
  <1>8. Descending(data, currentStateDb) /\ Ahead
    BY <1>0 DEF Content
  <1>9. CASE currentStateDb' = currentStateDb /\ SetAside' \subseteq SetAside
    <2>1. Descending(data, currentStateDb)'
      BY ONLY <1>6, <1>8, <1>9 DEF Descending
    <2>2. Ahead'
      BY ONLY <1>7, <1>8, <1>9 DEF Ahead
    <2> QED
      BY <1>3, <1>5, <2>1, <2>2 DEF Content
  <1>10. CASE /\ currentStateDb # <<>> /\ currentStateDb' = Tail(currentStateDb)
              /\ SetAside' \subseteq SetAside \union {Head(currentStateDb)}
    <2>1. /\ ToSet(currentStateDb') = ToSet(currentStateDb) \ {Head(currentStateDb)}
          /\ Len(currentStateDb') = Len(currentStateDb) - 1
          /\ \A i \in 1 .. Len(currentStateDb) - 1 : currentStateDb'[i] = currentStateDb[i + 1]
      BY <1>0, <1>10, TailFacts
    <2>2. Descending(data, currentStateDb)'
      <3>1. \A i \in 1 .. Len(currentStateDb') :
               i + 1 \in 1 .. Len(currentStateDb) /\ data'[currentStateDb'[i]] = data[currentStateDb[i + 1]]
        BY ONLY <1>0, <1>6, <2>1
      <3> QED
        BY ONLY <1>0, <1>8, <2>1, <3>1 DEF Descending
    <2>3. \A x \in ToSet(currentStateDb') : data[Head(currentStateDb)].reward >= data[x].reward
      <3> TAKE x \in ToSet(currentStateDb')
      <3>1. PICK i \in 1 .. Len(currentStateDb) : currentStateDb[i] = x
        BY <1>0, <2>1, Members
      <3>2. Head(currentStateDb) = currentStateDb[1] /\ x # Head(currentStateDb)
        BY <2>1
      <3>3. 1 \in 1 .. Len(currentStateDb) /\ 1 < i
        BY <1>0, <3>1, <3>2
      <3> QED
        BY ONLY <1>8, <3>1, <3>2, <3>3 DEF Descending
    <2>4. Ahead'
      BY ONLY <1>7, <1>8, <1>10, <2>1, <2>3 DEF Ahead
    <2> QED
      BY <1>3, <1>5, <2>2, <2>4 DEF Content
  <1>11. CASE /\ currentStateDb # <<>> /\ currentStateDb' = Front(currentStateDb)
              /\ SetAside' \subseteq SetAside
    <2>1. /\ ToSet(currentStateDb') = ToSet(currentStateDb) \ {Last(currentStateDb)}
          /\ Len(currentStateDb') = Len(currentStateDb) - 1
          /\ \A i \in 1 .. Len(currentStateDb) - 1 : currentStateDb'[i] = currentStateDb[i]
      BY <1>0, <1>11, FrontFacts
    <2>2. Descending(data, currentStateDb)'
      BY ONLY <1>0, <1>6, <1>8, <2>1 DEF Descending
    <2>3. Ahead'
      BY ONLY <1>7, <1>8, <1>11, <2>1 DEF Ahead
    <2> QED
      BY <1>3, <1>5, <2>2, <2>3 DEF Content
  <1> QED
    BY <1>9, <1>10, <1>11 DEF Orderly

\* The new state's slot goes into the next database, behind those that are better.
LEMMA PushContent ==
  ASSUME IInv, NEW t \in Threads, Push(t)
  PROVE  Content'
  <1> DEFINE s == fresh[t]
             n == Len(nextStateDb)
  <1>0. /\ TypeOK /\ Placed /\ Phases /\ Content /\ Proved!IInv
        /\ nextStateDb \in Seq(Slots) /\ data \in [Slots -> Contents] /\ n \in Nat
        /\ fresh \in [Threads -> Slots \union {Null}]
    BY Members DEF IInv, Shape, TypeOK, BaseTypeOK
  <1>1. PICK r \in Rewards :
           /\ data' = [data EXCEPT ![s] = [reward |-> r, against |-> "current"]]
           /\ \E i \in InsertionPoints(r) : nextStateDb' = InsertAt(nextStateDb, i, s)
    BY DEF Push, PushState
  <1>2. PICK i \in InsertionPoints(r) : nextStateDb' = InsertAt(nextStateDb, i, s)
    BY <1>1
  <1>3. /\ i \in 1 .. n + 1
        /\ \A k \in 1 .. n : /\ k < i => data[nextStateDb[k]].reward >= r
                             /\ k >= i => data[nextStateDb[k]].reward <= r
    BY <1>2 DEF InsertionPoints, Reward
  <1>4. s \in Slots /\ s # Null
    BY <1>0 DEF Push, PushState, Phases, PhaseOf
  <1>5. s \notin Unprocessed /\ s \notin ToSet(nextStateDb) /\ \A u \in Threads : base[u] # s
    BY <1>0, <1>4, WrittenElsewhere DEF WrittenApart, s
  <1>6. UNCHANGED <<currentStateDb, base, scavenger, carried>>
    BY DEF Push, PushState, numaVars
  <1>7. Unprocessed' = Unprocessed /\ SetAside' = SetAside
    BY <1>6 DEF Unprocessed, SetAside, Scavenged, Carried
  <1> HIDE DEF s
  <1>8. ToSet(nextStateDb') = ToSet(nextStateDb) \union {s}
    BY <1>0, <1>2, <1>3, <1>4, InsertFacts
  <1>9. /\ Unprocessed \subseteq Slots /\ ToSet(nextStateDb) \subseteq Slots
        /\ \A u \in Threads : base[u] # Null => base[u] \in Slots
        /\ \A k \in 1 .. Len(currentStateDb) : currentStateDb[k] \in ToSet(currentStateDb)
        /\ \A k \in 1 .. n : nextStateDb[k] \in ToSet(nextStateDb)
        /\ Unprocessed = ToSet(currentStateDb) \union SetAside
    BY <1>0, DatabasesAreSlots DEF DatabasesOfSlots
  <1>10. \A x \in Slots : x # s => data'[x] = data[x]
    BY ONLY <1>0, <1>1
  <1>11. /\ data'[s] = [reward |-> r, against |-> "current"] /\ data'[s] \in States /\ r \in Int
    BY <1>0, <1>1, <1>4, StateDbAssumption DEF States, References
  <1>12. /\ \A x \in Unprocessed : data'[x] = data[x]
         /\ \A x \in ToSet(nextStateDb) : data'[x] = data[x]
         /\ \A u \in Threads : base[u] # Null => data'[base[u]] = data[base[u]]
    BY ONLY <1>5, <1>9, <1>10
  <1>13. Encoded'
    BY <1>0, <1>6, <1>7, <1>8, <1>11, <1>12 DEF Encoded, Content
  <1>14. Ahead' /\ Descending(data, currentStateDb)'
    <2>1. Ahead'
      BY <1>0, <1>6, <1>7, <1>9, <1>12 DEF Content, Ahead
    <2>2. \A k \in 1 .. Len(currentStateDb) : data'[currentStateDb[k]] = data[currentStateDb[k]]
      BY ONLY <1>9, <1>12
    <2>3. Descending(data, currentStateDb)
      BY <1>0 DEF Content
    <2>4. Descending(data, currentStateDb)'
      BY ONLY <1>6, <2>2, <2>3 DEF Descending
    <2> QED
      BY <2>1, <2>4
  <1>15. Descending(data, nextStateDb)'
    <2>1. \A k \in 1 .. n : /\ data'[nextStateDb[k]] = data[nextStateDb[k]]
                            /\ data[nextStateDb[k]].reward \in Int
      <3>1. \A k \in 1 .. n : data[nextStateDb[k]] \in States
        BY <1>0, <1>9 DEF Content, Encoded
      <3> QED
        BY <1>9, <1>12, <3>1, StateDbAssumption DEF States
    <2>2. Descending(data, nextStateDb)
      BY <1>0 DEF Content
    <2>3. data'[s].reward = r
      BY <1>11
    <2>4. Descending(data', InsertAt(nextStateDb, i, s))
      BY ONLY <1>0, <1>3, <1>4, <1>11, <2>1, <2>2, <2>3, InsertDescending
    <2> QED
      BY ONLY <1>2, <2>4 DEF Descending
  <1> QED
    BY <1>13, <1>14, <1>15 DEF Content

\* The states stored become base states, and the reference they were encoded against
\* the previous one.
LEMMA AdvanceContent ==
  ASSUME IInv, Advance
  PROVE  Content'
  <1>0. /\ TypeOK /\ Phases /\ Content /\ nextStateDb \in Seq(Slots)
        /\ data \in [Slots -> Contents]
    BY DEF IInv, Shape, TypeOK, BaseTypeOK
  <1>1. currentStateDb' = nextStateDb /\ nextStateDb' = <<>> /\ SetAside' = {}
    BY AdvanceShape
  <1>2. Unprocessed' = ToSet(nextStateDb)
    BY <1>1 DEF Unprocessed, SetAside
  <1>3. \A t \in Threads : base'[t] = Null
    BY <1>0 DEF Advance, AdvanceStep, Phases, PhaseOf
  <1>4. ToSet(<<>>) = {} /\ Len(<<>>) = 0
    BY DEF ToSet
  <1>5. ASSUME NEW s \in ToSet(nextStateDb)
        PROVE  /\ data'[s] \in States /\ data'[s].against = "previous"
               /\ data'[s].reward = data[s].reward
    <2>1. s \in Slots /\ data[s] \in States /\ data[s].against = "current"
      BY <1>0, Members DEF Encoded, Content
    <2>2. data'[s] = [data[s] EXCEPT !.against = "previous"]
      BY <2>1, StateDbAssumption DEF Advance, AdvanceStep, AfterSwap
    <2> QED
      BY <2>1, <2>2 DEF States, References
  <1>6. Encoded'
    BY <1>1, <1>2, <1>3, <1>4, <1>5 DEF Encoded
  <1>7. \A i \in 1 .. Len(nextStateDb) : nextStateDb[i] \in ToSet(nextStateDb)
    BY <1>0, Members
  <1>8. \A i \in 1 .. Len(nextStateDb) : data'[nextStateDb[i]].reward = data[nextStateDb[i]].reward
    BY <1>5, <1>7
  <1>9. Descending(data, currentStateDb)'
    <2>1. Descending(data, nextStateDb)
      BY <1>0 DEF Content
    <2> QED
      BY ONLY <1>1, <1>8, <2>1 DEF Descending
  <1>10. Descending(data, nextStateDb)'
    BY <1>1, <1>4 DEF Descending
  <1>11. Ahead'
    BY <1>1 DEF Ahead
  <1> QED
    BY <1>6, <1>9, <1>10, <1>11 DEF Content
-----------------------------------------------------------------------------
(* The invariant.                                                          *)

\* It holds initially, and the initial states are states of the pool.
LEMMA InitInv == ASSUME Init PROVE IInv /\ Proved!Init
  <1>1. PICK first \in Slots :
           /\ BaseInit(first)
           /\ free = [d \in Domains |-> Buffer(d) \ {first}]
           /\ scavenger = [d \in Domains |-> <<>>]
           /\ carried = [t \in Threads |-> Null] /\ depth = [t \in Threads |-> 0]
           /\ untried = [t \in Threads |-> {}] /\ thrown = FALSE
    BY DEF Init
  <1>2. PICK r \in Rewards :
           data = [s \in Slots |-> IF s = first THEN [reward |-> r, against |-> "previous"]
                                                ELSE Garbage]
    BY <1>1 DEF BaseInit
  <1>3. /\ currentStateDb = <<first>> /\ currentStateDb \in Seq(Slots) /\ Len(currentStateDb) = 1
        /\ nextStateDb = <<>> /\ nextStateDb \in Seq(Slots) /\ Len(nextStateDb) = 0
        /\ currentStateDb[1] = first /\ currentStateDb # <<>>
    BY <1>1 DEF BaseInit
  <1>4. ToSet(currentStateDb) = {first} /\ ToSet(nextStateDb) = {} /\ ToSet(<<>>) = {}
    BY <1>3 DEF ToSet
  <1>5. [reward |-> r, against |-> "previous"] \in States
    BY DEF States, References
  <1>6. /\ \A t \in Threads : /\ base[t] = Null /\ fresh[t] = Null /\ pc[t] = "pop"
                              /\ carried[t] = Null /\ depth[t] = 0
        /\ 0 \in 0 .. MaxInputs /\ 0 \in 0 .. ScavengingDepth /\ Threads # {}
    BY <1>1, StateDbAssumption, NumaAssumption DEF BaseInit
  <1>7. \A d \in Domains : /\ free[d] = Buffer(d) \ {first} /\ Buffer(d) \subseteq Slots
                           /\ scavenger[d] = <<>> /\ <<>> \in Seq(Slots) /\ Len(<<>>) = 0
    BY <1>1, NumaAssumption
  <1>8. data \in [Slots -> Contents]
    BY <1>2, <1>5 DEF Contents
  <1>9. BaseTypeOK
    BY <1>1, <1>3, <1>6, <1>8 DEF BaseTypeOK, BaseInit
  <1>10. TypeOK
    BY <1>1, <1>6, <1>7, <1>9 DEF TypeOK, BaseInit
  <1>11. Placed
    BY <1>3, <1>4, <1>6, <1>7 DEF Placed, Distinct
  <1>12. Phases
    BY <1>6 DEF Phases, PhaseOf
  <1>13. Watched
    BY <1>6, <1>7 DEF Watched, LooksAtDeque
  <1>14. Scavenged = {} /\ Carried = {}
    BY <1>4, <1>6, <1>7 DEF Scavenged, Carried
  <1>15. Unprocessed = {first} /\ SetAside = {}
    BY <1>4, <1>14 DEF Unprocessed, SetAside
  <1>16. Encoded
    BY <1>2, <1>4, <1>5, <1>6, <1>15 DEF Encoded
  <1>17. Ahead /\ Descending(data, currentStateDb) /\ Descending(data, nextStateDb)
    BY <1>3, <1>15 DEF Ahead, Descending
  <1>18. Active = Threads
    BY <1>6 DEF Active
  <1>19. AllFree = Slots \ {first}
    <2>1. AllFree = UNION {Buffer(d) \ {first} : d \in Domains}
      BY <1>7 DEF AllFree
    <2> QED
      BY <2>1, NumaAssumption
  <1>20. Proved!Init
    BY <1>1, <1>4, <1>15, <1>18, <1>19 DEF Proved!Init, BaseInit, AllFree, Active
  <1>21. Proved!IInv
    BY <1>20, StateDbAssumption, Proved!InitInv
  <1> QED
    BY <1>1, <1>10, <1>11, <1>12, <1>13, <1>16, <1>17, <1>20, <1>21 DEF IInv, Shape, Content

\* Every step of the database is one of the pool's or leaves the pool as it is.
LEMMA WorkerStep ==
  ASSUME Apart, IInv, NEW t \in Threads, Worker(t)
  PROVE  /\ Shape' /\ (Orderly \/ Push(t))
         /\ Proved!Next \/ UNCHANGED poolVars
  <1>1. CASE PopOwnScavenger(t) \/ PopOtherScavenger(t) \/ PopCurrent(t)
    <2>1. Proved!TakeBase(t) /\ Shape' /\ Orderly
      BY <1>1, PopScavengedStep, PopCurrentStep
    <2> QED
      BY <2>1 DEF Proved!Next
  <1>2. CASE \/ OwnScavengerEmpty(t) \/ StopScavenging(t) \/ OtherScavengerEmpty(t)
             \/ PopForeign(t) \/ PlaceForeign(t)
             \/ OwnFreeEmpty(t) \/ OtherFreeEmpty(t) \/ AllFreeEmpty(t) \/ StealNothing(t)
    <2>1. UNCHANGED poolVars /\ Shape' /\ Orderly
      BY <1>2, LookForBaseStep, CarryStep, LookForStorageStep
    <2> QED
      BY <2>1
  <1>3. CASE PopNothing(t)
    <2>1. Proved!Stop(t) /\ Shape' /\ Orderly
      BY <1>3, PopNothingStep
    <2> QED
      BY <2>1 DEF Proved!Next
  <1>4. CASE PopOwnFree(t) \/ PopOtherFree(t)
    <2>1. Proved!TakeFree(t) /\ Shape' /\ Orderly
      BY <1>4, PopFreeStep
    <2> QED
      BY <2>1 DEF Proved!Next
  <1>5. CASE StealState(t)
    <2>1. Proved!Evict(t) /\ Shape' /\ Orderly
      BY <1>5, StealStateStep
    <2> QED
      BY <2>1 DEF Proved!Next
  <1>6. CASE Push(t)
    <2>1. Proved!Store(t) /\ Shape'
      BY <1>6, PushStep
    <2> QED
      BY <1>6, <2>1 DEF Proved!Next
  <1>7. CASE ReturnFresh(t)
    <2>1. Proved!GiveBack(t) /\ Shape' /\ Orderly
      BY <1>7, ReturnFreshStep
    <2> QED
      BY <2>1 DEF Proved!Next
  <1>8. CASE ReturnBase(t)
    <2>1. Proved!FinishBase(t) /\ Shape' /\ Orderly
      BY <1>8, ReturnBaseStep
    <2> QED
      BY <2>1 DEF Proved!Next
  <1> QED
    BY <1>1, <1>2, <1>3, <1>4, <1>5, <1>6, <1>7, <1>8 DEF Worker

LEMMA NextInv ==
  ASSUME Apart, IInv, [Next]_vars
  PROVE  IInv' /\ [Proved!Next]_(Proved!vars)
  <1>0. UNCHANGED poolVars <=> UNCHANGED Proved!vars
    BY DEF poolVars, Proved!vars, AllFree, Active
  <1>1. CASE UNCHANGED vars
    <2>1. UNCHANGED poolVars
      BY <1>1 DEF vars, baseVars, numaVars, poolVars, AllFree, Active, Unprocessed, Scavenged, Carried
    <2>2. UNCHANGED Proved!vars
      BY <1>0, <2>1
    <2>3. Proved!IInv'
      BY <2>2, Proved!StutterInv DEF IInv
    <2>4. TypeOK' /\ ~thrown' /\ Placed'
      BY <1>1 DEF vars, baseVars, numaVars, IInv, Shape, TypeOK, BaseTypeOK, Placed
    <2>5. Phases' /\ Watched'
      BY <1>1 DEF vars, baseVars, numaVars, IInv, Shape, Phases, PhaseOf, Watched, LooksInto, LooksAtDeque
    <2>6. Orderly
      BY <1>1 DEF vars, baseVars, numaVars, Orderly, SetAside, Unprocessed, Scavenged, Carried
    <2>7. Shape'
      BY <2>4, <2>5 DEF Shape
    <2>8. Content'
      BY <2>3, <2>6, <2>7, ContentKept
    <2> QED
      BY <2>2, <2>3, <2>7, <2>8 DEF IInv
  <1>2. CASE \E t \in Threads : Worker(t)
    <2>1. PICK t \in Threads : Worker(t)
      BY <1>2
    <2>2. Shape' /\ (Orderly \/ Push(t)) /\ (Proved!Next \/ UNCHANGED Proved!vars)
      BY <1>0, <2>1, WorkerStep
    <2>3. Proved!IInv'
      BY <2>2, StateDbAssumption, Proved!NextInv DEF IInv
    <2>4. Content'
      BY <2>2, <2>3, ContentKept, PushContent
    <2> QED
      BY <2>2, <2>3, <2>4 DEF IInv
  <1>3. CASE Advance
    <2>1. Proved!EndStep /\ Shape' /\ Content'
      BY <1>3, AdvanceShape, AdvanceContent
    <2>2. Proved!Next
      BY <2>1 DEF Proved!Next
    <2>3. Proved!IInv'
      BY <2>2, StateDbAssumption, Proved!NextInv DEF IInv
    <2> QED
      BY <2>1, <2>2, <2>3 DEF IInv
  <1> QED
    BY <1>1, <1>2, <1>3 DEF Next

\* The invariant holds of every state of the database: its slots are those of a
\* StatePool, at home in their domains and each in one place, and every base state left
\* will be seen by a worker that has not stopped.
THEOREM Invariance == ASSUME Apart PROVE Spec => []IInv
  <1>1. Init => IInv
    BY InitInv
  <1>2. IInv /\ [Next]_vars => IInv'
    BY NextInv
  <1> QED
    BY <1>1, <1>2, PTL DEF Spec

\* The database's variables keep their types.
THEOREM TypeCorrect == ASSUME Apart PROVE Spec => []TypeOK
  <1>1. IInv => TypeOK
    BY DEF IInv, Shape
  <1> QED
    BY <1>1, Invariance, PTL

\* A slot returns to the domain it was allocated in, and is set aside for the workers of
\* that domain (numa.hpp:186-205), however the buffers lie in memory, as long as none
\* starts where another one ends.
THEOREM HomeKept == ASSUME Apart PROVE Spec => []SlotsAtHome
  <1>1. IInv => SlotsAtHome
    BY DEF IInv, Shape, Placed, SlotsAtHome
  <1> QED
    BY <1>1, Invariance, PTL

\* Scavenging does not carry a state over into a step whose reference buffers no longer
\* match it (numa.hpp:207-263 against base.hpp:174-216).
THEOREM AlwaysDecodable == ASSUME Apart PROVE Spec => []BaseDecodable
  <1>1. IInv => BaseDecodable
    BY StateDbAssumption DEF IInv, Content, Encoded, BaseDecodable
  <1> QED
    BY <1>1, Invariance, PTL

\* Storage is taken from a base state that no state left unprocessed undercuts: states
\* set aside for other domains were popped before, hence are no worse (numa.hpp:154-184).
THEOREM TheWorstIsEvicted == ASSUME Apart PROVE Spec => EvictsWorst
  <1>1. ASSUME IInv, Next, NEW t \in Threads, pc[t] = "steal", pc'[t] = "store",
               NEW s \in Unprocessed
        PROVE  Reward(fresh'[t]) <= Reward(s)
    <2>1. pc \in [Threads -> {"pop", "scavenge", "place", "others",
                              "run", "otherFree", "steal", "store", "done"}]
      BY <1>1 DEF IInv, Shape, TypeOK
    <2>2. ~Advance
      BY <1>1 DEF Advance, AdvanceStep
    <2>3. PICK u \in Threads : Worker(u)
      BY <1>1, <2>2 DEF Next
    <2>4. u = t
      BY <1>1, <2>1, <2>3 DEF Worker, PopOwnScavenger, OwnScavengerEmpty, PopCurrent, PopForeign,
         PlaceForeign, StopScavenging, PopOtherScavenger, OtherScavengerEmpty, PopNothing,
         PopOwnFree, OwnFreeEmpty, PopOtherFree, OtherFreeEmpty, AllFreeEmpty, StealState,
         StealNothing, Push, ReturnFresh, ReturnBase, StartBase, StartFresh, StopWorker, DropState,
         PushState, ReleaseFresh, ReleaseBase, baseVars
    <2>5. StealState(t)
      BY <1>1, <2>1, <2>3, <2>4 DEF Worker, PopOwnScavenger, OwnScavengerEmpty, PopCurrent, PopForeign,
         PlaceForeign, StopScavenging, PopOtherScavenger, OtherScavengerEmpty, PopNothing,
         PopOwnFree, OwnFreeEmpty, PopOtherFree, OtherFreeEmpty, AllFreeEmpty,
         StealNothing, Push, ReturnFresh, ReturnBase, DropState, PushState
    <2> DEFINE last == Last(currentStateDb)
    <2>6. last \in ToSet(currentStateDb) /\ fresh'[t] = last
      BY <1>1, <2>5, StealStateStep
    <2>7. /\ currentStateDb \in Seq(Slots) /\ Len(currentStateDb) \in Nat
          /\ last = currentStateDb[Len(currentStateDb)] /\ TypeOK
      BY <1>1, Members DEF IInv, Shape, TypeOK, BaseTypeOK, Last
    <2> HIDE DEF last
    <2>8. Unprocessed = ToSet(currentStateDb) \union SetAside
      BY <2>7, DatabasesAreSlots DEF DatabasesOfSlots
    <2>9. data[s].reward \in Int /\ data[last].reward \in Int
      BY <1>1, <2>6, <2>8, StateDbAssumption DEF IInv, Content, Encoded, States
    <2>10. CASE s \in SetAside
      <3>1. data[s].reward >= data[last].reward
        BY <1>1, <2>6, <2>10 DEF IInv, Content, Ahead
      <3> QED
        BY <2>6, <2>9, <3>1 DEF Reward
    <2>11. CASE s \in ToSet(currentStateDb)
      <3>1. PICK i \in 1 .. Len(currentStateDb) : currentStateDb[i] = s
        BY <2>7, <2>11, Members
      <3>2. CASE i = Len(currentStateDb)
        BY <2>6, <2>7, <2>9, <3>1, <3>2 DEF Reward
      <3>3. CASE i < Len(currentStateDb)
        <4>1. Len(currentStateDb) \in 1 .. Len(currentStateDb)
          BY <2>7, <3>3
        <4>2. data[s].reward >= data[last].reward
          BY <1>1, <2>7, <3>1, <3>3, <4>1 DEF IInv, Content, Descending
        <4> QED
          BY <2>6, <2>9, <4>2 DEF Reward
      <3> QED
        BY <2>7, <3>2, <3>3
    <2> QED
      BY <1>1, <2>8, <2>10, <2>11
  <1>2. IInv /\ [Next]_vars =>
           [\A t \in Threads : pc[t] = "steal" /\ pc'[t] = "store" =>
               \A s \in Unprocessed : Reward(fresh'[t]) <= Reward(s)]_vars
    BY <1>1
  <1> QED
    BY <1>2, Invariance, PTL DEF Spec, EvictsWorst

\* The database implements the pool of slots that the engine relies on: although a worker
\* may stop with states left in the deque or on their way to a scavenger queue, the last
\* one to stop leaves none (numa.hpp:207-263).
THEOREM Refinement == ASSUME Apart PROVE Spec => ImplementsStatePool
  <1>1. Init => Pool!Init
    BY InitInv DEF Proved!Init, Pool!Init
  <1>2. IInv /\ [Next]_vars => [Pool!Next]_(Pool!vars)
    <2>1. /\ Proved!Next <=> Pool!Next
          /\ UNCHANGED Proved!vars <=> UNCHANGED Pool!vars
      BY DEF Proved!Next, Pool!Next, Proved!vars, Pool!vars, Proved!TakeBase, Pool!TakeBase,
         Proved!Stop, Pool!Stop, Proved!TakeFree, Pool!TakeFree, Proved!Evict, Pool!Evict,
         Proved!Store, Pool!Store, Proved!GiveBack, Pool!GiveBack,
         Proved!FinishBase, Pool!FinishBase, Proved!EndStep, Pool!EndStep
    <2> QED
      BY <2>1, NextInv
  <1> QED
    BY <1>1, <1>2, Invariance, PTL DEF Spec, ImplementsStatePool, Pool!Spec

\* No slot is lost or handed out twice, whichever queues and hands it goes through, and
\* no free queue overflows: "This must be a bug in Jaffar" (numa.hpp:204) is never thrown.
THEOREM NoSlotIsLost == ASSUME Apart PROVE Spec => []SlotsConserved
  <1>1. ASSUME IInv PROVE SlotsConserved
    <2> DEFINE where(s) == {p \in UNION {{d} \X DOMAIN scavenger[d] : d \in Domains} :
                              scavenger[p[1]][p[2]] = s}
    <2>0. /\ TypeOK /\ ~thrown /\ Placed /\ Proved!SlotsConserved
          /\ currentStateDb \in Seq(Slots) /\ nextStateDb \in Seq(Slots)
          /\ scavenger \in [Domains -> Seq(Slots)]
          /\ base \in [Threads -> Slots \union {Null}] /\ fresh \in [Threads -> Slots \union {Null}]
          /\ carried \in [Threads -> Slots \union {Null}] /\ Null \notin Slots
      BY <1>1, StateDbAssumption DEF IInv, Shape, TypeOK, BaseTypeOK, Proved!IInv
    <2> SUFFICES ASSUME NEW s \in Slots
                 PROVE  Count(currentStateDb, s) + Count(nextStateDb, s)
                         + Count(base, s) + Count(fresh, s) + Count(carried, s)
                         + Cardinality(where(s))
                         + Cardinality({d \in Domains : s \in free[d]}) = 1
      BY <2>0 DEF SlotsConserved
    <2> DEFINE inCurrent == s \in ToSet(currentStateDb)
               inNext    == s \in ToSet(nextStateDb)
               isBase    == \E t \in Threads : base[t] = s
               isFresh   == \E t \in Threads : fresh[t] = s
               isCarried == s \in Carried
               isAside   == s \in Scavenged
               isFree    == s \in AllFree
    <2>1. /\ Count(currentStateDb, s) = IF inCurrent THEN 1 ELSE 0
          /\ Count(nextStateDb, s) = IF inNext THEN 1 ELSE 0
      BY <2>0, OccurrenceFacts DEF Count, Placed
    <2>2. /\ \A t, u \in {v \in DOMAIN base : base[v] = s} : t = u
          /\ \A t, u \in {v \in DOMAIN fresh : fresh[v] = s} : t = u
          /\ ~(isBase /\ isFresh)
      BY <2>0 DEF Proved!SlotsConserved, Proved!Held
    <2>3. \A t, u \in {v \in DOMAIN carried : carried[v] = s} : t = u
      BY <2>0 DEF Placed
    <2>4. /\ Count(base, s) = IF isBase THEN 1 ELSE 0
          /\ Count(fresh, s) = IF isFresh THEN 1 ELSE 0
      BY <2>0, <2>2, AtMostOne DEF Count
    <2>5. Count(carried, s) = IF isCarried THEN 1 ELSE 0
      BY <2>0, <2>3, AtMostOne DEF Count, Carried
    <2>6. Cardinality(where(s)) = IF isAside THEN 1 ELSE 0
      <3>1. /\ \A p \in where(s) : p[1] \in Domains /\ p = <<p[1], p[2]>>
            /\ \A d \in Domains : \A i : <<d, i>> \in where(s)
                  <=> i \in DOMAIN scavenger[d] /\ scavenger[d][i] = s
        OBVIOUS
      <3>2. \A d \in Domains : /\ DOMAIN scavenger[d] = 1 .. Len(scavenger[d])
                               /\ s \in ToSet(scavenger[d])
                                    <=> \E i \in 1 .. Len(scavenger[d]) : scavenger[d][i] = s
        BY <2>0, Members
      <3> HIDE DEF where
      <3>3. \A c, d \in Domains : s \in ToSet(scavenger[c]) /\ s \in ToSet(scavenger[d]) => c = d
        BY <2>0, NumaAssumption DEF Placed
      <3>4. \A d \in Domains : \A i, j \in 1 .. Len(scavenger[d]) :
               scavenger[d][i] = s /\ scavenger[d][j] = s => i = j
        BY <2>0 DEF Placed, Distinct
      <3>5. \A p \in where(s) : /\ p[1] \in Domains /\ p[2] \in 1 .. Len(scavenger[p[1]])
                                /\ scavenger[p[1]][p[2]] = s /\ p = <<p[1], p[2]>>
        BY <3>1, <3>2
      <3>6. ASSUME NEW p \in where(s), NEW q \in where(s) PROVE p = q
        <4>1. p[1] = q[1]
          BY <3>2, <3>3, <3>5
        <4>2. p[2] = q[2]
          BY <3>4, <3>5, <4>1
        <4> QED
          BY <3>5, <4>1, <4>2
      <3>7. where(s) = {} <=> ~isAside
        <4>1. isAside <=> \E d \in Domains : s \in ToSet(scavenger[d])
          BY DEF Scavenged
        <4>2. ASSUME NEW p \in where(s) PROVE isAside
          BY <3>2, <3>5, <4>1
        <4>3. ASSUME NEW d \in Domains, s \in ToSet(scavenger[d]) PROVE where(s) # {}
          <5>1. PICK i \in DOMAIN scavenger[d] : scavenger[d][i] = s
            BY <3>2, <4>3
          <5> QED
            BY <3>1, <5>1
        <4> QED
          BY <4>1, <4>2, <4>3
      <3> QED
        BY <3>6, <3>7, AtMostOne
    <2>7. Cardinality({d \in Domains : s \in free[d]}) = IF isFree THEN 1 ELSE 0
      <3> DEFINE A == {d \in Domains : s \in free[d]}
      <3>1. \A c, d \in A : c = d
        BY <2>0, NumaAssumption DEF Placed
      <3>2. A = {} <=> ~isFree
        BY DEF AllFree
      <3> HIDE DEF A
      <3>3. Cardinality(A) = IF isFree THEN 1 ELSE 0
        BY <3>1, <3>2, AtMostOne
      <3> QED
        BY <3>3 DEF A
    <2>8. /\ ~(inCurrent /\ isAside) /\ ~(inCurrent /\ isCarried) /\ ~(isAside /\ isCarried)
          /\ s \in Unprocessed <=> inCurrent \/ isAside \/ isCarried
      BY <2>0 DEF Placed, Unprocessed, Scavenged, Carried
    <2>9. /\ isFree \/ s \in Unprocessed \/ inNext \/ isBase \/ isFresh
          /\ ~(isFree /\ s \in Unprocessed) /\ ~(isFree /\ inNext) /\ ~(s \in Unprocessed /\ inNext)
          /\ isBase \/ isFresh => ~isFree /\ s \notin Unprocessed /\ ~inNext
      <3>1. \A t \in Threads : s \in Proved!Held(t) <=> base[t] = s \/ fresh[t] = s
        BY <2>0 DEF Proved!Held
      <3>2. /\ AllFree \union Unprocessed \union ToSet(nextStateDb)
                \union UNION {Proved!Held(t) : t \in Threads} = Slots
            /\ AllFree \intersect Unprocessed = {} /\ AllFree \intersect ToSet(nextStateDb) = {}
            /\ Unprocessed \intersect ToSet(nextStateDb) = {}
            /\ \A t \in Threads :
                  Proved!Held(t) \intersect (AllFree \union Unprocessed \union ToSet(nextStateDb)) = {}
        BY ONLY <2>0 DEF Proved!SlotsConserved, AllFree
      <3> QED
        BY ONLY <3>1, <3>2, s \in Slots
    <2> HIDE DEF inCurrent, inNext, isBase, isFresh, isCarried, isAside, isFree, where
    <2> QED
      BY <2>1, <2>2, <2>4, <2>5, <2>6, <2>7, <2>8, <2>9
  <1> QED
    BY <1>1, Invariance, PTL
=============================================================================
