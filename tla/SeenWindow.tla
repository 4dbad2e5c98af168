----------------------------- MODULE SeenWindow -----------------------------
(***************************************************************************)
(* What the hash database promises to the worker threads: a check answers  *)
(* in one indivisible step whether its hash was checked within the last    *)
(* MaxStoreCount generations, and marks it as checked in this generation.  *)
(* A generation ends, at a step boundary, once it has seen more than       *)
(* MaxStoreEntries different hashes.  HashDb implements this specification *)
(* with a deque of concurrent hash sets probed one after the other.        *)
(***************************************************************************)
EXTENDS Integers, FiniteSets

CONSTANTS Threads,          \* the worker threads
          Hashes,           \* the state hashes
          MaxStoreCount,    \* generations remembered
          MaxStoreEntries   \* hashes after which a generation ends

VARIABLES generation,       \* number of the current generation
          lastSeen,         \* generation in which each hash was last checked
          asked,            \* the hash each thread asks about
          answer            \* the answer each thread got to its last question

vars == <<generation, lastSeen, asked, answer>>

Forgotten == -1
Answers   == {"idle", "pending", "repeated", "novel"}

Init == /\ generation = 0
        /\ \E first \in Hashes :
              lastSeen = [h \in Hashes |-> IF h = first THEN 0 ELSE Forgotten]
        /\ asked \in [Threads -> Hashes]
        /\ answer = [t \in Threads |-> "idle"]

Ask(t, h) == /\ answer[t] # "pending"
             /\ asked' = [asked EXCEPT ![t] = h]
             /\ answer' = [answer EXCEPT ![t] = "pending"]
             /\ UNCHANGED <<generation, lastSeen>>

Reply(t) == /\ answer[t] = "pending"
            /\ answer' = [answer EXCEPT ![t] =
                  IF lastSeen[asked[t]] = Forgotten THEN "novel" ELSE "repeated"]
            /\ lastSeen' = [lastSeen EXCEPT ![asked[t]] = generation]
            /\ UNCHANGED <<generation, asked>>

\* A step of the search ends: no question is open.  The answers have been used.
EndStep == /\ \A t \in Threads : answer[t] # "pending"
           /\ answer' = [t \in Threads |-> "idle"]
           /\ IF Cardinality({h \in Hashes : lastSeen[h] = generation}) > MaxStoreEntries
              THEN /\ generation' = generation + 1
                   /\ lastSeen' = [h \in Hashes |->
                         IF lastSeen[h] + MaxStoreCount < generation + 2 THEN Forgotten
                                                                        ELSE lastSeen[h]]
              ELSE UNCHANGED <<generation, lastSeen>>
           /\ UNCHANGED asked

Next == \/ \E t \in Threads, h \in Hashes : Ask(t, h)
        \/ \E t \in Threads : Reply(t)
        \/ EndStep

Spec == Init /\ [][Next]_vars
=============================================================================
