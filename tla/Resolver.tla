------------------------------ MODULE Resolver ------------------------------
(***************************************************************************)
(* How the proxy finds the cloud.  The name of the cloud is poisoned for   *)
(* the whole network to point at this machine, so every connection asks a  *)
(* clean resolver, in a thread, and falls back to the system's when that   *)
(* fails; what comes out of it is cached for a while.  Lookups of several  *)
(* connections overlap, the cloud moves, and the resolvers come and go.    *)
(***************************************************************************)
EXTENDS Integers

CONSTANTS
  Task,      \* connections that resolve the name
  Address,   \* the addresses the cloud may have
  Box,       \* this machine, the poisoned answer
  Host,      \* the name itself
  Ttl,       \* _CACHE_TTL, in ticks
  Wait,      \* ticks after which a lookup has answered or failed
  None

ASSUME TimesAssumption == Ttl \in Nat \ {0} /\ Wait \in Nat
ASSUME AddressesAssumption ==
  {Box, Host, None} \cap Address = {} /\ Host # Box /\ None \notin {Box, Host}

Answer == Address \cup {Box, Host}

VARIABLES
  cloud,   \* the cloud's address
  was,     \* ticks since an address was the cloud's (history)
  failed,  \* ticks since the clean resolver last failed (history)
  cache,   \* _cache[host]: the answer and the ticks since its lookup began
  task     \* how far a lookup is, when it began, and what it has found

vars == <<cloud, was, failed, cache, task>>

\* No age beyond this one makes a difference.
Old == Ttl + Wait

Age == 0..Old

TypeOK ==
  /\ cloud \in Address
  /\ was \in [Address -> Age]
  /\ failed \in Age
  /\ cache \in [answer : Answer, age : Age] \cup {None}
  /\ task \in [Task -> [at : {"idle", "asking", "falling", "found", "done"},
                        age : Age, result : Answer \cup {None}]]

Unstarted == [at |-> "idle", age |-> 0, result |-> None]

Init ==
  /\ cloud \in Address
  /\ was = [a \in Address |-> IF a = cloud THEN 0 ELSE Old]
  /\ failed = Old
  /\ cache = None
  /\ task = [t \in Task |-> Unstarted]

-----------------------------------------------------------------------------

\* Mutant: an entry is good for ever.
UsableForEver == cache # None

Usable == cache # None /\ cache.age < Ttl

\* resolve() up to its first await: a cached answer is returned at once.
Start(t) ==
  /\ task[t].at = "idle"
  /\ \/ /\ Usable
        /\ task' = [task EXCEPT ![t] = [at |-> "done", age |-> 0, result |-> cache.answer]]
     \/ /\ ~Usable
        /\ task' = [task EXCEPT ![t] = [at |-> "asking", age |-> 0, result |-> None]]
  /\ UNCHANGED <<cloud, was, failed, cache>>

\* _resolve_blocking in its thread: the clean resolver names the cloud ...
CleanAnswers(t) ==
  /\ task[t].at = "asking"
  /\ task' = [task EXCEPT ![t].at = "found", ![t].result = cloud]
  /\ UNCHANGED <<cloud, was, failed, cache>>

\* ... or does not answer, or not with an address.
CleanFails(t) ==
  /\ task[t].at = "asking"
  /\ task' = [task EXCEPT ![t].at = "falling"]
  /\ failed' = 0
  /\ UNCHANGED <<cloud, was, cache>>

\* getaddrinfo: the system's resolver is poisoned or not, or fails as well and
\* leaves the name.
SystemAnswers(t) ==
  /\ task[t].at = "falling"
  /\ \E a \in {Box, cloud, Host} :
       task' = [task EXCEPT ![t].at = "found", ![t].result = a]
  /\ UNCHANGED <<cloud, was, failed, cache>>

\* Mutant: an answer counts as new when it is stored.
StoreAsNew(t) ==
  /\ task[t].at = "found"
  /\ cache' = [answer |-> task[t].result, age |-> 0]
  /\ task' = [task EXCEPT ![t].at = "done"]
  /\ UNCHANGED <<cloud, was, failed>>

\* The task goes on and caches what it has, whatever was cached meanwhile; the
\* entry is as old as the lookup.
Store(t) ==
  /\ task[t].at = "found"
  /\ cache' = [answer |-> task[t].result, age |-> task[t].age]
  /\ task' = [task EXCEPT ![t].at = "done"]
  /\ UNCHANGED <<cloud, was, failed>>

\* The connection has dialled the answer; another one takes the slot.
Dial(t) ==
  /\ task[t].at = "done"
  /\ task' = [task EXCEPT ![t] = Unstarted]
  /\ UNCHANGED <<cloud, was, failed, cache>>

\* The cloud moves to another address (external).
Move(a) ==
  /\ a # cloud
  /\ cloud' = a
  /\ was' = [was EXCEPT ![a] = 0]
  /\ UNCHANGED <<failed, cache, task>>

Older(n) == IF n < Old THEN n + 1 ELSE Old

\* Time passes: a lookup takes Wait ticks at most, and nothing waits between
\* an answer and its use for as long as a tick.
Tick ==
  /\ \A t \in Task : /\ task[t].at # "done"
                     /\ task[t].at # "idle" => task[t].age < Wait
  /\ was' = [a \in Address |-> IF a = cloud THEN 0 ELSE Older(was[a])]
  /\ failed' = Older(failed)
  /\ cache' = IF cache = None THEN None ELSE [cache EXCEPT !.age = Older(@)]
  /\ task' = [t \in Task |-> IF task[t].at = "idle" THEN task[t]
                             ELSE [task[t] EXCEPT !.age = Older(@)]]
  /\ UNCHANGED cloud

Next ==
  \/ \E t \in Task : \/ Start(t) \/ CleanAnswers(t) \/ CleanFails(t)
                     \/ SystemAnswers(t) \/ Store(t) \/ Dial(t)
  \/ \E a \in Address : Move(a)
  \/ Tick

Spec == Init /\ [][Next]_vars

-----------------------------------------------------------------------------

Dialled(t) == task[t].at = "done"

\* An address that is dialled was the cloud's within the last Ttl ticks or since
\* the lookup began (resolve.py:97-113): entries do not outlive their time, also
\* when a slow lookup overwrites what a quick one has found since.
AnswersAreRecent ==
  \A t \in Task :
    Dialled(t) /\ task[t].result \in Address
      => \/ was[task[t].result] < Ttl
         \/ was[task[t].result] <= task[t].age

\* What a failure of the clean resolver leaves behind is over when the cache
\* entry is (resolve.py:97-113): no connection goes astray for longer.
FailuresExpire ==
  \A t \in Task :
    Dialled(t) /\ task[t].result \in {Box, Host}
      => failed < Ttl \/ failed <= task[t].age

\* An answer that is that many ticks old: the cloud was there since, or the
\* clean resolver has failed since.
Accounted(answer, age) ==
  IF answer \in Address THEN was[answer] <= age ELSE failed <= age

\* The inductive invariant behind the two (resolve.py:97-113): it speaks of what
\* is cached and of the lookups on their way as well.
IInv ==
  /\ TypeOK
  /\ was[cloud] = 0
  /\ cache # None => Accounted(cache.answer, cache.age)
  /\ \A t \in Task :
       /\ task[t].at = "falling" => failed <= task[t].age
       /\ task[t].at \in {"found", "done"} => task[t].result # None
       /\ task[t].at = "found" => Accounted(task[t].result, task[t].age)
  /\ AnswersAreRecent /\ FailuresExpire

=============================================================================
