-------------------------- MODULE Resolver_proofs --------------------------
(***************************************************************************)
(* Theorems about the resolver, for any number of connections, any number  *)
(* of addresses and any durations.                                         *)
(***************************************************************************)
EXTENDS Resolver, TLAPS

\* Ages grow together and never pass the largest one.
LEMMA OlderGrows ==
  /\ \A n \in Age : Older(n) \in Age /\ n <= Older(n)
  /\ \A m, n \in Age : m <= n => Older(m) <= Older(n)
BY TimesAssumption DEF Older, Old, Age

\* The first lookup finds nothing recorded.
LEMMA InitIInv == Init => IInv
BY TimesAssumption, AddressesAssumption
DEF Init, IInv, TypeOK, Unstarted, Age, Old, Accounted, AnswersAreRecent, FailuresExpire,
    Dialled

\* Part of IInv: a lookup that is over has an answer.
Answered == \A t \in Task : task[t].at \in {"found", "done"} => task[t].result # None

\* Every step keeps the types.
LEMMA StepTypes == TypeOK /\ Answered /\ [Next]_vars => TypeOK'
<1> SUFFICES ASSUME TypeOK, Answered, [Next]_vars PROVE TypeOK'
  OBVIOUS
<1> USE DEF TypeOK
<1>0. 0 \in Age
  BY TimesAssumption DEF Age, Old
<1>1. ASSUME NEW t \in Task, Start(t) PROVE TypeOK'
  <2>1. CASE Usable
    <3>1. cache.answer \in Answer
      BY <2>1 DEF Usable
    <3> QED
      BY <1>0, <1>1, <2>1, <3>1 DEF Start
  <2>2. CASE ~Usable
    BY <1>0, <1>1, <2>2 DEF Start
  <2> QED BY <2>1, <2>2
<1>2. ASSUME NEW t \in Task, CleanAnswers(t) PROVE TypeOK'
  BY <1>2 DEF CleanAnswers, Answer
<1>3. ASSUME NEW t \in Task, CleanFails(t) PROVE TypeOK'
  BY <1>0, <1>3 DEF CleanFails
<1>4. ASSUME NEW t \in Task, SystemAnswers(t) PROVE TypeOK'
  <2>1. PICK a \in {Box, cloud, Host} :
          task' = [task EXCEPT ![t].at = "found", ![t].result = a]
    BY <1>4 DEF SystemAnswers
  <2>2. a \in Answer
    BY DEF Answer
  <2> DEFINE Lookup == [at : {"idle", "asking", "falling", "found", "done"},
                        age : Age, result : Answer \cup {None}]
             found == [task[t] EXCEPT !.at = "found", !.result = a]
  <2>3. found \in Lookup
    BY <2>2
  <2>4. task' = [task EXCEPT ![t] = found]
    BY <2>1
  <2> HIDE DEF Lookup, found
  <2>5. task' \in [Task -> Lookup]
    <3>1. task \in [Task -> Lookup]
      BY DEF Lookup
    <3>2. QED
      BY <2>3, <2>4, <3>1
  <2> QED
    BY <1>4, <2>5 DEF SystemAnswers, Lookup
<1>5. ASSUME NEW t \in Task, Store(t) PROVE TypeOK'
  BY <1>5, AddressesAssumption DEF Store, Answered
<1>6. ASSUME NEW t \in Task, Dial(t) PROVE TypeOK'
  BY <1>0, <1>6 DEF Dial, Unstarted
<1>7. ASSUME NEW a \in Address, Move(a) PROVE TypeOK'
  BY <1>0, <1>7 DEF Move
<1>8. CASE Tick
  BY <1>0, <1>8, OlderGrows DEF Tick
<1>9. CASE UNCHANGED vars
  BY <1>9 DEF vars
<1> QED
  BY <1>1, <1>2, <1>3, <1>4, <1>5, <1>6, <1>7, <1>8, <1>9 DEF Next

\* What IInv says of one lookup.
Sound(t) ==
  /\ task[t].at = "falling" => failed <= task[t].age
  /\ task[t].at \in {"found", "done"} => task[t].result # None
  /\ task[t].at = "found" => Accounted(task[t].result, task[t].age)
  /\ task[t].at = "done" /\ task[t].result \in Address
       => was[task[t].result] < Ttl \/ was[task[t].result] <= task[t].age
  /\ task[t].at = "done" /\ task[t].result \in {Box, Host}
       => failed < Ttl \/ failed <= task[t].age

\* What a step does to the lookup it is about; the others stay as they are.
LEMMA LookupStep ==
  ASSUME TypeOK, NEW t \in Task
  PROVE  /\ Start(t) => \/ /\ Usable
                          /\ task'[t] = [at |-> "done", age |-> 0, result |-> cache.answer]
                       \/ task'[t] = [at |-> "asking", age |-> 0, result |-> None]
         /\ CleanAnswers(t) =>
              task'[t] = [at |-> "found", age |-> task[t].age, result |-> cloud]
         /\ CleanFails(t) =>
              task'[t] = [at |-> "falling", age |-> task[t].age, result |-> task[t].result]
         /\ SystemAnswers(t) => \E a \in {Box, cloud, Host} :
              task'[t] = [at |-> "found", age |-> task[t].age, result |-> a]
         /\ Store(t) =>
              task'[t] = [at |-> "done", age |-> task[t].age, result |-> task[t].result]
         /\ Dial(t) => task'[t] = Unstarted
         /\ Start(t) \/ CleanAnswers(t) \/ CleanFails(t) \/ SystemAnswers(t) \/ Store(t) \/ Dial(t)
              => \A u \in Task \ {t} : task'[u] = task[u]
<1> USE DEF TypeOK
<1>1. Start(t) => \/ /\ Usable
                    /\ task'[t] = [at |-> "done", age |-> 0, result |-> cache.answer]
                 \/ task'[t] = [at |-> "asking", age |-> 0, result |-> None]
  BY DEF Start
<1>2. CleanAnswers(t) => task'[t] = [at |-> "found", age |-> task[t].age, result |-> cloud]
  BY DEF CleanAnswers
<1>3. CleanFails(t) =>
        task'[t] = [at |-> "falling", age |-> task[t].age, result |-> task[t].result]
  BY DEF CleanFails
<1>4. SystemAnswers(t) => \E a \in {Box, cloud, Host} :
        task'[t] = [at |-> "found", age |-> task[t].age, result |-> a]
  BY DEF SystemAnswers
<1>5. Store(t) => task'[t] = [at |-> "done", age |-> task[t].age, result |-> task[t].result]
  BY DEF Store
<1>6. Dial(t) => task'[t] = Unstarted
  BY DEF Dial
<1>7. Start(t) \/ CleanAnswers(t) \/ CleanFails(t) \/ SystemAnswers(t) \/ Store(t) \/ Dial(t)
        => \A u \in Task \ {t} : task'[u] = task[u]
  BY DEF Start, CleanAnswers, CleanFails, SystemAnswers, Store, Dial
<1> QED
  BY <1>1, <1>2, <1>3, <1>4, <1>5, <1>6, <1>7

\* Every step keeps the account: an answer is as old as its lookup, and the
\* cloud was there, or the clean resolver failed, since the lookup began.
LEMMA StepIInv == IInv /\ [Next]_vars => IInv'
<1> SUFFICES ASSUME IInv, [Next]_vars PROVE IInv'
  OBVIOUS
<1>0. TypeOK /\ TypeOK' /\ Answered
  BY StepTypes DEF IInv, Answered
<1>a. was[cloud] = 0 /\ (cache # None => Accounted(cache.answer, cache.age))
  BY DEF IInv
<1>b. \A t \in Task : Sound(t)
  BY DEF IInv, Sound, AnswersAreRecent, FailuresExpire, Dialled
<1>c. SUFFICES /\ (was[cloud] = 0)'
               /\ (cache # None => Accounted(cache.answer, cache.age))'
               /\ \A t \in Task : Sound(t)'
  BY <1>0 DEF IInv, Sound, AnswersAreRecent, FailuresExpire, Dialled
<1>d. ASSUME UNCHANGED <<was, failed>>, NEW t \in Task, task'[t] = task[t] PROVE Sound(t)'
  BY <1>b, <1>d DEF Sound, Accounted
<1> USE AddressesAssumption DEF Accounted
<1>1. ASSUME NEW t \in Task, Start(t) PROVE <1>c!1
  <2>1. UNCHANGED <<cloud, was, failed, cache>>
    BY <1>1 DEF Start
  <2>2. Sound(t)'
    BY <1>0, <1>1, <1>a, <2>1, LookupStep, TimesAssumption
    DEF Sound, Usable, TypeOK, Age, Old, Answer
  <2> QED BY <1>0, <1>1, <1>a, <1>d, <2>1, <2>2, LookupStep
<1>2. ASSUME NEW t \in Task, CleanAnswers(t) PROVE <1>c!1
  <2>1. UNCHANGED <<cloud, was, failed, cache>>
    BY <1>2 DEF CleanAnswers
  <2>2. Sound(t)'
    BY <1>0, <1>2, <1>a, <2>1, LookupStep DEF Sound, TypeOK, Age
  <2> QED BY <1>0, <1>2, <1>a, <1>d, <2>1, <2>2, LookupStep
<1>3. ASSUME NEW t \in Task, CleanFails(t) PROVE <1>c!1
  <2>1. /\ UNCHANGED <<cloud, was, cache>> /\ failed' = 0
        /\ \A u \in Task \ {t} : task'[u] = task[u]
        /\ \A n \in Age : 0 <= n
    BY <1>0, <1>3, LookupStep DEF CleanFails, Age
  <2>2. /\ task'[t] = [at |-> "falling", age |-> task[t].age, result |-> task[t].result]
        /\ 0 <= task[t].age
    BY <1>0, <1>3, <2>1, LookupStep DEF TypeOK
  <2>4. Sound(t)'
    BY <2>1, <2>2 DEF Sound
  <2>3. ASSUME NEW u \in Task \ {t} PROVE Sound(u)'
    BY <1>0, <1>b, <2>1, TimesAssumption DEF Sound, TypeOK, Age
  <2> QED BY <1>0, <1>a, <2>1, <2>3, <2>4 DEF TypeOK
<1>4. ASSUME NEW t \in Task, SystemAnswers(t) PROVE <1>c!1
  <2>1. /\ UNCHANGED <<cloud, was, failed, cache>>
        /\ task[t].at = "falling"
    BY <1>4 DEF SystemAnswers
  <2>2. Sound(t)'
    BY <1>0, <1>4, <1>a, <1>b, <2>1, LookupStep DEF Sound, TypeOK, Age
  <2> QED BY <1>0, <1>4, <1>a, <1>d, <2>1, <2>2, LookupStep
<1>5. ASSUME NEW t \in Task, Store(t) PROVE <1>c!1
  <2>1. /\ UNCHANGED <<cloud, was, failed>>
        /\ task[t].at = "found"
        /\ cache' = [answer |-> task[t].result, age |-> task[t].age]
    BY <1>5 DEF Store
  <2>2. Sound(t)'
    BY <1>0, <1>5, <1>b, <2>1, LookupStep DEF Sound, TypeOK, Age, Answer
  <2>3. (cache # None => Accounted(cache.answer, cache.age))'
    BY <1>b, <2>1 DEF Sound
  <2>4. \A u \in Task \ {t} : Sound(u)'
    BY <1>0, <1>5, <1>d, <2>1, LookupStep
  <2> QED BY <1>a, <2>1, <2>2, <2>3, <2>4
<1>6. ASSUME NEW t \in Task, Dial(t) PROVE <1>c!1
  <2>1. UNCHANGED <<cloud, was, failed, cache>>
    BY <1>6 DEF Dial
  <2>2. Sound(t)'
    <3>1. task'[t].at = "idle"
      BY <1>0, <1>6 DEF Dial, TypeOK, Unstarted
    <3> QED BY <3>1 DEF Sound
  <2> QED BY <1>0, <1>6, <1>a, <1>d, <2>1, <2>2, LookupStep
<1>7. ASSUME NEW a \in Address, Move(a) PROVE <1>c!1
  <2>1. /\ UNCHANGED <<failed, cache, task>> /\ cloud' = a /\ was'[a] = 0
        /\ \A x \in Address : was'[x] = was[x] \/ was'[x] = 0
        /\ \A n \in Age : 0 <= n
    BY <1>0, <1>7 DEF Move, TypeOK, Age
  <2>2. ASSUME NEW u \in Task PROVE Sound(u)'
    BY <1>0, <1>b, <2>1, TimesAssumption DEF Sound, TypeOK
  <2>3. (cache # None => Accounted(cache.answer, cache.age))'
    BY <1>0, <1>a, <2>1 DEF TypeOK
  <2> QED BY <2>1, <2>2, <2>3
<1>8. CASE Tick
  <2>1. /\ failed' = Older(failed)
        /\ \A x \in Address : was'[x] = Older(was[x]) \/ was'[x] = 0
        /\ cloud' = cloud /\ was'[cloud] = 0
        /\ \A n \in Age : 0 <= n
    BY <1>0, <1>8 DEF Tick, TypeOK, Age
  <2>2. (cache # None => Accounted(cache.answer, cache.age))'
    <3>1. CASE cache = None
      BY <1>8, <3>1 DEF Tick
    <3>2. CASE cache # None
      <4>1. /\ cache'.answer = cache.answer /\ cache'.age = Older(cache.age)
            /\ cache.age \in Age
        BY <1>0, <1>8, <3>2 DEF Tick, TypeOK
      <4> QED
        BY <1>0, <1>a, <2>1, <3>2, <4>1, OlderGrows DEF TypeOK
    <3> QED BY <3>1, <3>2
  <2>3. ASSUME NEW t \in Task PROVE Sound(t)'
    <3>1. CASE task[t].at = "idle"
      <4>1. task'[t] = task[t]
        BY <1>8, <3>1 DEF Tick
      <4> QED BY <3>1, <4>1 DEF Sound
    <3>2. CASE task[t].at # "idle"
      <4>1. /\ task[t].at # "done"
            /\ task'[t] = [task[t] EXCEPT !.age = Older(task[t].age)]
        BY <1>8, <3>2 DEF Tick
      <4>2. /\ task'[t].at = task[t].at /\ task'[t].result = task[t].result
            /\ task'[t].age = Older(task[t].age) /\ task[t].age \in Age
        BY <1>0, <4>1 DEF TypeOK
      <4>3. failed <= task[t].age => failed' <= task'[t].age
        BY <1>0, <2>1, <4>2, OlderGrows DEF TypeOK
      <4>4. \A x \in Address : was[x] <= task[t].age => was'[x] <= task'[t].age
        BY <1>0, <2>1, <4>2, OlderGrows DEF TypeOK
      <4> QED
        BY <1>b, <4>1, <4>2, <4>3, <4>4 DEF Sound
    <3> QED BY <3>1, <3>2
  <2> QED BY <2>1, <2>2, <2>3
<1>9. CASE UNCHANGED vars
  BY <1>a, <1>b, <1>9 DEF vars, Sound
<1> QED
  BY <1>1, <1>2, <1>3, <1>4, <1>5, <1>6, <1>7, <1>8, <1>9 DEF Next

\* The account is kept in every behaviour (resolve.py:97-113).
THEOREM Accounts == Spec => []IInv
<1> QED BY InitIInv, StepIInv, PTL DEF Spec

\* Types of the cache and of the lookups on their way (resolve.py:73-113): ages stay
\* within what a lookup and an entry may last.
THEOREM ResolverTypes == Spec => []TypeOK
<1>1. IInv => TypeOK BY DEF IInv
<1> QED BY Accounts, <1>1, PTL

\* No connection dials an address the cloud left more than a cache lifetime, or
\* the connection's own lookup, ago (resolve.py:97-113).
THEOREM RecentAnswers == Spec => []AnswersAreRecent
<1>1. IInv => AnswersAreRecent BY DEF IInv
<1> QED BY Accounts, <1>1, PTL

\* A failure of the clean resolver leads connections astray for no longer than
\* a cache lifetime, or the connection's own lookup (resolve.py:97-113).
THEOREM FailuresAreOver == Spec => []FailuresExpire
<1>1. IInv => FailuresExpire BY DEF IInv
<1> QED BY Accounts, <1>1, PTL

=============================================================================
