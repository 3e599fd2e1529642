--------------------------- MODULE PostCacheProofs ---------------------------
(* Proofs about PostCache, for any number of requests, any TTL, any bound  *)
(* on the duration of a request and any number of versions.                *)
EXTENDS PostCache, TLAPS

LEMMA InitIInv == Init => IInv
<1> SUFFICES ASSUME Init PROVE IInv
  OBVIOUS
<1> USE BoundsAssumption DEF Init, Version, Cached, NoEntry
<1>0. Flags
  BY Zenon DEF Flags
<1>1. TypeOK
  BY <1>0, SMT DEF TypeOK, Entry, Capped, ReadPc, WritePc
<1>2. RowInv /\ EntryInv /\ ReadInv /\ StalenessBounded
  BY SMT DEF RowInv, EntryInv, ReadInv, StalenessBounded
<1>3. FillInv /\ StaleIsExplained
  BY SMT DEF FillInv, StaleIsExplained
<1>q. QED
  BY <1>1, <1>2, <1>3 DEF IInv

\* A step leaves the flags alone, sets or clears them.
LEMMA FlagsStep == TypeOK /\ [Next]_vars => Flags'
<1> SUFFICES ASSUME TypeOK, [Next]_vars PROVE Flags'
  OBVIOUS
<1> USE DEF Flags, TypeOK, store, requests, entry
<1>1. exists' \in BOOLEAN
  BY Zenon DEF Next, vars, Create, Begin, Serve, GetHit, GetMiss, Load, Fill, Answer,
     Find, CommitUpdate, CommitNothing, CommitDelete, Evict, Abort, EvictFails,
     AppStops, Tick
<1>2. overtaken' \in BOOLEAN
  BY Zenon DEF Next, vars, Create, Begin, Serve, GetHit, GetMiss, Load, Fill, Answer,
     Find, CommitUpdate, CommitNothing, CommitDelete, Evict, Abort, EvictFails,
     AppStops, Tick, Set
<1>3. missed' \in BOOLEAN
  BY Zenon DEF Next, vars, Create, Begin, Serve, GetHit, GetMiss, Load, Fill, Answer,
     Find, CommitUpdate, CommitNothing, CommitDelete, Evict, Abort, EvictFails,
     AppStops, Tick, Set
<1>q. QED
  BY <1>1, <1>2, <1>3

LEMMA TypeStep == TypeOK /\ ReadInv /\ [Next]_vars => TypeOK'
<1> SUFFICES ASSUME TypeOK, ReadInv, [Next]_vars PROVE TypeOK'
  OBVIOUS
<1>0. Flags'
  BY FlagsStep
<1> USE <1>0, BoundsAssumption
        DEF TypeOK, Version, Entry, NoEntry, Cached, ReadPc, WritePc, Capped,
            store, requests, entry, Goto
<1>1. CASE Create
  BY <1>1, SMT DEF Create
<1>2. ASSUME NEW t \in Request, Begin(t) PROVE TypeOK'
  BY <1>2, SMT DEF Begin
<1>3. ASSUME NEW t \in Request, Serve(t) PROVE TypeOK'
  <2>1. CASE GetHit(t)
    BY <2>1, SMT DEF GetHit, LeftAfterHit
  <2>2. CASE GetMiss(t)
    BY <2>2, SMT DEF GetMiss
  <2>3. CASE Load(t)
    BY <2>3, SMT DEF Load
  <2>4. CASE Fill(t)
    BY <2>4, SMT DEF Fill, Set, Duration, ReadInv
  <2>5. CASE Answer(t)
    BY <2>5, SMT DEF Answer
  <2>6. CASE Find(t)
    BY <2>6, SMT DEF Find
  <2>7. CASE CommitUpdate(t)
    BY <2>7, SMT DEF CommitUpdate, AfterCommit, Overtake
  <2>8. CASE CommitNothing(t)
    BY <2>8, SMT DEF CommitNothing, AfterCommit
  <2>9. CASE CommitDelete(t)
    BY <2>9, SMT DEF CommitDelete, AfterCommit, Overtake
  <2>10. CASE Evict(t)
    BY <2>10, SMT DEF Evict
  <2>11. CASE Abort(t)
    BY <2>11, SMT DEF Abort, Set, Duration, ReadInv
  <2>12. CASE EvictFails(t)
    BY <2>12, SMT DEF EvictFails
  <2>q. QED
    BY <1>3, <2>1, <2>2, <2>3, <2>4, <2>5, <2>6, <2>7, <2>8, <2>9, <2>10,
       <2>11, <2>12 DEF Serve
<1>4. CASE AppStops
  BY <1>4, SMT DEF AppStops
<1>5. CASE Tick
  <2>1. Expiring \in Entry
    BY SMT DEF Expiring
  <2>2. cache' = Expiring
    BY <1>5, Zenon DEF Tick
  <2>3. cache'.version # 0 <=> cache'.left > 0
    BY <2>2, SMT DEF Expiring
  <2>4. age' \in [Request -> 0..MaxDelay]
    BY <1>5, SMT DEF Tick
  <2>5. superseded' \in [Version -> 0..Capped]
    BY <1>5, SMT DEF Tick
  <2>q. QED
    BY <1>5, <2>1, <2>2, <2>3, <2>4, <2>5, SMT DEF Tick
<1>6. CASE UNCHANGED vars
  BY <1>6, SMT DEF vars
<1>q. QED
  BY <1>1, <1>2, <1>3, <1>4, <1>5, <1>6, Zenon DEF Next

-----------------------------------------------------------------------------
(* How long a version has been superseded changes in Tick only.            *)

LEMMA RowStep == TypeOK /\ RowInv /\ [Next]_vars => RowInv'
<1> SUFFICES ASSUME TypeOK, RowInv, [Next]_vars PROVE RowInv'
  OBVIOUS
<1> USE BoundsAssumption DEF TypeOK, RowInv, Version, Capped
<1>1. CASE Create
  BY <1>1, SMT DEF Create
<1>2. ASSUME NEW t \in Request, CommitUpdate(t) PROVE RowInv'
  BY <1>2, SMT DEF CommitUpdate
<1>3. ASSUME NEW t \in Request, CommitDelete(t) PROVE RowInv'
  BY <1>3, SMT DEF CommitDelete
<1>4. CASE Tick
  BY <1>4, SMT DEF Tick, store, Superseded
<1>5. CASE UNCHANGED << store, superseded >>
  BY <1>5, SMT DEF store
<1>6. ASSUME NEW t \in Request, Begin(t) \/ Serve(t),
             ~CommitUpdate(t), ~CommitDelete(t)
      PROVE UNCHANGED << store, superseded >>
  BY <1>6, Zenon DEF Begin, Serve, GetHit, GetMiss, Load, Fill, Answer, Find,
     CommitNothing, Evict, Abort, EvictFails
<1>7. CASE AppStops \/ UNCHANGED vars
  BY <1>5, <1>7, Zenon DEF AppStops, vars
<1>q. QED
  BY <1>1, <1>2, <1>3, <1>4, <1>5, <1>6, <1>7, Zenon DEF Next, Serve

LEMMA EntryStep ==
    TypeOK /\ RowInv /\ EntryInv /\ ReadInv /\ [Next]_vars => EntryInv'
<1> SUFFICES ASSUME TypeOK, RowInv, EntryInv, ReadInv, [Next]_vars
             PROVE EntryInv'
  OBVIOUS
<1> USE BoundsAssumption
        DEF TypeOK, EntryInv, ReadInv, Version, Cached, NoEntry, Entry, Capped
<1>1. ASSUME NEW t \in Request, GetHit(t) PROVE EntryInv'
  BY <1>1, SMT DEF GetHit, LeftAfterHit
<1>2. ASSUME NEW t \in Request, pc[t] = "fill", Set(t), superseded' = superseded
      PROVE EntryInv'
  BY <1>2, SMT DEF Set, Duration
<1>3. ASSUME NEW t \in Request, Evict(t) PROVE EntryInv'
  BY <1>3, SMT DEF Evict
<1>4. CASE Tick
  BY <1>4, SMT DEF Tick, Expiring
<1>5. CASE UNCHANGED << cache, superseded >>
  BY <1>5, SMT
<1>6. ASSUME NEW t \in Request, Begin(t) \/ Serve(t), ~GetHit(t), ~Evict(t)
      PROVE \/ UNCHANGED << cache, superseded >>
            \/ pc[t] = "fill" /\ Set(t) /\ superseded' = superseded
  BY <1>6, Zenon DEF Begin, Serve, GetMiss, Load, Fill, Answer, Find, entry,
     CommitUpdate, CommitNothing, CommitDelete, Abort, EvictFails
<1>7. CASE Create \/ AppStops \/ UNCHANGED vars
  BY <1>5, <1>7, Zenon DEF Create, AppStops, vars, entry
<1>q. QED
  BY <1>1, <1>2, <1>3, <1>4, <1>5, <1>6, <1>7, Zenon DEF Next, Serve

\* What a read has in hand is older only by the time it has spent; a hit
\* starts from what EntryInv says of the entry.
LEMMA ReadStep ==
    IInv /\ [Next]_vars => ReadInv' /\ StalenessBounded'
<1> SUFFICES ASSUME IInv, [Next]_vars PROVE ReadInv' /\ StalenessBounded'
  OBVIOUS
<1> USE BoundsAssumption
        DEF IInv, TypeOK, RowInv, EntryInv, ReadInv, StalenessBounded, Version,
            Cached, Entry, Capped, ReadPc, WritePc, Goto, store, requests, entry
<1>1. ASSUME NEW t \in Request, Begin(t) PROVE ReadInv' /\ StalenessBounded'
  BY <1>1, SMT DEF Begin
<1>2. ASSUME NEW t \in Request, Serve(t) PROVE ReadInv' /\ StalenessBounded'
  <2>1. CASE GetHit(t)
    <3> DEFINE v == cache.version
    <3>1. v \in Version /\ superseded[v] < TTL + MaxDelay + age[t]
      BY <2>1, SMT DEF GetHit
    <3>2. /\ held' = [held EXCEPT ![t] = v] /\ UNCHANGED << age, superseded >>
          /\ Goto(t, "answer")
      BY <2>1, Zenon DEF GetHit
    <3> HIDE DEF v
    <3>q. QED
      BY <3>1, <3>2, SMT
  <2>2. CASE Load(t)
    BY <2>2, SMT DEF Load
  <2>3. CASE Fill(t)
    BY <2>3, SMT DEF Fill
  <2>4. ASSUME ~GetHit(t), ~Load(t), ~Fill(t)
        PROVE ReadInv' /\ StalenessBounded'
    <3>1. UNCHANGED << held, age, superseded >>
      BY <1>2, <2>4, Zenon DEF Serve, GetMiss, Answer, Find, CommitUpdate,
         CommitNothing, CommitDelete, Evict, Abort, EvictFails
    <3>2. \E l \in {"load", "idle", "commit", "evict"} : Goto(t, l)
      BY <1>2, <2>4, Zenon DEF Serve, GetMiss, Answer, Find, CommitUpdate,
         CommitNothing, CommitDelete, Evict, Abort, EvictFails, AfterCommit
    <3>q. QED
      BY <3>1, <3>2, SMT
  <2>q. QED
    BY <1>2, <2>1, <2>2, <2>3, <2>4, Zenon DEF Serve
<1>3. CASE Tick
  <2>1. UNCHANGED << pc, held >>
    BY <1>3, Zenon DEF Tick
  <2>2. \A s \in Request : pc[s] # "idle" => age'[s] = age[s] + 1
    BY <1>3, SMT DEF Tick
  <2>3. \A v \in Version :
            superseded'[v] \in Nat /\ superseded'[v] <= superseded[v] + 1
    BY <1>3, SMT DEF Tick
  <2>4. ASSUME NEW s \in Request, pc[s] \in {"fill", "answer"}
        PROVE /\ pc'[s] = pc[s] /\ held'[s] = held[s] /\ held[s] \in Version
              /\ age'[s] = age[s] + 1 /\ age[s] \in Nat
              /\ superseded[held[s]] \in Nat /\ superseded'[held[s]] \in Nat
              /\ superseded'[held[s]] <= superseded[held[s]] + 1
    BY <2>1, <2>2, <2>3, <2>4, SMT
  <2>5. ReadInv'
    BY <2>1, <2>4, SMT
  <2>6. ASSUME NEW s \in Request, pc'[s] = "answer"
        PROVE superseded'[held'[s]] < TTL + MaxDelay + age'[s]
              \/ superseded'[held'[s]] <= age'[s]
    <3>1. pc[s] = "answer" /\ held'[s] = held[s]
      BY <2>1, <2>6
    <3>2. superseded[held[s]] < TTL + MaxDelay + age[s]
          \/ superseded[held[s]] <= age[s]
      BY <3>1, Zenon
    <3>3. superseded'[held[s]] <= superseded[held[s]] + 1
          /\ age'[s] = age[s] + 1 /\ age[s] \in Nat
          /\ superseded[held[s]] \in Nat /\ superseded'[held[s]] \in Nat
      BY <2>4, <3>1
    <3> HIDE DEF IInv, TypeOK, RowInv, EntryInv, ReadInv, StalenessBounded
    <3>q. QED
      BY <3>1, <3>2, <3>3, SMT
  <2>7. StalenessBounded'
    BY <2>6, Zenon
  <2>q. QED
    BY <2>5, <2>7
<1>4. CASE AppStops
  BY <1>4, SMT DEF AppStops
<1>5. CASE Create \/ UNCHANGED vars
  BY <1>5, SMT DEF Create, vars
<1>q. QED
  BY <1>1, <1>2, <1>3, <1>4, <1>5, Zenon DEF Next

-----------------------------------------------------------------------------
(* A commit overtakes every request in progress, so a read that has not    *)
(* been overtaken still has the row in hand.                               *)

LEMMA FillStep == TypeOK /\ RowInv /\ FillInv /\ [Next]_vars => FillInv'
<1> SUFFICES ASSUME TypeOK, RowInv, FillInv, [Next]_vars,
                    NEW s \in Request, (pc[s] = "fill")', ~overlapped[s]'
             PROVE Current(held[s])'
  BY Zenon DEF FillInv
<1>1. ASSUME pc[s] = "fill", ~overlapped[s],
             UNCHANGED << store, held[s] >>
      PROVE Current(held[s])'
  BY <1>1, Zenon DEF FillInv, Current, store
<1>2. CASE Create
  <2>1. pc[s] = "fill" /\ ~overlapped[s]
    BY <1>2, Zenon DEF Create, requests
  <2>2. exists /\ held[s] = current
    BY <2>1, Zenon DEF FillInv, Current
  <2>3. current > 0
    BY <2>2, Zenon DEF RowInv
  <2>q. QED
    BY <1>2, <2>3, SMT DEF Create
<1>3. ASSUME NEW t \in Request, Begin(t) PROVE Current(held[s])'
  BY <1>1, <1>3, SMT DEF TypeOK, Begin, Goto
<1>4. ASSUME NEW t \in Request, Serve(t) PROVE Current(held[s])'
  <2>1. CASE Load(t)
    <3>1. CASE s = t
      BY <2>1, <3>1, SMT DEF TypeOK, Load, Goto, Current, store
    <3>2. CASE s # t
      BY <1>1, <2>1, <3>2, SMT DEF TypeOK, Load, Goto
    <3>q. QED
      BY <3>1, <3>2
  <2>2. ASSUME Overtake(t), pc' = [pc EXCEPT ![t] = "evict"] PROVE FALSE
    <3>1. pc[s] # "idle" /\ s # t
      BY <2>2, SMT DEF TypeOK
    <3>2. overlapped'[s]
      BY <2>2, <3>1, Zenon DEF Overtake
    <3>q. QED
      BY <3>2
  <2>3. CASE GetHit(t)
    BY <1>1, <2>3, SMT DEF TypeOK, GetHit, Goto
  <2>4. ASSUME ~Load(t), ~CommitUpdate(t), ~CommitDelete(t), ~GetHit(t)
        PROVE Current(held[s])'
    <3>1. UNCHANGED << store, held, overlapped >>
      BY <1>4, <2>4, Zenon DEF Serve, GetMiss, Fill, Answer, Find,
         CommitNothing, Evict, Abort, EvictFails
    <3>2. \E l \in {"load", "answer", "commit", "evict", "idle"} : Goto(t, l)
      BY <1>4, <2>4, Zenon DEF Serve, GetMiss, Fill, Answer, Find,
         CommitNothing, Evict, Abort, EvictFails, AfterCommit
    <3>3. pc[s] = "fill"
      BY <3>2, SMT DEF TypeOK, Goto
    <3>q. QED
      BY <1>1, <3>1, <3>3, Zenon
  <2>q. QED
    BY <1>4, <2>1, <2>2, <2>3, <2>4, Zenon
       DEF Serve, CommitUpdate, CommitDelete, Goto, AfterCommit
<1>5. CASE AppStops
  BY <1>5, SMT DEF AppStops
<1>6. CASE Tick
  BY <1>1, <1>6, Zenon DEF Tick, store
<1>7. CASE UNCHANGED vars
  BY <1>1, <1>7, Zenon DEF vars, store, requests
<1>q. QED
  BY <1>2, <1>3, <1>4, <1>5, <1>6, <1>7, Zenon DEF Next

\* Who changes the row has its evict before it; who fills the cache leaves the
\* row in it or has been overtaken; who drops an evict is remembered.
LEMMA ExplainedStep ==
    TypeOK /\ RowInv /\ FillInv /\ StaleIsExplained /\ [Next]_vars
        => StaleIsExplained'
<1> SUFFICES ASSUME TypeOK, RowInv, FillInv, StaleIsExplained, [Next]_vars,
                    Cached', ~Current(cache.version)'
             PROVE \/ \E s \in Request : (pc[s] = "evict")'
                   \/ overtaken'
                   \/ missed'
  BY Zenon DEF StaleIsExplained
<1> DEFINE Explained == (\E s \in Request : pc[s] = "evict") \/ overtaken \/ missed
<1>1. ASSUME cache'.version = cache.version, UNCHANGED store PROVE Explained
  BY <1>1, Zenon DEF StaleIsExplained, Cached, Current, store
<1>2. ASSUME NEW t \in Request, pc[t] # "evict", NEW l, Goto(t, l), Explained,
             UNCHANGED << overtaken, missed >>
      PROVE Explained'
  BY <1>2, SMT DEF TypeOK, Goto
<1>3. CASE Create
  <2>1. ~exists
    BY <1>3, SMT DEF Create, RowInv
  <2>2. Explained
    BY <1>3, <2>1, Zenon DEF StaleIsExplained, Cached, Current, Create, entry
  <2>q. QED
    BY <1>3, <2>2, Zenon DEF Create, entry, requests
<1>4. ASSUME NEW t \in Request, Begin(t) PROVE Explained'
  <2>1. Explained /\ UNCHANGED << overtaken, missed >>
    BY <1>1, <1>4, Zenon DEF Begin, entry
  <2>q. QED
    BY <1>2, <1>4, <2>1, Zenon DEF Begin
<1>5. ASSUME NEW t \in Request, Serve(t) PROVE Explained'
  <2>1. ASSUME Set(t), pc[t] = "fill", UNCHANGED store PROVE Explained'
    <3>1. cache'.version = held[t]
      BY <2>1, SMT DEF Set
    <3>2. ~Current(held[t])
      BY <2>1, <3>1, Zenon DEF Current, store
    <3>3. overlapped[t]
      BY <2>1, <3>2, Zenon DEF FillInv
    <3>q. QED
      BY <2>1, <3>3, Zenon DEF Set
  <2>2. ASSUME Goto(t, "evict") PROVE Explained'
    BY <2>2, SMT DEF TypeOK, Goto
  <2>3. CASE Evict(t)
    BY <2>3, SMT DEF Evict, NoEntry, Cached
  <2>4. CASE EvictFails(t)
    BY <2>4, Zenon DEF EvictFails
  <2>5. CASE GetHit(t)
    <3>1. cache'.version = cache.version
      BY <2>5, SMT DEF GetHit
    <3>2. Explained /\ pc[t] # "evict"
      BY <1>1, <2>5, <3>1, SMT DEF GetHit
    <3>q. QED
      BY <1>2, <2>5, <3>2, Zenon DEF GetHit
  <2>6. CASE GetMiss(t) \/ Load(t) \/ Answer(t) \/ Find(t)
            \/ (Abort(t) /\ UNCHANGED entry)
    <3>1. UNCHANGED << store, entry >>
      BY <2>6, Zenon DEF GetMiss, Load, Answer, Find, Abort
    <3>2. Explained
      BY <1>1, <3>1, Zenon DEF entry
    <3>3. pc[t] # "evict" /\ \E l \in {"load", "fill", "idle", "commit"} : Goto(t, l)
      BY <2>6, SMT DEF GetMiss, Load, Answer, Find, Abort
    <3>q. QED
      BY <1>2, <3>1, <3>2, <3>3, Zenon DEF entry
  <2>q. QED
    BY <1>5, <2>1, <2>2, <2>3, <2>4, <2>5, <2>6, Zenon
       DEF Serve, Fill, Abort, CommitUpdate, CommitDelete, CommitNothing,
           AfterCommit
<1>6. CASE AppStops
  <2>1. Explained
    BY <1>1, <1>6, Zenon DEF AppStops
  <2>q. QED
    BY <1>6, <2>1, Zenon DEF AppStops
<1>7. CASE Tick
  <2>1. cache'.version = cache.version
    BY <1>7, SMT DEF Tick, Expiring, NoEntry, Cached
  <2>q. QED
    BY <1>1, <1>7, <2>1, Zenon DEF Tick
<1>8. CASE UNCHANGED vars
  BY <1>1, <1>8, Zenon DEF vars, entry, requests
<1>q. QED
  BY <1>3, <1>4, <1>5, <1>6, <1>7, <1>8, Zenon DEF Next

\* The inductive invariant holds in every reachable state.
THEOREM Invariance == Spec => []IInv
<1>1. IInv /\ [Next]_vars => IInv'
  BY TypeStep, RowStep, EntryStep, ReadStep, FillStep, ExplainedStep DEF IInv
<1>q. QED
  BY InitIInv, <1>1, PTL DEF Spec

\* Every variable of the cache and of the requests keeps its type.
THEOREM TypeCorrect == Spec => []TypeOK
BY Invariance, PTL DEF IInv

\* Whatever the interleaving of reads and writes, and whatever call fails, no
\* read answers with a version that was superseded longer ago than one TTL and
\* the time two requests may take.
THEOREM StalenessIsBounded == Spec => []StalenessBounded
BY Invariance, PTL DEF IInv

\* The cache differs from the row only between a commit and its evict, if a
\* write overtook the read that filled it, or if an evict was lost.
THEOREM StalenessExplained == Spec => []StaleIsExplained
BY Invariance, PTL DEF IInv

=============================================================================
