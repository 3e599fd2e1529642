------------------------------ MODULE PostCache ------------------------------
(***************************************************************************)
(* GET, PUT and DELETE /posts/{id} for one post: a row in MySQL in front   *)
(* of which PostQueryService and PostController keep a Redis entry by      *)
(* hand (get, load, set; commit, then evict).  Requests are threads of the *)
(* application; between any two of a request's calls the others may run.   *)
(* Time passes in Ticks, for the TTL of the entry.                         *)
(***************************************************************************)
EXTENDS Integers

CONSTANTS
    Request,      \* threads that serve a request for this post
    TTL,          \* cache.post-ttl-seconds, in ticks
    MaxDelay,     \* bound: ticks a request takes at most
    MaxVersions   \* bound: versions of the post

ASSUME BoundsAssumption ==
    TTL \in Nat \ {0} /\ MaxDelay \in Nat /\ MaxVersions \in Nat \ {0}

VARIABLES
    exists,      \* does the row exist
    current,     \* the version in the row: creation is 1, each update one more
    cache,       \* what Redis holds under post:<id>
    pc,          \* next call of each request
    op,          \* what it was asked to do
    held,        \* the PostResponse it has in hand
    age,         \* ticks since it began
    \* history variables
    overlapped,  \* a write has committed since the request began
    superseded,  \* ticks since a version was replaced or deleted
    overtaken,   \* ... since the read that filled the entry began
    missed       \* an evict of the entry has failed

store    == << exists, current >>
requests == << pc, op, held, age >>
entry    == << cache, overtaken, missed >>
vars     == << store, entry, requests, overlapped, superseded >>

Version == 1..MaxVersions
Entry   == [version : 0..MaxVersions, left : 0..TTL]
NoEntry == [version |-> 0, left |-> 0]
Cached  == cache.version # 0

ReadPc  == {"get", "load", "fill", "answer"}
WritePc == {"find", "commit", "evict"}
Capped  == 2 * MaxDelay + TTL + 1    \* bound: superseded counts no further

Flags == exists \in BOOLEAN /\ overtaken \in BOOLEAN /\ missed \in BOOLEAN

TypeOK ==
    /\ Flags
    /\ current \in 0..MaxVersions
    /\ cache \in Entry /\ (Cached <=> cache.left > 0)
    /\ pc \in [Request -> ReadPc \cup WritePc \cup {"idle"}]
    /\ op \in [Request -> {"read", "update", "delete"}]
    /\ held \in [Request -> 0..MaxVersions]
    /\ age \in [Request -> 0..MaxDelay]
    /\ overlapped \in [Request -> BOOLEAN]
    /\ superseded \in [Version -> 0..Capped]

Init ==
    /\ exists = FALSE /\ current = 0
    /\ cache = NoEntry
    /\ pc = [t \in Request |-> "idle"]
    /\ op = [t \in Request |-> "read"]
    /\ held = [t \in Request |-> 0]
    /\ age = [t \in Request |-> 0]
    /\ overlapped = [t \in Request |-> FALSE]
    /\ superseded = [v \in Version |-> 0]
    /\ overtaken = FALSE /\ missed = FALSE

Goto(t, l) == pc' = [pc EXCEPT ![t] = l]

\* POST /posts: the id is the database's and never given again.
Create ==
    /\ current = 0
    /\ exists' = TRUE /\ current' = 1
    /\ UNCHANGED << entry, requests, overlapped, superseded >>

Begin(t) ==
    /\ pc[t] = "idle"
    /\ \E o \in {"read", "update", "delete"} :
          /\ op' = [op EXCEPT ![t] = o]
          /\ Goto(t, IF o = "read" THEN "get" ELSE "find")
    /\ age' = [age EXCEPT ![t] = 0]
    /\ held' = [held EXCEPT ![t] = 0]
    /\ overlapped' = [overlapped EXCEPT ![t] = FALSE]
    /\ UNCHANGED << store, entry, superseded >>

-----------------------------------------------------------------------------
(* GET: PostQueryService.getPost                                           *)

\* Mutant: a hit gives the entry another TTL.
SlidingTtl == TTL

LeftAfterHit == cache.left

GetHit(t) ==
    /\ pc[t] = "get" /\ Cached
    /\ held' = [held EXCEPT ![t] = cache.version]
    /\ cache' = [version |-> cache.version, left |-> LeftAfterHit]
    /\ Goto(t, "answer")
    /\ UNCHANGED << store, overtaken, missed, op, age, overlapped, superseded >>

GetMiss(t) ==
    /\ pc[t] = "get" /\ ~Cached
    /\ Goto(t, "load")
    /\ UNCHANGED << store, entry, op, held, age, overlapped, superseded >>

Load(t) ==
    /\ pc[t] = "load" /\ exists
    /\ held' = [held EXCEPT ![t] = current]
    /\ Goto(t, "fill")
    /\ UNCHANGED << store, entry, op, age, overlapped, superseded >>

Duration == TTL

Set(t) ==
    /\ cache' = [version |-> held[t], left |-> Duration]
    /\ overtaken' = overlapped[t] /\ missed' = FALSE

Fill(t) ==
    /\ pc[t] = "fill"
    /\ Set(t)
    /\ Goto(t, "answer")
    /\ UNCHANGED << store, op, held, age, overlapped, superseded >>

Answer(t) ==
    /\ pc[t] = "answer"
    /\ Goto(t, "idle")
    /\ UNCHANGED << store, entry, op, held, age, overlapped, superseded >>

-----------------------------------------------------------------------------
(* PUT and DELETE: one transaction of PostService, then evict              *)

\* findPostById and validateAuthor
Find(t) ==
    /\ pc[t] = "find" /\ exists
    /\ Goto(t, "commit")
    /\ UNCHANGED << store, entry, op, held, age, overlapped, superseded >>

\* Mutant: the controller does not evict after a delete.
EvictAfterUpdate(t) == IF op[t] = "update" THEN "evict" ELSE "idle"

AfterCommit(t) == "evict"

\* Everything that began before the commit and has not ended overlaps it.
Overtake(t) ==
    overlapped' = [s \in Request |->
                      overlapped[s] \/ (pc[s] # "idle" /\ s # t)]

CommitUpdate(t) ==
    /\ pc[t] = "commit" /\ op[t] = "update" /\ exists
    /\ current < MaxVersions /\ current' = current + 1
    /\ Overtake(t)
    /\ Goto(t, AfterCommit(t))
    /\ UNCHANGED << exists, entry, op, held, age, superseded >>

\* The request had the title and content of the row: nothing to write.
CommitNothing(t) ==
    /\ pc[t] = "commit" /\ op[t] = "update"
    /\ Goto(t, AfterCommit(t))
    /\ UNCHANGED << store, entry, op, held, age, overlapped, superseded >>

CommitDelete(t) ==
    /\ pc[t] = "commit" /\ op[t] = "delete" /\ exists
    /\ exists' = FALSE
    /\ Overtake(t)
    /\ Goto(t, AfterCommit(t))
    /\ UNCHANGED << current, entry, op, held, age, superseded >>

Evict(t) ==
    /\ pc[t] = "evict"
    /\ cache' = NoEntry
    /\ overtaken' = FALSE /\ missed' = FALSE
    /\ Goto(t, "idle")
    /\ UNCHANGED << store, op, held, age, overlapped, superseded >>

-----------------------------------------------------------------------------
(* What goes wrong                                                         *)

\* PostNotFoundException, ForbiddenPostAccessException, an update or delete
\* of a row that another request has deleted, an error of MySQL or of Redis:
\* the request ends, and a set that failed may have been done all the same.
Abort(t) ==
    /\ pc[t] \in {"get", "load", "fill", "find", "commit"}
    /\ \/ UNCHANGED entry
       \/ pc[t] = "fill" /\ Set(t)
    /\ Goto(t, "idle")
    /\ UNCHANGED << store, op, held, age, overlapped, superseded >>

\* Redis cannot be reached after the commit: the client gets an error for a
\* write that has been done, and the entry stays.
EvictFails(t) ==
    /\ pc[t] = "evict"
    /\ missed' = TRUE
    /\ UNCHANGED << cache, overtaken >>
    /\ Goto(t, "idle")
    /\ UNCHANGED << store, op, held, age, overlapped, superseded >>

\* The container is recreated (Rollout): every request in flight is gone.
AppStops ==
    /\ \E t \in Request : pc[t] # "idle"
    /\ missed' = (missed \/ \E t \in Request : pc[t] = "evict")
    /\ pc' = [t \in Request |-> "idle"]
    /\ UNCHANGED << store, cache, overtaken, op, held, age, overlapped,
                    superseded >>

\* External: Redis drops the entry when its time is over.
Expiring ==
    IF cache.left > 1 THEN [version |-> cache.version, left |-> cache.left - 1]
    ELSE NoEntry

Superseded(v) == v <= current /\ (v = current => ~exists)

Tick ==
    /\ \A t \in Request : pc[t] # "idle" => age[t] < MaxDelay
    /\ age' = [t \in Request |-> IF pc[t] # "idle" THEN age[t] + 1 ELSE age[t]]
    /\ cache' = Expiring
    /\ superseded' = [v \in Version |->
                        IF Superseded(v) /\ superseded[v] < Capped
                        THEN superseded[v] + 1 ELSE superseded[v]]
    /\ UNCHANGED << store, overtaken, missed, pc, op, held, overlapped >>

Serve(t) ==
    \/ GetHit(t) \/ GetMiss(t) \/ Load(t) \/ Fill(t) \/ Answer(t)
    \/ Find(t) \/ CommitUpdate(t) \/ CommitNothing(t) \/ CommitDelete(t)
    \/ Evict(t) \/ Abort(t) \/ EvictFails(t)

Next ==
    \/ Create
    \/ \E t \in Request : Begin(t) \/ Serve(t)
    \/ AppStops
    \/ Tick

Spec == Init /\ [][Next]_vars

-----------------------------------------------------------------------------
(* Properties.                                                             *)

Current(v) == exists /\ v = current

\* An entry differs from the row only while the writer that changed the row
\* has yet to evict, if a write overtook the read that filled it, or if the
\* evict was lost.  Commit before evict is what this rests on.
StaleIsExplained ==
    Cached /\ ~Current(cache.version) =>
        \/ \E t \in Request : pc[t] = "evict"
        \/ overtaken
        \/ missed

\* Whatever races and failures there are, a read answers with a version that
\* was the row's, or a post that was there, at most TTL + 2 * MaxDelay ago:
\* nothing but a fresh read of the row ever starts a TTL.
StalenessBounded ==
    \A t \in Request :
        pc[t] = "answer" => superseded[held[t]] < TTL + MaxDelay + age[t]
                            \/ superseded[held[t]] <= age[t]

\* The inductive invariant behind it: the version in the row is not
\* superseded, an entry has been superseded no longer than a request takes
\* plus the part of its TTL that is over, a read that is about to fill the
\* cache has loaded its version itself.
RowInv ==
    /\ exists => current > 0 /\ superseded[current] = 0
    /\ \A v \in Version : v > current => superseded[v] = 0

EntryInv == Cached => superseded[cache.version] + cache.left <= TTL + MaxDelay

ReadInv ==
    \A t \in Request :
        /\ pc[t] \in {"fill", "answer"} => held[t] \in Version
        /\ pc[t] = "fill" => superseded[held[t]] <= age[t]

\* The invariant behind StaleIsExplained: what a read that no write has
\* overtaken is about to put into the cache is the row.
FillInv ==
    \A t \in Request : pc[t] = "fill" /\ ~overlapped[t] => Current(held[t])

IInv ==
    /\ TypeOK /\ RowInv
    /\ EntryInv /\ ReadInv /\ StalenessBounded
    /\ FillInv /\ StaleIsExplained
=============================================================================
