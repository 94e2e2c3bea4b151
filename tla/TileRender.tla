------------------------------ MODULE TileRender ------------------------------
(***************************************************************************)
(* CpuRenderer::render run by several callers that share one CpuTileCache  *)
(* and one RenderPublicationGate.  A call divides its region into tiles,   *)
(* starts worker threads that claim tiles from an atomic counter, joins    *)
(* them, admits the tiles of a complete image to the least-recently-used   *)
(* cache, and returns the image; the caller offers it to the gate.         *)
(*                                                                         *)
(* An identity is what RenderIdentity tells apart; the pixels of a tile    *)
(* are a function of the graph and the tile alone.  The mutexes of cache   *)
(* and gate make each of their operations one step.                        *)
(*                                                                         *)
(* A definition named Operator_Defect is a faulty variant of Operator.     *)
(***************************************************************************)
EXTENDS Integers, Sequences, FiniteSets, SequencesExt

CONSTANTS
  Renders,      \* callers of render
  Workers,      \* worker threads of a call, at least one
  TileCount,    \* tiles of the region
  Graphs,       \* graph hashes; source and masks vary like them
  Generations,  \* request sequence numbers; a caller may repeat one
  Bytes,        \* Bytes[t]: what a cached tile t is accounted for
  Capacity,     \* byte budget of the cache
  MaxCalls      \* bound on the calls made

ASSUME RenderAssumption ==
  /\ Workers # {} /\ IsFiniteSet(Workers)
  /\ TileCount \in Nat \ {0}
  /\ Capacity \in Nat \ {0}
  /\ Bytes \in [1..TileCount -> Nat \ {0}]
  /\ MaxCalls \in Nat

VARIABLES
  phase,      \* phase[r]: "idle", "running", "storing" or "done"
  call,       \* call[r]: the shared state of r's call
  worker,     \* worker[r][w]: what a thread of r is doing
  recency,    \* cache entries, the most recently used first
  resident,   \* bytes the cache accounts for
  expected,   \* identity the gate expects
  published,  \* the result the gate holds, if any
  calls,      \* calls made so far
  outcome,    \* outcome[r]: how r's last call ended
  finished    \* identities some call made a whole image of

cache == <<recency, resident>>
gate == <<expected, published>>
vars == <<phase, call, worker, cache, gate, calls, outcome, finished>>

Tiles == 1..TileCount
Identities == [graph : Graphs, generation : Generations]

\* render_tile_samples
Content(id, t) == <<id.graph, t>>
Blank == <<>>

\* Variant: the graph is left out of the key.
Key_NoGraph(id, t) == <<id.generation, t>>

\* make_cache_key
Key(id, t) == <<id.graph, id.generation, t>>

NewCall(id) ==
  [identity  |-> id,
   next      |-> 1,
   output    |-> [t \in Tiles |-> Blank],
   failure   |-> "none",
   unstarted |-> FALSE,
   cancelled |-> FALSE,
   hits      |-> 0,
   misses    |-> 0,
   rendered  |-> 0,
   stored    |-> 0]

Exited == [at |-> "exited", tile |-> 0]
Looping == [at |-> "loop", tile |-> 0]

Init ==
  /\ phase = [r \in Renders |-> "idle"]
  /\ \E id \in Identities :
       call = [r \in Renders |-> NewCall(id)] /\ expected = id
  /\ worker = [r \in Renders |-> [w \in Workers |-> Exited]]
  /\ recency = <<>>
  /\ resident = 0
  /\ published = {}
  /\ calls = 0
  /\ outcome = [r \in Renders |-> "none"]
  /\ finished = {}

(***************************************************************************)
(* CpuTileCache                                                            *)
(***************************************************************************)
Cached(k) == {i \in DOMAIN recency : recency[i].key = k}
Touched(i) == <<recency[i]>> \o RemoveAt(recency, i)

\* BytesHeld(entries)[n]: what the first n of the entries are accounted for.
BytesHeld(entries) ==
  LET held[n \in 0..Len(entries)] == IF n = 0 THEN 0 ELSE held[n - 1] + entries[n].bytes
  IN  held

\* Bytes of the n least recently used entries.
OldestBytes(n) == BytesHeld(recency)[Len(recency)] - BytesHeld(recency)[Len(recency) - n]

\* How many of them are evicted to make room for b bytes.
Victims(b) ==
  CHOOSE n \in 0..Len(recency) :
    /\ b <= Capacity - (resident - OldestBytes(n))
    /\ \A m \in 0..(n - 1) : b > Capacity - (resident - OldestBytes(m))

\* Variant: a known key is inserted once more.
StoreTile_Twice(id, t, samples) ==
  /\ Bytes[t] <= Capacity
  /\ LET n == Victims(Bytes[t]) IN
       /\ recency' = <<[key |-> Key(id, t), samples |-> samples, bytes |-> Bytes[t]]>>
                       \o SubSeq(recency, 1, Len(recency) - n)
       /\ resident' = resident - OldestBytes(n) + Bytes[t]

\* Impl::store: an entry above the budget is not admitted, a known key is only
\* touched, and the oldest entries make room for a new one.
StoreTile(id, t, samples) ==
  \/ Bytes[t] > Capacity /\ UNCHANGED cache
  \/ /\ Bytes[t] <= Capacity
     /\ \E i \in Cached(Key(id, t)) : recency' = Touched(i)
     /\ UNCHANGED resident
  \/ /\ Bytes[t] <= Capacity /\ Cached(Key(id, t)) = {}
     /\ LET n == Victims(Bytes[t]) IN
          /\ recency' = <<[key |-> Key(id, t), samples |-> samples, bytes |-> Bytes[t]]>>
                          \o SubSeq(recency, 1, Len(recency) - n)
          /\ resident' = resident - OldestBytes(n) + Bytes[t]

ClearCache ==
  /\ recency # <<>>
  /\ recency' = <<>>
  /\ resident' = 0
  /\ UNCHANGED <<phase, call, worker, gate, calls, outcome, finished>>

(***************************************************************************)
(* A call: its threads                                                     *)
(***************************************************************************)

\* The request was valid and not yet cancelled, else render returns before it
\* changes anything.  A thread that cannot be started ends the starting: the
\* call fails when the threads already running have been joined.
Start(r, id) ==
  /\ phase[r] = "idle"
  /\ calls < MaxCalls
  /\ calls' = calls + 1
  /\ phase' = [phase EXCEPT ![r] = "running"]
  /\ outcome' = [outcome EXCEPT ![r] = "none"]
  /\ \E started \in SUBSET Workers :
       /\ worker' = [worker EXCEPT ![r] = [w \in Workers |-> IF w \in started THEN Looping
                                                             ELSE Exited]]
       /\ call' = [call EXCEPT ![r] = [NewCall(id) EXCEPT !.unstarted = started # Workers]]
  /\ UNCHANGED <<cache, gate, finished>>

Cancel(r) ==
  /\ phase[r] = "running"
  /\ ~call[r].cancelled
  /\ call' = [call EXCEPT ![r].cancelled = TRUE]
  /\ UNCHANGED <<phase, worker, cache, gate, calls, outcome, finished>>

Stopping(r) == call[r].failure # "none" \/ call[r].cancelled

\* next_tile.fetch_add; the counter is not followed past the last tile.
Claim(r, w) ==
  /\ worker[r][w].at = "loop"
  /\ ~Stopping(r)
  /\ call[r].next <= TileCount
  /\ worker' = [worker EXCEPT ![r][w] = [at |-> "holding", tile |-> call[r].next]]
  /\ call' = [call EXCEPT ![r].next = @ + 1]
  /\ UNCHANGED <<phase, cache, gate, calls, outcome, finished>>

Exit(r, w) ==
  /\ worker[r][w].at = "loop"
  /\ Stopping(r) \/ call[r].next > TileCount
  /\ worker' = [worker EXCEPT ![r][w] = Exited]
  /\ UNCHANGED <<phase, call, cache, gate, calls, outcome, finished>>

\* A hit is copied to the output.  When the copy out of the cache cannot be
\* allocated the entry is touched all the same and the tile rendered.
Lookup(r, w) ==
  LET t    == worker[r][w].tile
      hits == Cached(Key(call[r].identity, t))
  IN
    /\ worker[r][w].at = "holding"
    /\ \/ \E i \in hits :
            /\ recency' = Touched(i)
            /\ \/ /\ call' = [call EXCEPT ![r].output[t] = recency[i].samples,
                                          ![r].hits = @ + 1]
                  /\ worker' = [worker EXCEPT ![r][w] = Looping]
               \/ /\ call' = [call EXCEPT ![r].misses = @ + 1]
                  /\ worker' = [worker EXCEPT ![r][w].at = "missed"]
       \/ /\ hits = {}
          /\ call' = [call EXCEPT ![r].misses = @ + 1]
          /\ worker' = [worker EXCEPT ![r][w].at = "missed"]
          /\ UNCHANGED recency
    /\ UNCHANGED <<phase, resident, gate, calls, outcome, finished>>

\* render_tile_samples and copy_tile_to_output.
Produce(r, w) ==
  LET t == worker[r][w].tile IN
    /\ worker[r][w].at = "missed"
    /\ call' = [call EXCEPT ![r].output[t] = Content(call[r].identity, t), ![r].rendered = @ + 1]
    /\ worker' = [worker EXCEPT ![r][w] = Looping]
    /\ UNCHANGED <<phase, cache, gate, calls, outcome, finished>>

\* Variant: a thread tries a failed tile again.
Fail_Retries(r, w) ==
  /\ worker[r][w].at = "missed"
  /\ worker' = [worker EXCEPT ![r][w].at = "holding"]
  /\ call' = [call EXCEPT ![r].misses = 0]
  /\ UNCHANGED <<phase, cache, gate, calls, outcome, finished>>

\* An exception ends the thread; the first one is kept for the caller.  A node
\* that sees the cancellation throws RENDER_CANCELLED.
Fail(r, w) ==
  /\ worker[r][w].at \in {"holding", "missed"}
  /\ \E e \in {"failed"} \cup (IF call[r].cancelled THEN {"cancelled"} ELSE {}) :
       call' = [call EXCEPT ![r].failure = IF @ = "none" THEN e ELSE @]
  /\ worker' = [worker EXCEPT ![r][w] = Exited]
  /\ UNCHANGED <<phase, cache, gate, calls, outcome, finished>>

Joined(r) == phase[r] = "running" /\ \A w \in Workers : worker[r][w].at = "exited"

\* How the joined call ends.
Verdict(r) ==
  IF call[r].unstarted THEN "failed"
  ELSE IF call[r].failure # "none" THEN call[r].failure
  ELSE IF call[r].cancelled THEN "cancelled"
  ELSE "ok"

\* Variant: cancellation is not looked at again after the join.
Join_MissesCancel(r) ==
  /\ Joined(r)
  /\ LET ok == ~call[r].unstarted /\ call[r].failure = "none" IN
       /\ outcome' = [outcome EXCEPT ![r] = IF ok THEN "ok" ELSE "failed"]
       /\ phase' = [phase EXCEPT ![r] = IF ok THEN "storing" ELSE "idle"]
       /\ finished' = IF ok /\ \A t \in Tiles : call[r].output[t] # Blank
                      THEN finished \cup {call[r].identity} ELSE finished
  /\ UNCHANGED <<call, worker, cache, gate, calls>>

\* Exceptions are rethrown, then a cancellation reported; only a whole image
\* reaches the cache.
Join(r) ==
  /\ Joined(r)
  /\ outcome' = [outcome EXCEPT ![r] = Verdict(r)]
  /\ phase' = [phase EXCEPT ![r] = IF Verdict(r) = "ok" THEN "storing" ELSE "idle"]
  /\ finished' = IF Verdict(r) = "ok" /\ \A t \in Tiles : call[r].output[t] # Blank
                 THEN finished \cup {call[r].identity} ELSE finished
  /\ UNCHANGED <<call, worker, cache, gate, calls>>

\* One tile is admitted, or its admission fails, which is ignored.
Admit(r) ==
  LET t == call[r].stored + 1 IN
    /\ phase[r] = "storing"
    /\ t \in Tiles
    /\ StoreTile(call[r].identity, t, call[r].output[t]) \/ UNCHANGED cache
    /\ call' = [call EXCEPT ![r].stored = t]
    /\ UNCHANGED <<phase, worker, gate, calls, outcome, finished>>

ReturnImage(r) ==
  /\ phase[r] = "storing"
  /\ call[r].stored = TileCount
  /\ phase' = [phase EXCEPT ![r] = "done"]
  /\ UNCHANGED <<call, worker, cache, gate, calls, outcome, finished>>

(***************************************************************************)
(* RenderPublicationGate                                                   *)
(***************************************************************************)

\* Variant: the published result stays.
Expect_KeepsResult(id) ==
  /\ id # expected
  /\ expected' = id
  /\ UNCHANGED <<phase, call, worker, cache, published, calls, outcome, finished>>

\* Whoever asks for renders announces the identity it wants next.
Expect(id) ==
  /\ expected' = id
  /\ published' = {}
  /\ UNCHANGED <<phase, call, worker, cache, calls, outcome, finished>>

\* try_publish
Offer(r) ==
  /\ phase[r] = "done"
  /\ published' = IF call[r].identity = expected
                  THEN {[identity |-> call[r].identity, image |-> call[r].output]}
                  ELSE published
  /\ phase' = [phase EXCEPT ![r] = "idle"]
  /\ UNCHANGED <<call, worker, cache, expected, calls, outcome, finished>>

WorkerStep(r, w) == Claim(r, w) \/ Exit(r, w) \/ Lookup(r, w) \/ Produce(r, w) \/ Fail(r, w)
CallerStep(r) == Join(r) \/ Admit(r) \/ ReturnImage(r)

Next ==
  \/ \E r \in Renders :
       \/ \E id \in Identities : Start(r, id)
       \/ \E w \in Workers : WorkerStep(r, w)
       \/ Cancel(r) \/ CallerStep(r) \/ Offer(r)
  \/ ClearCache
  \/ \E id \in Identities : Expect(id)

Spec == Init /\ [][Next]_vars

(***************************************************************************)
(* Properties                                                              *)
(***************************************************************************)

\* The byte count of the cache is that of its entries, which stay within the
\* budget and have distinct keys, whatever order concurrent calls store in.
CacheAccountsExactly ==
  /\ resident = OldestBytes(Len(recency))
  /\ resident <= Capacity
  /\ \A i, j \in DOMAIN recency : i # j => recency[i].key # recency[j].key

\* The cache holds only tiles of images that were completed: a call that was
\* cancelled or failed, in whatever thread and however late, leaves none.
OnlyFinishedTiles ==
  \A i \in DOMAIN recency : \E id \in finished, t \in Tiles :
    recency[i].key = Key(id, t) /\ recency[i].samples = Content(id, t)

\* A returned image is the one rendering without a cache would give: whole, and
\* with no tile of another graph, whoever filled the cache.
RenderIsPure ==
  \A r \in Renders : phase[r] = "done" =>
    call[r].output = [t \in Tiles |-> Content(call[r].identity, t)]

\* The gate never holds a result other than for the identity it expects now: a
\* slow render of an earlier request cannot overtake a newer one.
NeverStale ==
  \A p \in published :
    p.identity = expected /\ p.image = [t \in Tiles |-> Content(expected, t)]

\* How many of the threads of a call are at one of these places.
ThreadsAt(threads, places) == Cardinality({w \in Workers : threads[w].at \in places})

\* How far a call is from its end: what each thread may still do with its tile,
\* the tiles nobody claimed, and the tiles to be admitted.
Rank(r) ==
  LET threads == ThreadsAt(worker[r], {"loop", "missed", "holding"})
                   + ThreadsAt(worker[r], {"missed", "holding"})
                   + ThreadsAt(worker[r], {"holding"})
  IN  CASE phase[r] = "running" -> threads + 3 * (TileCount - call[r].next + 1) + TileCount + 2
        [] phase[r] = "storing" -> TileCount - call[r].stored + 1
        [] OTHER                -> 0

\* Each step of a call brings it closer to its end, also when threads fail, do
\* not start or are cancelled, and no step of another call takes it back.
StepsCount ==
  [][\A r \in Renders : phase[r] \in {"running", "storing"} =>
       \/ Rank(r)' \in 0..(Rank(r) - 1)
       \/ phase'[r] = phase[r] /\ worker'[r] = worker[r] /\ call'[r].stored = call[r].stored]_vars

\* Until then it or one of its threads has a step, whatever other calls do.
NeverStuck ==
  [](\A r \in Renders : phase[r] \in {"running", "storing"} =>
       \/ ENABLED CallerStep(r)
       \/ \E w \in Workers : ENABLED WorkerStep(r, w))

\* Every call returns when its threads are run.
EveryCallReturns == NeverStuck /\ StepsCount
=============================================================================
