-------------------------- MODULE InferenceBackend --------------------------
(***************************************************************************)
(* backend/app: the request threads of ThreadingHTTPServer (server.py),    *)
(* the InferenceStore they share (store.py), and the stamp that            *)
(* InferenceResult.from_payload() puts on a result (models.py).            *)
(*                                                                         *)
(* A request takes one or two steps.  POST stamps received_at while it     *)
(* validates, and takes the store's lock after that; the status takes a    *)
(* snapshot of the store under the lock, and reads the clock after that.   *)
(* recent() works on its snapshot alone, so it is one step.  An answer is   *)
(* sent together with the last step of its request.  Requests that touch   *)
(* neither store nor clock (OPTIONS, /health, unknown paths) are left out. *)
(*                                                                         *)
(* Time is a count of ticks; several events may fall into one.  The clock  *)
(* does not jump back.                                                     *)
(***************************************************************************)
EXTENDS LocationStatus, SequencesExt

CONSTANTS
    Threads,      \* request threads at work at one time
    Payloads,     \* [node_id, location_id, people_count]
    Locations,    \* the locations of payloads and queries
    Capacity,     \* Capacity[l]: capacity of a configured location
    StatusQueries,  \* [location, window]
    RecentQueries,  \* [location, node, limit]
    AnyValue,     \* a filter that is not given
    NoResult,     \* None
    MaxResults,   \* max_results of the store
    MaxClock,     \* bound: ticks in one run
    MaxPosts      \* bound: results received in one run

ASSUME BackendAssumption ==
    /\ MaxResults \in Nat \ {0}
    /\ MaxClock \in Nat
    /\ MaxPosts \in Nat
    /\ StatusQueries \subseteq [location : Locations, window : Int]
    /\ \A q \in RecentQueries : q.limit \in Int
    /\ Payloads \subseteq [node_id : STRING, location_id : Locations, people_count : Int]
    /\ DOMAIN Capacity \subseteq Locations
    /\ \A l \in DOMAIN Capacity : Capacity[l] \in Nat \ {0}

VARIABLES
    clock,      \* datetime.now(timezone.utc)
    results,    \* InferenceStore._results
    request,    \* request[t]: the request of t between two steps, or Idle
    answer,     \* the answer sent in the last step, or Idle
    posts,      \* number of results received
    added,      \* history: every result ever added
    told        \* history: told[l]: the newest result a status of l was computed from

vars == <<clock, results, request, answer, posts, added, told>>

Idle == [op |-> "none"]

\* number (which one it is) and after (the results added before its request) are
\* history; the rest is the dataclass.
Result == [node_id : {p.node_id : p \in Payloads}, location_id : Locations,
           people_count : Nat, received_at : 0..MaxClock,
           number : 1..MaxPosts, after : 0..MaxPosts]

Clamp(x, low, high) == IF x < low THEN low ELSE IF x > high THEN high ELSE x

Init ==
    /\ clock = 0
    /\ results = <<>>
    /\ request = [t \in Threads |-> Idle]
    /\ answer = Idle
    /\ posts = 0
    /\ added = <<>>
    /\ told = [l \in Locations |-> NoResult]

Tick ==
    /\ clock < MaxClock
    /\ clock' = clock + 1
    /\ answer' = Idle
    /\ UNCHANGED <<results, request, posts, added, told>>

-----------------------------------------------------------------------------
(* POST /api/inference-results *)

ValidPayload(p) == p.people_count >= 0

\* from_payload(): validation and the stamp.
ReceiveResult(t, p) ==
    /\ request[t] = Idle
    /\ ValidPayload(p)
    /\ posts < MaxPosts
    /\ posts' = posts + 1
    /\ request' = [request EXCEPT ![t] =
           [op |-> "post",
            result |-> [node_id |-> p.node_id, location_id |-> p.location_id,
                        people_count |-> p.people_count, received_at |-> clock,
                        number |-> posts + 1, after |-> Len(added)]]]
    /\ answer' = Idle
    /\ UNCHANGED <<clock, results, added, told>>

\* ValidationError: 400.
RejectPayload(t, p) ==
    /\ request[t] = Idle
    /\ ~ValidPayload(p)
    /\ answer' = [op |-> "rejected"]
    /\ UNCHANGED <<clock, results, request, posts, added, told>>

\* Variant of Appended: a store without maxlen.
AppendedForEver(s, r) == Append(s, r)

\* deque(maxlen=...).append(): the oldest element makes room.
Appended(s, r) ==
    IF Len(s) < MaxResults THEN Append(s, r) ELSE Append(Tail(s), r)

\* InferenceStore.add() and the answer 201.
AddResult(t) ==
    /\ request[t].op = "post"
    /\ results' = Appended(results, request[t].result)
    /\ added' = Append(added, request[t].result)
    /\ request' = [request EXCEPT ![t] = Idle]
    /\ answer' = [op |-> "created"]
    /\ UNCHANGED <<clock, posts, told>>

-----------------------------------------------------------------------------
(* GET /api/locations/{location_id}/status *)

\* InferenceStore.all().  known and told are what the run has seen so far.
ReadForStatus(t, query) ==
    /\ request[t] = Idle
    /\ request' = [request EXCEPT ![t] =
           [op |-> "status", location |-> query.location,
            window |-> Clamp(query.window, 1, 3600),
            results |-> results, known |-> Len(added), told |-> told[query.location]]]
    /\ answer' = Idle
    /\ UNCHANGED <<clock, results, posts, added, told>>

\* The location is looked up before the results are.
Configured(l) == l \in DOMAIN Capacity

HasData(q) == Candidates(q.results, q.location, clock - q.window) # {}

\* body is what is sent; the rest says what it was computed from.
StatusAnswer(q, body) ==
    [op |-> "status", location |-> q.location, window |-> q.window, now |-> clock,
     known |-> q.known, told |-> q.told, body |-> body]

AnswerWithoutData(t) ==
    LET q == request[t]
    IN  /\ q.op = "status"
        /\ ~Configured(q.location) \/ ~HasData(q)
        /\ answer' = StatusAnswer(q, [status |-> IF Configured(q.location)
                                                THEN "NO_DATA" ELSE "LOCATION_NOT_CONFIGURED"])
        /\ request' = [request EXCEPT ![t] = Idle]
        /\ UNCHANGED <<clock, results, posts, added, told>>

AnswerWithData(t) ==
    LET q == request[t]
        r == Latest(q.results, q.location, clock - q.window)
    IN  /\ q.op = "status"
        /\ Configured(q.location)
        /\ HasData(q)
        /\ \E score \in RoundedScores(r.people_count, Capacity[q.location]) :
               answer' = StatusAnswer(q, [status |-> "OK", result |-> r, score |-> score,
                                          level |-> Level(score)])
        /\ told' = [told EXCEPT ![q.location] =
               IF @ # NoResult /\ @.received_at >= r.received_at THEN @ ELSE r]
        /\ request' = [request EXCEPT ![t] = Idle]
        /\ UNCHANGED <<clock, results, posts, added>>

-----------------------------------------------------------------------------
(* GET /api/inference-results/recent *)

Matches(r, l, n) ==
    /\ l # AnyValue => r.location_id = l
    /\ n # AnyValue => r.node_id = n

Matching(s, l, n) == {i \in DOMAIN s : Matches(s[i], l, n)}

\* Variant of Rank: without reversed().
RankFromOldest(matching, i) == Cardinality({j \in matching : j <= i})

\* The place of the result at i when those at matching are gone through from the end.
Rank(matching, i) == Cardinality({j \in matching : j >= i})

\* InferenceStore.recent(): newest first, limit results at most.
Recent(s, l, n, limit) ==
    LET matching == Matching(s, l, n)
    IN  [k \in 1..Min({limit, Cardinality(matching)}) |->
            s[CHOOSE i \in matching : Rank(matching, i) = k]]

AnswerRecent(t, query) ==
    /\ request[t] = Idle
    /\ answer' = [op |-> "recent", location |-> query.location, node |-> query.node,
                  known |-> Len(added),
                  list |-> Recent(results, query.location, query.node,
                                  Clamp(query.limit, 1, 100))]
    /\ UNCHANGED <<clock, results, request, posts, added, told>>

-----------------------------------------------------------------------------
Post(t) == (\E p \in Payloads : ReceiveResult(t, p) \/ RejectPayload(t, p)) \/ AddResult(t)

Get(t) ==
    \/ \E query \in StatusQueries : ReadForStatus(t, query)
    \/ AnswerWithoutData(t)
    \/ AnswerWithData(t)
    \/ \E query \in RecentQueries : AnswerRecent(t, query)

Next == Tick \/ \E t \in Threads : Post(t) \/ Get(t)

Spec == Init /\ [][Next]_vars

-----------------------------------------------------------------------------
(* Properties *)

Request == {Idle}
    \cup [op : {"post"}, result : Result]
    \cup [op : {"status"}, location : Locations, window : 1..3600,
          results : Seq(Result), known : 0..MaxPosts, told : Result \cup {NoResult}]

\* Types; the store never holds more than max_results, its results are those added
\* last, and no result is added that was not received (store.py, InferenceStore).
TypeOK ==
    /\ clock \in 0..MaxClock
    /\ results \in Seq(Result)
    /\ Len(results) <= MaxResults
    /\ IsSuffix(results, added)
    /\ \A t \in Threads : request[t] \in Request
    /\ answer.op \in {"none", "created", "rejected", "status", "recent"}
    /\ posts \in 0..MaxPosts
    /\ added \in Seq(Result)
    /\ Len(added) <= posts
    /\ told \in [Locations -> Result \cup {NoResult}]

\* r was added, and is one of the last MaxResults of the first n results added.
HeldAmong(n, r) ==
    \E i \in DOMAIN added : added[i] = r /\ i <= n /\ i > n - MaxResults

\* A status says NO_DATA only if no result of the location is in the window, other
\* than those that were not acknowledged when the request read the store and those
\* that max_results later ones have evicted (server.py:116-121, scoring.py:30-49).
NoDataIsTrue ==
    answer.op = "status" /\ answer.body.status = "NO_DATA" =>
        \A i \in DOMAIN added :
            /\ added[i].location_id = answer.location
            /\ HeldAmong(answer.known, added[i])
            => added[i].received_at < answer.now - answer.window

\* Although results may be added in another order than they were received in, the
\* status of a location does not go back in time: a request that begins after
\* another was answered is answered with a result received at least as late, unless
\* that one was evicted or has left the window (scoring.py:30-37).
StatusMovesForward ==
    /\ answer.op = "status"
    /\ answer.told # NoResult
    /\ HeldAmong(answer.known, answer.told)
    => \/ answer.body.status = "OK" /\ answer.body.result.received_at >= answer.told.received_at
       \/ answer.body.status = "NO_DATA" /\ answer.told.received_at < answer.now - answer.window

\* If recent() lists y, then it lists, before y, every result in the store that its
\* filters let through and that was received after y was acknowledged
\* (store.py:26-45).
RecentListsLaterFirst ==
    answer.op = "recent" =>
        \A i \in DOMAIN added, k \in DOMAIN answer.list :
            /\ HeldAmong(answer.known, added[i])
            /\ Matches(added[i], answer.location, answer.node)
            /\ \E j \in 1..added[i].after : added[j] = answer.list[k]
            => \E m \in 1..(k - 1) : answer.list[m] = added[i]

\* The level is that of a ratio at most 0.05 percent points away from the ratio
\* of people to capacity (scoring.py:52-53, 67).
LevelNearRatio ==
    answer.op = "status" /\ answer.body.status = "OK" =>
        \E shift \in -1..1 :
            answer.body.level = DocumentedLevel(answer.body.result.people_count,
                                           Capacity[answer.location], shift)

\* docs/data-contract.md:74-81: the level is that of
\* min(people_count / capacity * 100, 100), below 35 LOW, below 70 MEDIUM.
LevelAsDocumented ==
    answer.op = "status" /\ answer.body.status = "OK" =>
        answer.body.level = DocumentedLevel(answer.body.result.people_count, Capacity[answer.location], 0)
=============================================================================
