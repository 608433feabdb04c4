------------------------------ MODULE CcrCache ------------------------------
(***************************************************************************)
(* AnalyticsCcrBackend (analytics/adapters/headroom/ccr_backend.py) in     *)
(* every proxy process, over the /headroom/ccr API of one analytics        *)
(* backend: a cache of compressed content that writes and reads through.   *)
(* Threads of a process share its cache; a lock guards each access to it,  *)
(* and none is held during an HTTP call.  The library's CompressionStore   *)
(* calls the backend: it stores an entry with set, and retrieves one with  *)
(* get followed by set of the entry with one more retrieval counted.       *)
(***************************************************************************)
EXTENDS Naturals, Sequences, FiniteSets

CONSTANTS
  Processes, Threads,
  Home,        \* thread -> its process
  Hashes,      \* CCR hashes
  Bodies,      \* what an entry says: original and compressed content, ...
  ContentOf,   \* body -> its original content
  MaxLocal,    \* HEADROOM_CCR_LOCAL_CACHE_ENTRIES
  Ttl,         \* the store's default_ttl
  MaxTime,     \* bound on the clock
  MaxCalls,    \* bound on calls, foreign retrievals and restarts
  None         \* no entry, no hash

\* A CompressionEntry, its hash apart: created_at, retrieval_count.
Entry == [body : Bodies, born : Nat, count : Nat]

\* What the backend keeps of one (compression_chunks).
Row == [body : Bodies, born : Nat]

ASSUME CcrAssumption ==
  /\ Home \in [Threads -> Processes]
  /\ IsFiniteSet(Hashes) /\ IsFiniteSet(Threads)
  /\ MaxLocal \in Nat \ {0}
  /\ Ttl \in Nat /\ MaxTime \in Nat /\ MaxCalls \in Nat
  /\ None \notin Hashes /\ None \notin Entry

VARIABLES
  now,       \* the clock
  rows,      \* hash -> the backend's chunk rows, oldest first
  hits,      \* hash -> the backend's successful retrieval events
  caches,    \* process -> hash -> self._entries
  pc,        \* thread -> where its call stands
  key,       \* thread -> the hash its call is about
  entry,     \* thread -> the entry it has fetched, holds or sets
  todo,      \* thread -> requests its set has still to send
  late,      \* PUTs their sender has given up, which may still arrive
  lateHits,  \* hash -> retrieval posts likewise
  touched,   \* hash -> retrievals made, through any API
  missed,    \* threads that made a retrieval and did not report it
  calls      \* calls, foreign retrievals and restarts so far

threadVars == <<pc, key, entry, todo>>
serverVars == <<rows, hits, late, lateHits>>
vars == <<now, serverVars, caches, threadVars, touched, missed, calls>>

Cached(cache) == {h \in Hashes : cache[h] # None}

TypeOK ==
  /\ now \in 0..MaxTime
  /\ rows \in [Hashes -> Seq(Row)]
  /\ hits \in [Hashes -> Nat] /\ lateHits \in [Hashes -> Nat]
  /\ caches \in [Processes -> [Hashes -> Entry \cup {None}]]
  /\ \A p \in Processes : Cardinality(Cached(caches[p])) <= MaxLocal
  /\ pc \in [Threads -> {"idle", "fetching", "fetched", "holding", "sending"}]
  /\ key \in [Threads -> Hashes \cup {None}]
  /\ entry \in [Threads -> Entry \cup {None}]
  /\ todo \in [Threads -> SUBSET {"put", "post"}]
  /\ late \subseteq [hash : Hashes, row : Row]
  /\ touched \in [Hashes -> Nat]
  /\ missed \subseteq Threads
  /\ calls \in 0..MaxCalls

Init ==
  /\ now = 0
  /\ rows = [h \in Hashes |-> <<>>]
  /\ hits = [h \in Hashes |-> 0] /\ lateHits = [h \in Hashes |-> 0]
  /\ caches = [p \in Processes |-> [h \in Hashes |-> None]]
  /\ pc = [t \in Threads |-> "idle"]
  /\ key = [t \in Threads |-> None]
  /\ entry = [t \in Threads |-> None]
  /\ todo = [t \in Threads |-> {}]
  /\ late = {}
  /\ touched = [h \in Hashes |-> 0]
  /\ missed = {}
  /\ calls = 0

Call == calls < MaxCalls /\ calls' = calls + 1

\* is_expired, of an entry or a row.
Expired(e) == now > e.born + Ttl

Local(t) == caches[Home[t]]

\* What get returns without asking the backend.
Usable(e) == e # None /\ ~Expired(e)

-----------------------------------------------------------------------------
(* The analytics backend *)

\* The event key is the hash and the original content: a second PUT of them is
\* a duplicate, whatever else it says.
StoreRow(h, row) ==
  rows' = IF \E i \in 1..Len(rows[h]) :
               ContentOf[rows[h][i].body] = ContentOf[row.body]
          THEN rows
          ELSE [rows EXCEPT ![h] = Append(@, row)]

\* retrieve_ccr_entry: the row stored last, with the retrievals counted.
Newest(h) == rows[h][Len(rows[h])]
StoredEntry(h) ==
  [body |-> Newest(h).body, born |-> Newest(h).born, count |-> hits[h]]

\* GET /chunks/{hash} and the MCP tool: a retrieval by somebody else.
ChunkRetrieved(h) ==
  /\ rows[h] # <<>>
  /\ Call
  /\ hits' = [hits EXCEPT ![h] = @ + 1]
  /\ touched' = [touched EXCEPT ![h] = @ + 1]
  /\ UNCHANGED <<now, rows, late, lateHits, caches, threadVars, missed>>

LatePutArrives(m) ==
  /\ m \in late
  /\ late' = late \ {m}
  /\ StoreRow(m.hash, m.row)
  /\ UNCHANGED <<now, hits, lateHits, caches, threadVars, touched, missed, calls>>

LatePostArrives(h) ==
  /\ lateHits[h] > 0
  /\ lateHits' = [lateHits EXCEPT ![h] = @ - 1]
  /\ hits' = [hits EXCEPT ![h] = @ + 1]
  /\ UNCHANGED <<now, rows, late, caches, threadVars, touched, missed, calls>>

-----------------------------------------------------------------------------
(* set *)

\* Mutant of Remember: the cache grows without bound.
RememberAll(p, h, e) == caches' = [caches EXCEPT ![p][h] = e]

\* _remember: over the limit another entry goes (the oldest in the dict; no
\* property depends on which).
Remember(p, h, e) ==
  IF Cardinality(Cached(caches[p]) \cup {h}) <= MaxLocal
  THEN caches' = [caches EXCEPT ![p][h] = e]
  ELSE \E victim \in Cached(caches[p]) \ {h} :
         caches' = [caches EXCEPT ![p][h] = e, ![p][victim] = None]

\* Mutant of ContentChanged: only a missing entry is written through.
ContentMissing(previous, e) == previous = None

\* _content_changed: neither created_at nor retrieval_count is looked at.
ContentChanged(previous, e) == previous = None \/ previous.body # e.body

\* Mutant of Retrieved: the counts are compared with >= for >.
RetrievedOrNot(previous, e) == previous # None /\ e.count >= previous.count

Retrieved(previous, e) == previous # None /\ e.count > previous.count

Requests(previous, e) ==
  {r \in {"put", "post"} :
     \/ r = "put" /\ ContentChanged(previous, e)
     \/ r = "post" /\ Retrieved(previous, e)}

\* set up to its first request.
Set(t, h, e) ==
  /\ Remember(Home[t], h, e)
  /\ todo' = [todo EXCEPT ![t] = Requests(Local(t)[h], e)]
  /\ pc' = [pc EXCEPT ![t] = "sending"]
  /\ key' = [key EXCEPT ![t] = h]
  /\ entry' = [entry EXCEPT ![t] = e]
  /\ UNCHANGED <<now, serverVars>>

\* CompressionStore stores a new entry.
Store(t, h, b) ==
  /\ pc[t] = "idle"
  /\ Call
  /\ Set(t, h, [body |-> b, born |-> now, count |-> 0])
  /\ UNCHANGED <<touched, missed>>

\* CompressionStore has retrieved the entry that t holds.
Retrieve(t) ==
  /\ pc[t] = "holding"
  /\ Set(t, key[t], [entry[t] EXCEPT !.count = @ + 1])
  /\ touched' = [touched EXCEPT ![key[t]] = @ + 1]
  /\ missed' = IF "post" \in todo'[t] THEN missed ELSE missed \cup {t}
  /\ UNCHANGED calls

\* _put_entry: a failure is logged and otherwise ignored.  Answered or not, the
\* request may be lost, or committed after a while.
PutEntry(t, inTime) ==
  /\ pc[t] = "sending" /\ "put" \in todo[t]
  /\ todo' = [todo EXCEPT ![t] = @ \ {"put"}]
  /\ LET row == [body |-> entry[t].body, born |-> entry[t].born]
     IN  IF inTime
         THEN StoreRow(key[t], row) /\ UNCHANGED late
         ELSE /\ late' = late \cup {[hash |-> key[t], row |-> row]}
              /\ UNCHANGED rows
  /\ UNCHANGED <<now, hits, lateHits, caches, pc, key, entry, touched, missed, calls>>

\* _post_retrieval
PostRetrieval(t, inTime) ==
  /\ pc[t] = "sending" /\ todo[t] = {"post"}
  /\ todo' = [todo EXCEPT ![t] = {}]
  /\ IF inTime
     THEN hits' = [hits EXCEPT ![key[t]] = @ + 1] /\ UNCHANGED lateHits
     ELSE lateHits' = [lateHits EXCEPT ![key[t]] = @ + 1] /\ UNCHANGED hits
  /\ UNCHANGED <<now, rows, late, caches, pc, key, entry, touched, missed, calls>>

\* The call is over; what it was about is forgotten.
Return(t) ==
  /\ pc' = [pc EXCEPT ![t] = "idle"]
  /\ key' = [key EXCEPT ![t] = None]
  /\ entry' = [entry EXCEPT ![t] = None]
  /\ UNCHANGED <<now, serverVars, todo, touched, missed, calls>>

SetReturns(t) ==
  /\ pc[t] = "sending" /\ todo[t] = {}
  /\ Return(t)
  /\ UNCHANGED caches

-----------------------------------------------------------------------------
(* get, exists *)

\* An unexpired local entry is returned.
GetLocal(t, h) ==
  /\ pc[t] = "idle"
  /\ Call
  /\ Usable(Local(t)[h])
  /\ pc' = [pc EXCEPT ![t] = "holding"]
  /\ key' = [key EXCEPT ![t] = h]
  /\ entry' = [entry EXCEPT ![t] = Local(t)[h]]
  /\ UNCHANGED <<now, serverVars, caches, todo, touched, missed>>

\* An expired one is dropped, and the backend asked.
GetMisses(t, h) ==
  /\ pc[t] = "idle"
  /\ Call
  /\ ~Usable(Local(t)[h])
  /\ caches' = [caches EXCEPT ![Home[t]][h] = None]
  /\ pc' = [pc EXCEPT ![t] = "fetching"]
  /\ key' = [key EXCEPT ![t] = h]
  /\ UNCHANGED <<now, serverVars, entry, todo, touched, missed>>

\* The backend reads the entry for its answer.
Fetch(t) ==
  /\ pc[t] = "fetching"
  /\ rows[key[t]] # <<>>
  /\ pc' = [pc EXCEPT ![t] = "fetched"]
  /\ entry' = [entry EXCEPT ![t] = StoredEntry(key[t])]
  /\ UNCHANGED <<now, serverVars, caches, key, todo, touched, missed, calls>>

\* Mutant of Fill: the answer is not remembered.
FillNothing(t) ==
  /\ pc[t] = "fetched" /\ ~Expired(entry[t])
  /\ pc' = [pc EXCEPT ![t] = "holding"]
  /\ UNCHANGED <<now, serverVars, caches, key, entry, todo, touched, missed, calls>>

\* The answer is remembered over whatever has been stored meanwhile.
Fill(t) ==
  /\ pc[t] = "fetched" /\ ~Expired(entry[t])
  /\ Remember(Home[t], key[t], entry[t])
  /\ pc' = [pc EXCEPT ![t] = "holding"]
  /\ UNCHANGED <<now, serverVars, key, entry, todo, touched, missed, calls>>

\* Not found, a failing request, or an expired entry: get returns None.
GetFails(t) ==
  /\ \/ pc[t] = "fetching"
     \/ pc[t] = "fetched" /\ Expired(entry[t])
  /\ Return(t)
  /\ UNCHANGED caches

\* The entry is only looked at (exists).
Drop(t) ==
  /\ pc[t] = "holding"
  /\ Return(t)
  /\ UNCHANGED caches

-----------------------------------------------------------------------------
\* delete, clear: of the local entries only.
Delete(t, hs) ==
  /\ pc[t] = "idle"
  /\ Call
  /\ caches' = [caches EXCEPT ![Home[t]] =
       [h \in Hashes |-> IF h \in hs THEN None ELSE @[h]]]
  /\ UNCHANGED <<now, serverVars, threadVars, touched, missed>>

\* The process ends, and another takes its place.
Restart(p) ==
  /\ Call
  /\ caches' = [caches EXCEPT ![p] = [h \in Hashes |-> None]]
  /\ pc' = [t \in Threads |-> IF Home[t] = p THEN "idle" ELSE pc[t]]
  /\ key' = [t \in Threads |-> IF Home[t] = p THEN None ELSE key[t]]
  /\ entry' = [t \in Threads |-> IF Home[t] = p THEN None ELSE entry[t]]
  /\ todo' = [t \in Threads |-> IF Home[t] = p THEN {} ELSE todo[t]]
  /\ UNCHANGED <<now, serverVars, touched, missed>>

Tick ==
  /\ now < MaxTime
  /\ now' = now + 1
  /\ UNCHANGED <<serverVars, caches, threadVars, touched, missed, calls>>

Next ==
  \/ Tick
  \/ \E p \in Processes : Restart(p)
  \/ \E m \in late : LatePutArrives(m)
  \/ \E h \in Hashes : LatePostArrives(h) \/ ChunkRetrieved(h)
  \/ \E t \in Threads :
       \/ \E h \in Hashes : \/ \E b \in Bodies : Store(t, h, b)
                            \/ GetLocal(t, h) \/ GetMisses(t, h)
                            \/ Delete(t, {h})
       \/ Delete(t, Hashes)
       \/ \E inTime \in BOOLEAN : PutEntry(t, inTime) \/ PostRetrieval(t, inTime)
       \/ Retrieve(t) \/ SetReturns(t) \/ Fetch(t) \/ Fill(t)
       \/ GetFails(t) \/ Drop(t)

Spec == Init /\ [][Next]_vars

-----------------------------------------------------------------------------
(* Properties *)

\* The backend has the hash with this content, or may still get it.
Written(h, content) ==
  \/ \E i \in 1..Len(rows[h]) : ContentOf[rows[h][i].body] = content
  \/ \E m \in late : m.hash = h /\ ContentOf[m.row.body] = content
  \/ \E t \in Threads :
       key[t] = h /\ "put" \in todo[t] /\ ContentOf[entry[t].body] = content

\* No content lives in a cache alone: whatever a process can answer from its
\* cache the backend has, unless the PUT is still to come or was lost, although
\* set writes only what differs from the entry it replaces and entries are
\* evicted, deleted, fetched and set again by several threads.
NothingOnlyLocal ==
  \A p \in Processes : \A h \in Cached(caches[p]) :
    Written(h, ContentOf[caches[p][h].body])

\* Threads that are about to report a retrieval of h.
Reporting(h) == {t \in Threads : key[t] = h /\ "post" \in todo[t]}

\* Retrievals are not invented: the backend's retrieval events, with the posts
\* still to come, and the counts in the caches stay within the retrievals made,
\* though a count comes from the backend, is incremented in a process, and is
\* compared with whatever entry another thread has put in its place.
RetrievalsAreReal ==
  \A h \in Hashes :
    /\ hits[h] + lateHits[h] + Cardinality(Reporting(h)) <= touched[h]
    /\ \A p \in Processes : h \in Cached(caches[p]) => caches[p][h].count <= touched[h]

\* Nor are they overlooked where threads do not share a process: each of them
\* is found to be one retrieval more than the cached entry counts, evictions,
\* expiries, stores by other processes and restarts notwithstanding.
LoneRetrievalsAreReported ==
  \A t \in missed : \E u \in Threads \ {t} : Home[u] = Home[t]

\* scripts/e2e_headroom_ccr_smoke.py:67, "stored CCR entry was not retrievable
\* from fresh backend": an unexpired entry of a process, none of whose PUTs is
\* under way or lost, would be found unexpired by a process with an empty cache.
StoredIsRetrievable ==
  \A p \in Processes : \A h \in Cached(caches[p]) :
    \/ Expired(caches[p][h])
    \/ \E m \in late : m.hash = h
    \/ \E t \in Threads : key[t] = h /\ "put" \in todo[t]
    \/ rows[h] # <<>> /\ ~Expired(Newest(h))
=============================================================================
