--------------------------- MODULE CcrCacheProofs ---------------------------
(***************************************************************************)
(* Proofs about CcrCache, for any processes, threads, hashes, bodies and   *)
(* limits.                                                                 *)
(***************************************************************************)
EXTENDS CcrCache, FiniteSetTheorems, TLAPS

\* The thread's call has an entry in hand.
HasEntry(t) == pc[t] \in {"fetched", "holding", "sending"}

CallInv ==
  \A t \in Threads :
    /\ pc[t] # "sending" => todo[t] = {}
    /\ pc[t] # "idle" => key[t] \in Hashes
    /\ HasEntry(t) => entry[t] \in Entry

RowHas(h, content) ==
  \E i \in 1..Len(rows[h]) : ContentOf[rows[h][i].body] = content

LateHas(h, content) ==
  \E m \in late : m.hash = h /\ ContentOf[m.row.body] = content

Puts(t, h, content) ==
  key[t] = h /\ "put" \in todo[t] /\ ContentOf[entry[t].body] = content

\* Written, with the PUT under way in the process itself: what restarts with
\* the cache.
WrittenFrom(p, h, content) ==
  \/ RowHas(h, content)
  \/ LateHas(h, content)
  \/ \E t \in Threads : Home[t] = p /\ Puts(t, h, content)

WrittenInv ==
  /\ \A p \in Processes : \A h \in Cached(caches[p]) :
       WrittenFrom(p, h, ContentOf[caches[p][h].body])
  /\ \A t \in Threads : HasEntry(t) =>
       WrittenFrom(Home[t], key[t], ContentOf[entry[t].body])

CountInv ==
  /\ \A h \in Hashes :
       hits[h] + lateHits[h] + Cardinality(Reporting(h)) <= touched[h]
  /\ \A p \in Processes : \A h \in Cached(caches[p]) : caches[p][h].count <= touched[h]
  /\ \A t \in Threads : HasEntry(t) => entry[t].count <= touched[key[t]]

\* No other thread in its process.
Lone(t) == \A u \in Threads \ {t} : Home[u] # Home[t]

LoneInv ==
  \A t \in Threads : Lone(t) =>
    /\ t \notin missed
    /\ pc[t] = "holding" =>
         key[t] \in Cached(Local(t)) /\ Local(t)[key[t]].count = entry[t].count

IInv == TypeOK /\ CallInv /\ WrittenInv /\ CountInv /\ LoneInv

-----------------------------------------------------------------------------
(* The cache and the rows *)

\* _remember keeps the limit, and changes nothing but the entry and a victim.
LEMMA RememberEffect ==
  ASSUME TypeOK, NEW p \in Processes, NEW h \in Hashes, NEW e \in Entry,
         Remember(p, h, e)
  PROVE  /\ caches' \in [Processes -> [Hashes -> Entry \cup {None}]]
         /\ \A q \in Processes : Cardinality(Cached(caches'[q])) <= MaxLocal
         /\ \A q \in Processes \ {p} : caches'[q] = caches[q]
         /\ caches'[p][h] = e
         /\ \A g \in Hashes \ {h} : caches'[p][g] \in {caches[p][g], None}
<1> DEFINE old == Cached(caches[p])
           new == Cached(caches'[p])
<1>1. old \subseteq Hashes /\ IsFiniteSet(old) /\ e # None
  BY CcrAssumption, FS_Subset DEF Cached
<1>2. caches \in [Processes -> [Hashes -> Entry \cup {None}]] /\ caches[p] \in [Hashes -> Entry \cup {None}]
  BY DEF TypeOK
<1>3. Cardinality(old) \in Nat /\ Cardinality(old) <= MaxLocal /\ MaxLocal \in Nat
  BY <1>1, FS_CardinalityType, CcrAssumption DEF TypeOK
<1>4. /\ IsFiniteSet(old \cup {h})
      /\ Cardinality(old \cup {h}) \in Nat
      /\ Cardinality(old \cup {h}) <= Cardinality(old) + 1
  <2> HIDE DEF old
  <2>1. /\ IsFiniteSet(old \cup {h})
        /\ Cardinality(old \cup {h}) = IF h \in old THEN Cardinality(old) ELSE Cardinality(old) + 1
    BY <1>1, FS_AddElement
  <2> QED BY <1>3, <2>1
<1>5. CASE /\ Cardinality(old \cup {h}) <= MaxLocal
           /\ caches' = [caches EXCEPT ![p][h] = e]
  <2>1. caches'[p] = [caches[p] EXCEPT ![h] = e]
    BY <1>2, <1>5
  <2>2. new = old \cup {h}
    BY <2>1, <1>1, <1>2 DEF Cached
  <2>3. \A q \in Processes \ {p} : caches'[q] = caches[q]
    BY <1>2, <1>5
  <2>4. caches' \in [Processes -> [Hashes -> Entry \cup {None}]]
    BY <1>2, <1>5
  <2> QED BY <1>2, <1>5, <2>1, <2>2, <2>3, <2>4 DEF TypeOK
<1>6. ASSUME NEW victim \in old \ {h},
             caches' = [caches EXCEPT ![p][h] = e, ![p][victim] = None]
      PROVE  /\ caches' \in [Processes -> [Hashes -> Entry \cup {None}]]
             /\ \A q \in Processes : Cardinality(Cached(caches'[q])) <= MaxLocal
             /\ \A q \in Processes \ {p} : caches'[q] = caches[q]
             /\ caches'[p][h] = e
             /\ \A g \in Hashes \ {h} : caches'[p][g] \in {caches[p][g], None}
  <2>1. caches'[p] = [[caches[p] EXCEPT ![h] = e] EXCEPT ![victim] = None]
    BY <1>2, <1>6
  <2>2. victim \in Hashes /\ victim # h
    BY <1>1, <1>6
  <2>3. new = (old \cup {h}) \ {victim}
    BY <2>1, <2>2, <1>1, <1>2 DEF Cached
  <2>4. Cardinality(new) = Cardinality(old \cup {h}) - 1
    BY <2>3, <1>4, <1>6, FS_RemoveElement
  <2>5. Cardinality(new) <= MaxLocal
    BY <2>4, <1>3, <1>4
  <2>6. \A q \in Processes \ {p} : caches'[q] = caches[q]
    BY <1>2, <1>6
  <2>7. caches' \in [Processes -> [Hashes -> Entry \cup {None}]]
    BY <1>2, <1>6, <2>2
  <2>8. /\ caches'[p][h] = e
        /\ \A g \in Hashes \ {h} : caches'[p][g] \in {caches[p][g], None}
    BY <1>2, <2>1, <2>2
  <2> QED BY <2>5, <2>6, <2>7, <2>8 DEF TypeOK
<1> QED BY <1>5, <1>6 DEF Remember

\* A PUT that arrives leaves its content behind, and every row there was.
LEMMA StoreRowEffect ==
  ASSUME rows \in [Hashes -> Seq(Row)], NEW h \in Hashes, NEW row \in Row,
         StoreRow(h, row)
  PROVE  /\ rows' \in [Hashes -> Seq(Row)]
         /\ RowHas(h, ContentOf[row.body])'
         /\ \A g \in Hashes : \A content : RowHas(g, content) => RowHas(g, content)'
<1>1. CASE RowHas(h, ContentOf[row.body]) /\ rows' = rows
  BY <1>1 DEF RowHas
<1>2. CASE rows' = [rows EXCEPT ![h] = Append(@, row)]
  <2>1. rows[h] \in Seq(Row) /\ rows'[h] = Append(rows[h], row)
    BY <1>2
  <2>2. /\ Len(rows[h]) \in Nat
        /\ Len(rows'[h]) = Len(rows[h]) + 1
        /\ rows'[h][Len(rows[h]) + 1] = row
        /\ \A i \in 1..Len(rows[h]) : rows'[h][i] = rows[h][i]
        /\ rows'[h] \in Seq(Row)
    BY <2>1
  <2>3. Len(rows[h]) + 1 \in 1..Len(rows'[h]) /\ 1..Len(rows[h]) \subseteq 1..Len(rows'[h])
    BY <2>2
  <2>4. \A g \in Hashes \ {h} : rows'[g] = rows[g]
    BY <1>2
  <2>5. RowHas(h, ContentOf[row.body])'
    BY <2>2, <2>3 DEF RowHas
  <2>6. \A g \in Hashes : \A content : RowHas(g, content) => RowHas(g, content)'
    BY <2>2, <2>3, <2>4 DEF RowHas
  <2>7. rows' \in [Hashes -> Seq(Row)]
    BY <1>2, <2>2
  <2> QED BY <2>5, <2>6, <2>7
<1> QED BY <1>1, <1>2 DEF StoreRow, RowHas

LEMMA InitIInv == Init => IInv
<1> SUFFICES ASSUME Init PROVE IInv
  OBVIOUS
<1>0. Cardinality({}) = 0
  BY FS_EmptySet
<1>1. \A p \in Processes : Cached(caches[p]) = {}
  BY DEF Init, Cached
<1>2. \A h \in Hashes : Reporting(h) = {}
  BY DEF Init, Reporting
<1>3. TypeOK
  <2>1. rows \in [Hashes -> Seq(Row)]
    BY DEF Init
  <2>2. \A p \in Processes : Cardinality(Cached(caches[p])) <= MaxLocal
    BY <1>0, <1>1, CcrAssumption
  <2>3. now \in 0..MaxTime /\ calls \in 0..MaxCalls
    BY CcrAssumption DEF Init
  <2>4. caches \in [Processes -> [Hashes -> Entry \cup {None}]]
    BY DEF Init
  <2> QED BY <2>1, <2>2, <2>3, <2>4 DEF Init, TypeOK
<1>4. CallInv /\ WrittenInv /\ LoneInv
  BY <1>1, CcrAssumption DEF Init, CallInv, WrittenInv, LoneInv, HasEntry
<1>5. CountInv
  <2>1. \A h \in Hashes : hits[h] = 0 /\ lateHits[h] = 0 /\ touched[h] = 0
    BY DEF Init
  <2>2. \A h \in Hashes : Cardinality(Reporting(h)) = 0
    BY <1>0, <1>2
  <2>3. \A t \in Threads : ~HasEntry(t)
    BY DEF Init, HasEntry
  <2> QED BY <1>1, <2>1, <2>2, <2>3 DEF CountInv
<1> QED BY <1>3, <1>4, <1>5 DEF IInv

-----------------------------------------------------------------------------
(* Types, and where the calls stand *)

LEMMA StoredEntryType ==
  ASSUME TypeOK, NEW h \in Hashes, rows[h] # <<>>
  PROVE  StoredEntry(h) \in Entry /\ StoredEntry(h).count = hits[h]
         /\ RowHas(h, ContentOf[StoredEntry(h).body])
<1>1. rows[h] \in Seq(Row) /\ hits[h] \in Nat
  BY DEF TypeOK
<1>2. Len(rows[h]) \in 1..Len(rows[h])
  BY <1>1
<1>3. Newest(h) \in Row
  BY <1>1, <1>2 DEF Newest
<1>4. StoredEntry(h) \in Entry
  BY <1>1, <1>3 DEF StoredEntry, Entry, Row
<1> QED BY <1>2, <1>4 DEF StoredEntry, RowHas, Newest

\* What set does to the thread that calls it and to its process's cache.
LEMMA SetTypes ==
  ASSUME TypeOK, CallInv, NEW t \in Threads, NEW h \in Hashes, NEW e \in Entry,
         Set(t, h, e),
         touched' \in [Hashes -> Nat], missed' \subseteq Threads, calls' \in 0..MaxCalls
  PROVE  TypeOK' /\ CallInv'
<1>1. Home[t] \in Processes
  BY CcrAssumption
<1>2. /\ caches' \in [Processes -> [Hashes -> Entry \cup {None}]]
      /\ \A q \in Processes : Cardinality(Cached(caches'[q])) <= MaxLocal
  BY <1>1, RememberEffect DEF Set
<1>3. Requests(Local(t)[h], e) \subseteq {"put", "post"}
  BY DEF Requests
<1>4. TypeOK'
  BY <1>2, <1>3 DEF Set, TypeOK, serverVars
<1>5. CallInv'
  BY DEF Set, TypeOK, CallInv, HasEntry
<1> QED BY <1>4, <1>5

\* The steps that leave the caches and the threads' entries alone, or forget.
LEMMA TypeStep ==
  ASSUME TypeOK, CallInv, [Next]_vars
  PROVE  TypeOK' /\ CallInv'
<1> USE DEF threadVars, serverVars
<1>1. CASE UNCHANGED vars
  BY <1>1 DEF vars, TypeOK, CallInv, HasEntry, Cached
<1>2. CASE Tick
  BY <1>2, CcrAssumption DEF Tick, TypeOK, CallInv, HasEntry, Cached
<1>3. ASSUME NEW p \in Processes, Restart(p) PROVE TypeOK' /\ CallInv'
  <2>1. caches' \in [Processes -> [Hashes -> Entry \cup {None}]]
    BY <1>3 DEF Restart, TypeOK
  <2>2. /\ Cached(caches'[p]) = {}
        /\ \A q \in Processes \ {p} : caches'[q] = caches[q]
    BY <1>3 DEF Restart, TypeOK, Cached
  <2>3. \A q \in Processes : Cardinality(Cached(caches'[q])) <= MaxLocal
    <3>1. Cardinality(Cached(caches'[p])) = 0
      BY <2>2, FS_EmptySet
    <3>2. \A q \in Processes \ {p} :
            Cached(caches'[q]) = Cached(caches[q])
      BY <2>2
    <3>3. \A q \in Processes \ {p} : Cardinality(Cached(caches'[q])) <= MaxLocal
      BY <3>2 DEF TypeOK
    <3> QED BY <3>1, <3>3, CcrAssumption
  <2>4. calls' \in 0..MaxCalls
    BY <1>3, CcrAssumption DEF Restart, Call, TypeOK
  <2>5. /\ pc' \in [Threads -> {"idle", "fetching", "fetched", "holding", "sending"}]
        /\ key' \in [Threads -> Hashes \cup {None}]
        /\ entry' \in [Threads -> Entry \cup {None}]
        /\ todo' \in [Threads -> SUBSET {"put", "post"}]
    BY <1>3 DEF Restart, TypeOK
  <2>6. TypeOK'
    BY <1>3, <2>1, <2>3, <2>4, <2>5 DEF Restart, TypeOK
  <2>7. CallInv'
    BY <1>3 DEF Restart, CallInv, HasEntry
  <2> QED BY <2>6, <2>7
<1>4. ASSUME NEW m \in late, LatePutArrives(m) PROVE TypeOK' /\ CallInv'
  <2>1. m.hash \in Hashes /\ m.row \in Row
    BY <1>4 DEF TypeOK
  <2>2. rows' \in [Hashes -> Seq(Row)]
    BY <1>4, <2>1, StoreRowEffect DEF LatePutArrives, TypeOK
  <2> QED BY <1>4, <2>2 DEF LatePutArrives, TypeOK, CallInv, HasEntry, Cached
<1>5. ASSUME NEW h \in Hashes, LatePostArrives(h) PROVE TypeOK' /\ CallInv'
  BY <1>5 DEF LatePostArrives, TypeOK, CallInv, HasEntry, Cached
<1>6. ASSUME NEW h \in Hashes, ChunkRetrieved(h) PROVE TypeOK' /\ CallInv'
  <2>1. calls' \in 0..MaxCalls
    BY <1>6, CcrAssumption DEF ChunkRetrieved, Call, TypeOK
  <2>2. TypeOK'
    <3>1. hits' \in [Hashes -> Nat] /\ touched' \in [Hashes -> Nat]
      BY <1>6 DEF ChunkRetrieved, TypeOK
    <3>2. \A p \in Processes : Cardinality(Cached(caches'[p])) <= MaxLocal
      BY <1>6 DEF ChunkRetrieved, TypeOK
    <3> QED BY <1>6, <2>1, <3>1, <3>2 DEF ChunkRetrieved, TypeOK
  <2>3. CallInv'
    BY <1>6 DEF ChunkRetrieved, CallInv, HasEntry
  <2> QED BY <2>2, <2>3
<1>7. ASSUME NEW t \in Threads, NEW h \in Hashes, NEW b \in Bodies, Store(t, h, b)
      PROVE  TypeOK' /\ CallInv'
  <2>1. [body |-> b, born |-> now, count |-> 0] \in Entry
    BY CcrAssumption DEF Entry, TypeOK
  <2>2. calls' \in 0..MaxCalls
    BY <1>7, CcrAssumption DEF Store, Call, TypeOK
  <2> QED BY <1>7, <2>1, <2>2, SetTypes DEF Store, TypeOK
<1>8. ASSUME NEW t \in Threads, NEW h \in Hashes, GetLocal(t, h)
      PROVE  TypeOK' /\ CallInv'
  <2>1. Local(t)[h] \in Entry
    <3>1. Home[t] \in Processes
      BY CcrAssumption
    <3> QED BY <1>8, <3>1 DEF GetLocal, Usable, Local, TypeOK
  <2>2. calls' \in 0..MaxCalls
    BY <1>8, CcrAssumption DEF GetLocal, Call, TypeOK
  <2>3. TypeOK'
    BY <1>8, <2>1, <2>2 DEF GetLocal, TypeOK, Cached
  <2>4. CallInv'
    BY <1>8, <2>1 DEF GetLocal, TypeOK, CallInv, HasEntry
  <2> QED BY <2>3, <2>4
<1>9. ASSUME NEW t \in Threads, NEW hs \in SUBSET Hashes,
             caches' = [caches EXCEPT ![Home[t]] =
                         [h \in Hashes |-> IF h \in hs THEN None ELSE @[h]]]
      PROVE  /\ caches' \in [Processes -> [Hashes -> Entry \cup {None}]]
             /\ \A q \in Processes : Cardinality(Cached(caches'[q])) <= MaxLocal
  <2>1. Home[t] \in Processes
    BY CcrAssumption
  <2>2. caches' \in [Processes -> [Hashes -> Entry \cup {None}]]
    BY <1>9, <2>1 DEF TypeOK
  <2>3. ASSUME NEW q \in Processes
        PROVE  Cardinality(Cached(caches'[q])) <= MaxLocal
    <3>1. Cached(caches'[q]) \subseteq Cached(caches[q])
      BY <1>9, <2>1 DEF Cached, TypeOK
    <3>2. IsFiniteSet(Cached(caches[q]))
      BY CcrAssumption, FS_Subset DEF Cached
    <3>3. Cardinality(Cached(caches'[q])) <= Cardinality(Cached(caches[q]))
      BY <3>1, <3>2, FS_Subset
    <3>4. Cardinality(Cached(caches'[q])) \in Nat /\ Cardinality(Cached(caches[q])) \in Nat
      BY <3>1, <3>2, FS_Subset, FS_CardinalityType
    <3> QED BY <3>3, <3>4, CcrAssumption DEF TypeOK
  <2> QED BY <2>2, <2>3
<1>10. ASSUME NEW t \in Threads, NEW h \in Hashes, GetMisses(t, h)
       PROVE  TypeOK' /\ CallInv'
  <2>1. caches' = [caches EXCEPT ![Home[t]] =
                    [g \in Hashes |-> IF g \in {h} THEN None ELSE @[g]]]
    BY <1>10, CcrAssumption DEF GetMisses, TypeOK
  <2>2. /\ caches' \in [Processes -> [Hashes -> Entry \cup {None}]]
        /\ \A q \in Processes : Cardinality(Cached(caches'[q])) <= MaxLocal
    BY <2>1, <1>9
  <2>3. calls' \in 0..MaxCalls
    BY <1>10, CcrAssumption DEF GetMisses, Call, TypeOK
  <2> QED BY <1>10, <2>2, <2>3 DEF GetMisses, TypeOK, CallInv, HasEntry
<1>11. ASSUME NEW t \in Threads, NEW hs \in SUBSET Hashes, Delete(t, hs)
       PROVE  TypeOK' /\ CallInv'
  <2>1. /\ caches' \in [Processes -> [Hashes -> Entry \cup {None}]]
        /\ \A q \in Processes : Cardinality(Cached(caches'[q])) <= MaxLocal
    BY <1>11, <1>9 DEF Delete
  <2>2. calls' \in 0..MaxCalls
    BY <1>11, CcrAssumption DEF Delete, Call, TypeOK
  <2> QED BY <1>11, <2>1, <2>2 DEF Delete, TypeOK, CallInv, HasEntry
<1>12. ASSUME NEW t \in Threads, NEW inTime \in BOOLEAN, PutEntry(t, inTime)
       PROVE  TypeOK' /\ CallInv'
  <2> DEFINE row == [body |-> entry[t].body, born |-> entry[t].born]
  <2>1. key[t] \in Hashes /\ row \in Row
    BY <1>12 DEF PutEntry, CallInv, HasEntry, Entry, Row
  <2>2. rows' \in [Hashes -> Seq(Row)] /\ late' \subseteq [hash : Hashes, row : Row]
    <3>1. CASE inTime = TRUE
      BY <1>12, <2>1, <3>1, StoreRowEffect DEF PutEntry, TypeOK
    <3>2. CASE inTime = FALSE
      BY <1>12, <2>1, <3>2 DEF PutEntry, TypeOK
    <3> QED BY <3>1, <3>2
  <2> QED BY <1>12, <2>2 DEF PutEntry, TypeOK, CallInv, HasEntry, Cached
<1>13. ASSUME NEW t \in Threads, NEW inTime \in BOOLEAN, PostRetrieval(t, inTime)
       PROVE  TypeOK' /\ CallInv'
  <2>1. key[t] \in Hashes
    BY <1>13 DEF PostRetrieval, CallInv
  <2>2. hits' \in [Hashes -> Nat] /\ lateHits' \in [Hashes -> Nat]
    <3>1. CASE inTime = TRUE
      <4>1. hits' = [hits EXCEPT ![key[t]] = @ + 1] /\ lateHits' = lateHits
        BY <1>13, <3>1 DEF PostRetrieval
      <4> QED BY <2>1, <4>1 DEF TypeOK
    <3>2. CASE inTime = FALSE
      <4>1. lateHits' = [lateHits EXCEPT ![key[t]] = @ + 1] /\ hits' = hits
        BY <1>13, <3>2 DEF PostRetrieval
      <4> QED BY <2>1, <4>1 DEF TypeOK
    <3> QED BY <3>1, <3>2
  <2> QED BY <1>13, <2>2 DEF PostRetrieval, TypeOK, CallInv, HasEntry, Cached
<1>14. ASSUME NEW t \in Threads, Retrieve(t) PROVE TypeOK' /\ CallInv'
  <2>1. key[t] \in Hashes /\ entry[t] \in Entry
    BY <1>14 DEF Retrieve, CallInv, HasEntry
  <2>2. [entry[t] EXCEPT !.count = @ + 1] \in Entry
    BY <2>1 DEF Entry
  <2>3. touched' \in [Hashes -> Nat] /\ missed' \subseteq Threads
    BY <1>14, <2>1 DEF Retrieve, TypeOK
  <2> QED BY <1>14, <2>1, <2>2, <2>3, SetTypes DEF Retrieve, TypeOK
<1>15. ASSUME NEW t \in Threads, Fetch(t) PROVE TypeOK' /\ CallInv'
  <2>1. key[t] \in Hashes
    BY <1>15 DEF Fetch, CallInv
  <2>2. StoredEntry(key[t]) \in Entry
    BY <1>15, <2>1, StoredEntryType DEF Fetch
  <2> QED BY <1>15, <2>2 DEF Fetch, TypeOK, CallInv, HasEntry, Cached
<1>16. ASSUME NEW t \in Threads, Fill(t) PROVE TypeOK' /\ CallInv'
  <2>1. key[t] \in Hashes /\ entry[t] \in Entry /\ Home[t] \in Processes
    BY <1>16, CcrAssumption DEF Fill, CallInv, HasEntry
  <2>2. /\ caches' \in [Processes -> [Hashes -> Entry \cup {None}]]
        /\ \A q \in Processes : Cardinality(Cached(caches'[q])) <= MaxLocal
    BY <1>16, <2>1, RememberEffect DEF Fill
  <2> QED BY <1>16, <2>2 DEF Fill, TypeOK, CallInv, HasEntry
<1>17. ASSUME NEW t \in Threads, Return(t), UNCHANGED caches, todo[t] = {}
       PROVE  TypeOK' /\ CallInv'
  BY <1>17 DEF Return, TypeOK, CallInv, HasEntry, Cached
<1>18. ASSUME NEW t \in Threads, SetReturns(t) \/ GetFails(t) \/ Drop(t)
       PROVE  TypeOK' /\ CallInv'
  BY <1>17, <1>18 DEF SetReturns, GetFails, Drop, CallInv
<1> QED
  BY <1>1, <1>2, <1>3, <1>4, <1>5, <1>6, <1>7, <1>8, <1>10, <1>11, <1>12, <1>13,
     <1>14, <1>15, <1>16, <1>18 DEF Next

-----------------------------------------------------------------------------
(* What caches and threads hold is written *)

\* Nothing that was written is lost.
LEMMA WrittenKept ==
  ASSUME \A h \in Hashes : \A c : RowHas(h, c) => RowHas(h, c)',
         \A h \in Hashes : \A c : LateHas(h, c) => LateHas(h, c)' \/ RowHas(h, c)',
         \A t \in Threads : \A h \in Hashes : \A c :
           Puts(t, h, c) => Puts(t, h, c)' \/ LateHas(h, c)' \/ RowHas(h, c)'
  PROVE  \A p \in Processes : \A h \in Hashes : \A c :
           WrittenFrom(p, h, c) => WrittenFrom(p, h, c)'
BY DEF WrittenFrom

\* In particular in a step that sends nothing and receives nothing.
LEMMA WrittenKeptQuietly ==
  ASSUME rows' = rows, late' = late,
         \A t \in Threads : "put" \in todo[t] =>
           "put" \in todo'[t] /\ key'[t] = key[t] /\ entry'[t] = entry[t]
  PROVE  \A p \in Processes : \A h \in Hashes : \A c :
           WrittenFrom(p, h, c) => WrittenFrom(p, h, c)'
<1>1. \A h \in Hashes : \A c : RowHas(h, c) => RowHas(h, c)'
  BY DEF RowHas
<1>2. \A h \in Hashes : \A c : LateHas(h, c) => LateHas(h, c)' \/ RowHas(h, c)'
  BY DEF LateHas
<1>3. \A t \in Threads : \A h \in Hashes : \A c :
        Puts(t, h, c) => Puts(t, h, c)' \/ LateHas(h, c)' \/ RowHas(h, c)'
  BY DEF Puts
<1> QED BY <1>1, <1>2, <1>3, WrittenKept

LEMMA WrittenClosed ==
  ASSUME CallInv, WrittenInv,
         \A p \in Processes : \A h \in Hashes : \A c :
           WrittenFrom(p, h, c) => WrittenFrom(p, h, c)',
         \A p \in Processes : \A h \in Hashes : caches'[p][h] # None =>
           \/ caches'[p][h] = caches[p][h]
           \/ WrittenFrom(p, h, ContentOf[caches[p][h].body])',
         \A t \in Threads : HasEntry(t)' =>
           \/ HasEntry(t) /\ key'[t] = key[t] /\ entry'[t] = entry[t]
           \/ WrittenFrom(Home[t], key[t], ContentOf[entry[t].body])'
  PROVE  WrittenInv'
<1>1. ASSUME NEW p \in Processes, NEW h \in Hashes, caches'[p][h] # None
      PROVE  WrittenFrom(p, h, ContentOf[caches[p][h].body])'
  <2>1. CASE caches'[p][h] = caches[p][h]
    <3>1. WrittenFrom(p, h, ContentOf[caches[p][h].body])
      BY <1>1, <2>1 DEF WrittenInv, Cached
    <3> QED BY <2>1, <3>1
  <2> QED BY <1>1, <2>1
<1>2. ASSUME NEW t \in Threads, HasEntry(t)'
      PROVE  WrittenFrom(Home[t], key[t], ContentOf[entry[t].body])'
  <2>1. CASE HasEntry(t) /\ key'[t] = key[t] /\ entry'[t] = entry[t]
    <3>1. WrittenFrom(Home[t], key[t], ContentOf[entry[t].body])
      BY <2>1 DEF WrittenInv
    <3>2. Home[t] \in Processes /\ key[t] \in Hashes
      BY <2>1, CcrAssumption DEF CallInv, HasEntry
    <3> QED BY <2>1, <3>1, <3>2
  <2> QED BY <1>2, <2>1
<1> QED BY <1>1, <1>2 DEF WrittenInv, Cached

\* set writes what differs from the entry it replaces; if nothing differs, that
\* entry was written.
LEMMA SetWrites ==
  ASSUME TypeOK, CallInv, WrittenInv,
         NEW t \in Threads, NEW h \in Hashes, NEW e \in Entry,
         pc[t] # "sending", Set(t, h, e)
  PROVE  WrittenInv'
<1>1. Home[t] \in Processes /\ todo[t] = {}
  BY CcrAssumption DEF CallInv
<1>2. /\ todo'[t] = Requests(Local(t)[h], e) /\ key'[t] = h /\ entry'[t] = e
      /\ \A u \in Threads \ {t} :
           pc'[u] = pc[u] /\ todo'[u] = todo[u] /\ key'[u] = key[u] /\ entry'[u] = entry[u]
  BY DEF Set, TypeOK
<1>3. \A p \in Processes : \A g \in Hashes : \A c :
        WrittenFrom(p, g, c) => WrittenFrom(p, g, c)'
  <2>1. \A u \in Threads : "put" \in todo[u] =>
          "put" \in todo'[u] /\ key'[u] = key[u] /\ entry'[u] = entry[u]
    BY <1>1, <1>2
  <2> QED BY <2>1, WrittenKeptQuietly DEF Set, serverVars
<1> DEFINE c == ContentOf[e.body]
<1>4. WrittenFrom(Home[t], h, c)'
  <2>1. CASE "put" \in todo'[t]
    <3>1. Puts(t, h, c)'
      BY <1>2, <2>1 DEF Puts
    <3> QED BY <3>1 DEF WrittenFrom
  <2>2. CASE "put" \notin todo'[t]
    <3>1. Local(t)[h] # None /\ Local(t)[h].body = e.body
      BY <1>2, <2>2 DEF Requests, ContentChanged
    <3>2. WrittenFrom(Home[t], h, c)
      BY <1>1, <3>1 DEF WrittenInv, Cached, Local
    <3> QED BY <1>1, <1>3, <3>2
  <2> QED BY <2>1, <2>2
<1>5. /\ caches'[Home[t]][h] = e
      /\ \A g \in Hashes \ {h} : caches'[Home[t]][g] \in {caches[Home[t]][g], None}
      /\ \A q \in Processes \ {Home[t]} : caches'[q] = caches[q]
  BY <1>1, RememberEffect DEF Set
<1>6. ASSUME NEW p \in Processes, NEW g \in Hashes, caches'[p][g] # None
      PROVE  \/ caches'[p][g] = caches[p][g]
             \/ WrittenFrom(p, g, ContentOf[caches[p][g].body])'
  <2>1. CASE p = Home[t] /\ g = h
    BY <1>4, <1>5, <2>1
  <2>2. CASE ~(p = Home[t] /\ g = h)
    BY <1>5, <1>6, <2>2
  <2> QED BY <2>1, <2>2
<1>7. ASSUME NEW u \in Threads, HasEntry(u)'
      PROVE  \/ HasEntry(u) /\ key'[u] = key[u] /\ entry'[u] = entry[u]
             \/ WrittenFrom(Home[u], key[u], ContentOf[entry[u].body])'
  <2>1. CASE u = t
    BY <1>2, <1>4, <2>1
  <2>2. CASE u # t
    BY <1>2, <1>7, <2>2 DEF HasEntry
  <2> QED BY <2>1, <2>2
<1> QED BY <1>3, <1>6, <1>7, WrittenClosed

\* A step that gives no cache and no thread another entry.
LEMMA WrittenQuietly ==
  ASSUME CallInv, WrittenInv,
         \A p \in Processes : \A h \in Hashes : \A c :
           WrittenFrom(p, h, c) => WrittenFrom(p, h, c)',
         \A p \in Processes : \A h \in Hashes : caches'[p][h] \in {caches[p][h], None},
         \A t \in Threads : HasEntry(t)' =>
           HasEntry(t) /\ key'[t] = key[t] /\ entry'[t] = entry[t]
  PROVE  WrittenInv'
BY WrittenClosed

LEMMA WrittenStep ==
  ASSUME TypeOK, CallInv, WrittenInv, [Next]_vars
  PROVE  WrittenInv'
<1> USE DEF threadVars, serverVars
<1>1. CASE UNCHANGED vars
  BY <1>1, WrittenKeptQuietly, WrittenQuietly DEF vars, HasEntry
<1>2. CASE Tick
  BY <1>2, WrittenKeptQuietly, WrittenQuietly DEF Tick, HasEntry
<1>3. ASSUME NEW p \in Processes, Restart(p) PROVE WrittenInv'
  <2>1. \A h \in Hashes : caches'[p][h] = None
    BY <1>3 DEF Restart, TypeOK
  <2>2. \A q \in Processes \ {p} : caches'[q] = caches[q]
    BY <1>3 DEF Restart, TypeOK
  <2>3. \A t \in Threads : IF Home[t] = p THEN ~HasEntry(t)'
          ELSE /\ pc'[t] = pc[t] /\ key'[t] = key[t]
               /\ entry'[t] = entry[t] /\ todo'[t] = todo[t]
    BY <1>3 DEF Restart, HasEntry
  <2>4. \A q \in Processes \ {p} : \A h \in Hashes : \A c :
          WrittenFrom(q, h, c) => WrittenFrom(q, h, c)'
    <3>1. \A h \in Hashes : \A c : RowHas(h, c) => RowHas(h, c)'
      BY <1>3 DEF Restart, RowHas
    <3>2. \A h \in Hashes : \A c : LateHas(h, c) => LateHas(h, c)'
      BY <1>3 DEF Restart, LateHas
    <3>3. \A t \in Threads : Home[t] # p =>
            \A h \in Hashes : \A c : Puts(t, h, c) => Puts(t, h, c)'
      BY <2>3 DEF Puts
    <3> QED BY <3>1, <3>2, <3>3 DEF WrittenFrom
  <2>5. ASSUME NEW q \in Processes, NEW h \in Cached(caches'[q])
        PROVE  WrittenFrom(q, h, ContentOf[caches[q][h].body])'
    <3>1. q # p /\ h \in Cached(caches[q]) /\ caches'[q][h] = caches[q][h]
      BY <2>1, <2>2, <2>5 DEF Cached
    <3>2. h \in Hashes /\ WrittenFrom(q, h, ContentOf[caches[q][h].body])
      BY <3>1 DEF WrittenInv, Cached
    <3> QED BY <2>4, <3>1, <3>2
  <2>6. ASSUME NEW t \in Threads, HasEntry(t)'
        PROVE  WrittenFrom(Home[t], key[t], ContentOf[entry[t].body])'
    <3>1. /\ Home[t] # p /\ HasEntry(t)
          /\ key'[t] = key[t] /\ entry'[t] = entry[t]
      BY <2>3, <2>6 DEF HasEntry
    <3>2. key[t] \in Hashes /\ Home[t] \in Processes
      BY <3>1, CcrAssumption DEF CallInv, HasEntry
    <3>3. WrittenFrom(Home[t], key[t], ContentOf[entry[t].body])
      BY <3>1 DEF WrittenInv
    <3> QED BY <2>4, <3>1, <3>2, <3>3
  <2> QED BY <2>5, <2>6 DEF WrittenInv
<1>4. ASSUME NEW m \in late, LatePutArrives(m) PROVE WrittenInv'
  <2>1. m.hash \in Hashes /\ m.row \in Row
    BY <1>4 DEF TypeOK
  <2>2. /\ RowHas(m.hash, ContentOf[m.row.body])'
        /\ \A h \in Hashes : \A c : RowHas(h, c) => RowHas(h, c)'
    BY <1>4, <2>1, StoreRowEffect DEF LatePutArrives, TypeOK
  <2>3. \A h \in Hashes : \A c : LateHas(h, c) => LateHas(h, c)' \/ RowHas(h, c)'
    BY <1>4, <2>2 DEF LatePutArrives, LateHas
  <2>4. \A t \in Threads : \A h \in Hashes : \A c : Puts(t, h, c) => Puts(t, h, c)'
    BY <1>4 DEF LatePutArrives, Puts
  <2> QED BY <1>4, <2>2, <2>3, <2>4, WrittenKept, WrittenQuietly
             DEF LatePutArrives, HasEntry
<1>5. ASSUME NEW h \in Hashes, LatePostArrives(h) PROVE WrittenInv'
  BY <1>5, WrittenKeptQuietly, WrittenQuietly DEF LatePostArrives, HasEntry
<1>6. ASSUME NEW h \in Hashes, ChunkRetrieved(h) PROVE WrittenInv'
  BY <1>6, WrittenKeptQuietly, WrittenQuietly DEF ChunkRetrieved, HasEntry
<1>7. ASSUME NEW t \in Threads, NEW h \in Hashes, NEW b \in Bodies, Store(t, h, b)
      PROVE  WrittenInv'
  <2>1. [body |-> b, born |-> now, count |-> 0] \in Entry
    BY CcrAssumption DEF Entry, TypeOK
  <2> QED BY <1>7, <2>1, SetWrites DEF Store
<1>8. ASSUME NEW t \in Threads, Retrieve(t) PROVE WrittenInv'
  <2>1. key[t] \in Hashes /\ entry[t] \in Entry
    BY <1>8 DEF Retrieve, CallInv, HasEntry
  <2>2. [entry[t] EXCEPT !.count = @ + 1] \in Entry
    BY <2>1 DEF Entry
  <2> QED BY <1>8, <2>1, <2>2, SetWrites DEF Retrieve
<1>9. ASSUME NEW t \in Threads, NEW inTime \in BOOLEAN, PutEntry(t, inTime)
      PROVE  WrittenInv'
  <2> DEFINE row == [body |-> entry[t].body, born |-> entry[t].born]
             c == ContentOf[entry[t].body]
  <2>1. key[t] \in Hashes /\ row \in Row /\ c = ContentOf[row.body]
    BY <1>9 DEF PutEntry, CallInv, HasEntry, Entry, Row
  <2>2. /\ \A h \in Hashes : \A d : RowHas(h, d) => RowHas(h, d)'
        /\ \A h \in Hashes : \A d : LateHas(h, d) => LateHas(h, d)'
        /\ \A h \in Hashes : \A d :
             h = key[t] /\ d = c => LateHas(h, d)' \/ RowHas(h, d)'
    <3>1. CASE inTime = TRUE
      <4>1. PICK k \in Hashes, r \in Row :
              k = key[t] /\ ContentOf[r.body] = c /\ StoreRow(k, r) /\ late' = late
        BY <1>9, <2>1, <3>1 DEF PutEntry
      <4>2. /\ \A h \in Hashes : \A d : RowHas(h, d) => RowHas(h, d)'
            /\ RowHas(k, ContentOf[r.body])'
        BY <4>1, StoreRowEffect DEF TypeOK
      <4>3. \A h \in Hashes : \A d : LateHas(h, d) => LateHas(h, d)'
        BY <4>1 DEF LateHas
      <4>4. \A h \in Hashes : \A d : h = key[t] /\ d = c => RowHas(h, d)'
        BY <4>1, <4>2
      <4> QED BY <4>2, <4>3, <4>4
    <3>2. CASE inTime = FALSE
      <4>1. late' = late \cup {[hash |-> key[t], row |-> row]} /\ rows' = rows
        BY <1>9, <3>2 DEF PutEntry
      <4>2. \A h \in Hashes : \A d : h = key[t] /\ d = c => LateHas(h, d)'
        BY <4>1 DEF LateHas
      <4>3. \A h \in Hashes : \A d : RowHas(h, d) => RowHas(h, d)'
        BY <4>1 DEF RowHas
      <4>4. \A h \in Hashes : \A d : LateHas(h, d) => LateHas(h, d)'
        <5>1. late \subseteq late'
          BY <4>1
        <5> QED BY <5>1 DEF LateHas
      <4> QED BY <4>2, <4>3, <4>4
    <3>3. inTime = TRUE \/ inTime = FALSE
      OBVIOUS
    <3> HIDE DEF c, row
    <3> QED BY <3>1, <3>2, <3>3
  <2>3. \A u \in Threads : \A h \in Hashes : \A d :
          Puts(u, h, d) => Puts(u, h, d)' \/ LateHas(h, d)' \/ RowHas(h, d)'
    <3>1. \A u \in Threads \ {t} : \A h \in Hashes : \A d : Puts(u, h, d) => Puts(u, h, d)'
      BY <1>9 DEF PutEntry, Puts, TypeOK
    <3>2. \A h \in Hashes : \A d : Puts(t, h, d) => h = key[t] /\ d = c
      BY DEF Puts
    <3> QED BY <2>2, <3>1, <3>2
  <2>4. \A p \in Processes : \A h \in Hashes : \A d :
          WrittenFrom(p, h, d) => WrittenFrom(p, h, d)'
    BY <2>2, <2>3, WrittenKept
  <2> QED BY <1>9, <2>4, WrittenQuietly DEF PutEntry, HasEntry
<1>10. ASSUME NEW t \in Threads, NEW inTime \in BOOLEAN, PostRetrieval(t, inTime)
       PROVE  WrittenInv'
  <2>1. \A u \in Threads : "put" \in todo[u] => "put" \in todo'[u]
    BY <1>10 DEF PostRetrieval, TypeOK
  <2> QED BY <1>10, <2>1, WrittenKeptQuietly, WrittenQuietly DEF PostRetrieval, HasEntry
<1>11. ASSUME NEW t \in Threads, Return(t), UNCHANGED caches, todo[t] = {}
       PROVE  WrittenInv'
  <2>1. \A u \in Threads \ {t} : pc'[u] = pc[u] /\ key'[u] = key[u] /\ entry'[u] = entry[u]
    BY <1>11 DEF Return, TypeOK
  <2>2. ~HasEntry(t)' /\ rows' = rows /\ late' = late /\ todo' = todo
    BY <1>11 DEF Return, TypeOK, HasEntry
  <2> QED BY <1>11, <2>1, <2>2, WrittenKeptQuietly, WrittenQuietly DEF HasEntry
<1>12. ASSUME NEW t \in Threads, SetReturns(t) \/ GetFails(t) \/ Drop(t)
       PROVE  WrittenInv'
  BY <1>11, <1>12 DEF SetReturns, GetFails, Drop, CallInv
<1>13. ASSUME NEW t \in Threads, NEW h \in Hashes, GetMisses(t, h)
       PROVE  WrittenInv'
  <2>1. \A p \in Processes : \A g \in Hashes : caches'[p][g] \in {caches[p][g], None}
    BY <1>13, CcrAssumption DEF GetMisses, TypeOK
  <2>2. \A u \in Threads : HasEntry(u)' => u # t /\ HasEntry(u) /\ key'[u] = key[u]
    BY <1>13 DEF GetMisses, TypeOK, HasEntry
  <2>3. \A u \in Threads : "put" \in todo[u] => u # t /\ key'[u] = key[u]
    BY <1>13 DEF GetMisses, TypeOK, CallInv
  <2> QED BY <1>13, <2>1, <2>2, <2>3, WrittenKeptQuietly, WrittenQuietly DEF GetMisses
<1>14. ASSUME NEW t \in Threads, NEW hs \in SUBSET Hashes, Delete(t, hs)
       PROVE  WrittenInv'
  <2>1. \A p \in Processes : \A g \in Hashes : caches'[p][g] \in {caches[p][g], None}
    BY <1>14, CcrAssumption DEF Delete, TypeOK
  <2> QED BY <1>14, <2>1, WrittenKeptQuietly, WrittenQuietly DEF Delete, HasEntry
<1>15. ASSUME NEW t \in Threads, NEW h \in Hashes, GetLocal(t, h)
       PROVE  WrittenInv'
  <2>1. Home[t] \in Processes /\ todo[t] = {}
    BY <1>15, CcrAssumption DEF CallInv, GetLocal
  <2>2. /\ key'[t] = h /\ entry'[t] = Local(t)[h]
        /\ \A u \in Threads \ {t} : pc'[u] = pc[u] /\ key'[u] = key[u] /\ entry'[u] = entry[u]
    BY <1>15 DEF GetLocal, TypeOK
  <2>3. \A p \in Processes : \A g \in Hashes : \A c :
          WrittenFrom(p, g, c) => WrittenFrom(p, g, c)'
    <3>1. \A u \in Threads : "put" \in todo[u] => u # t
      BY <2>1
    <3> QED BY <1>15, <2>2, <3>1, WrittenKeptQuietly DEF GetLocal
  <2>4. WrittenFrom(Home[t], h, ContentOf[Local(t)[h].body])
    BY <1>15, <2>1 DEF GetLocal, Usable, Local, WrittenInv, Cached
  <2>5. WrittenFrom(Home[t], key[t], ContentOf[entry[t].body])'
    BY <2>1, <2>2, <2>3, <2>4
  <2>6. \A u \in Threads : HasEntry(u)' =>
          \/ HasEntry(u) /\ key'[u] = key[u] /\ entry'[u] = entry[u]
          \/ WrittenFrom(Home[u], key[u], ContentOf[entry[u].body])'
    <3> SUFFICES ASSUME NEW u \in Threads, HasEntry(u)'
                 PROVE  \/ HasEntry(u) /\ key'[u] = key[u] /\ entry'[u] = entry[u]
                        \/ WrittenFrom(Home[u], key[u], ContentOf[entry[u].body])'
      OBVIOUS
    <3>1. CASE u = t
      BY <2>5, <3>1
    <3>2. CASE u # t
      BY <2>2, <3>2 DEF HasEntry
    <3> QED BY <3>1, <3>2
  <2> QED BY <1>15, <2>3, <2>6, WrittenClosed DEF GetLocal
<1>16. ASSUME NEW t \in Threads, Fetch(t) PROVE WrittenInv'
  <2>1. key[t] \in Hashes /\ Home[t] \in Processes /\ todo[t] = {}
    BY <1>16, CcrAssumption DEF Fetch, CallInv
  <2>2. /\ key'[t] = key[t] /\ entry'[t] = StoredEntry(key[t])
        /\ \A u \in Threads \ {t} : pc'[u] = pc[u] /\ key'[u] = key[u] /\ entry'[u] = entry[u]
    BY <1>16 DEF Fetch, TypeOK
  <2>3. \A p \in Processes : \A g \in Hashes : \A c :
          WrittenFrom(p, g, c) => WrittenFrom(p, g, c)'
    <3>1. \A u \in Threads : "put" \in todo[u] => u # t
      BY <2>1
    <3> QED BY <1>16, <2>2, <3>1, WrittenKeptQuietly DEF Fetch
  <2>4. WrittenFrom(Home[t], key[t], ContentOf[StoredEntry(key[t]).body])
    BY <1>16, <2>1, StoredEntryType DEF Fetch, WrittenFrom
  <2>5. WrittenFrom(Home[t], key[t], ContentOf[entry[t].body])'
    BY <2>1, <2>2, <2>3, <2>4
  <2>6. \A u \in Threads : HasEntry(u)' =>
          \/ HasEntry(u) /\ key'[u] = key[u] /\ entry'[u] = entry[u]
          \/ WrittenFrom(Home[u], key[u], ContentOf[entry[u].body])'
    <3> SUFFICES ASSUME NEW u \in Threads, HasEntry(u)'
                 PROVE  \/ HasEntry(u) /\ key'[u] = key[u] /\ entry'[u] = entry[u]
                        \/ WrittenFrom(Home[u], key[u], ContentOf[entry[u].body])'
      OBVIOUS
    <3>1. CASE u = t
      BY <2>5, <3>1
    <3>2. CASE u # t
      BY <2>2, <3>2 DEF HasEntry
    <3> QED BY <3>1, <3>2
  <2> QED BY <1>16, <2>3, <2>6, WrittenClosed DEF Fetch
<1>17. ASSUME NEW t \in Threads, Fill(t) PROVE WrittenInv'
  <2>1. key[t] \in Hashes /\ entry[t] \in Entry /\ Home[t] \in Processes /\ HasEntry(t)
    BY <1>17, CcrAssumption DEF Fill, CallInv, HasEntry
  <2>2. \A p \in Processes : \A g \in Hashes : \A c :
          WrittenFrom(p, g, c) => WrittenFrom(p, g, c)'
    BY <1>17, WrittenKeptQuietly DEF Fill
  <2>3. /\ caches'[Home[t]][key[t]] = entry[t]
        /\ \A g \in Hashes \ {key[t]} :
             caches'[Home[t]][g] \in {caches[Home[t]][g], None}
        /\ \A q \in Processes \ {Home[t]} : caches'[q] = caches[q]
    BY <1>17, <2>1, RememberEffect DEF Fill
  <2>4. WrittenFrom(Home[t], key[t], ContentOf[entry[t].body])
    BY <2>1 DEF WrittenInv
  <2>5. ASSUME NEW p \in Processes, NEW g \in Hashes, caches'[p][g] # None
        PROVE  \/ caches'[p][g] = caches[p][g]
               \/ WrittenFrom(p, g, ContentOf[caches[p][g].body])'
    <3>1. CASE p = Home[t] /\ g = key[t]
      BY <2>1, <2>2, <2>3, <2>4, <3>1
    <3>2. CASE ~(p = Home[t] /\ g = key[t])
      BY <2>3, <2>5, <3>2
    <3> QED BY <3>1, <3>2
  <2>6. \A u \in Threads : HasEntry(u)' =>
          HasEntry(u) /\ key'[u] = key[u] /\ entry'[u] = entry[u]
    BY <1>17, <2>1 DEF Fill, HasEntry, TypeOK
  <2> QED BY <2>2, <2>5, <2>6, WrittenClosed
<1> QED
  BY <1>1, <1>2, <1>3, <1>4, <1>5, <1>6, <1>7, <1>8, <1>9, <1>10, <1>12, <1>13,
     <1>14, <1>15, <1>16, <1>17 DEF Next

-----------------------------------------------------------------------------
(* The counts *)

\* Numbers of threads.
LEMMA ThreadCount ==
  ASSUME NEW S \in SUBSET Threads
  PROVE  /\ IsFiniteSet(S) /\ Cardinality(S) \in Nat
         /\ \A R \in SUBSET S : Cardinality(R) <= Cardinality(S)
         /\ \A t \in Threads : /\ Cardinality(S \cup {t}) <= Cardinality(S) + 1
                               /\ t \in S => Cardinality(S \ {t}) + 1 = Cardinality(S)
<1>1. IsFiniteSet(S)
  BY FS_Subset, CcrAssumption
<1>2. Cardinality(S) \in Nat
  BY <1>1, FS_CardinalityType
<1>3. \A R \in SUBSET S : Cardinality(R) <= Cardinality(S)
  BY <1>1, FS_Subset
<1>4. ASSUME NEW t \in Threads
      PROVE  /\ Cardinality(S \cup {t}) <= Cardinality(S) + 1
             /\ t \in S => Cardinality(S \ {t}) + 1 = Cardinality(S)
  <2>1. Cardinality(S \cup {t}) <= Cardinality(S) + 1
    BY <1>1, <1>2, FS_AddElement
  <2>2. ASSUME t \in S PROVE Cardinality(S \ {t}) + 1 = Cardinality(S)
    <3>1. Cardinality(S \ {t}) = Cardinality(S) - 1
      BY <1>1, <2>2, FS_RemoveElement
    <3> QED BY <1>2, <3>1
  <2> QED BY <2>1, <2>2
<1> QED BY <1>1, <1>2, <1>3, <1>4

\* The invariant is kept where reports do not outgrow the retrievals made, and
\* an entry that appears counts no more than those.
LEMMA CountKept ==
  ASSUME TypeOK, CallInv, TypeOK', CallInv', CountInv,
         \A h \in Hashes : touched[h] <= touched'[h],
         \A h \in Hashes :
           hits'[h] + lateHits'[h] + Cardinality(Reporting(h)') + touched[h]
             <= hits[h] + lateHits[h] + Cardinality(Reporting(h)) + touched'[h],
         \A p \in Processes : \A h \in Hashes :
           caches'[p][h] \in {caches[p][h], None} \/ caches'[p][h].count <= touched'[h],
         \A t \in Threads : HasEntry(t)' =>
           \/ HasEntry(t) /\ key'[t] = key[t] /\ entry'[t] = entry[t]
           \/ entry'[t].count <= touched'[key'[t]]
  PROVE  CountInv'
<1>1. \A h \in Hashes : touched[h] \in Nat /\ touched'[h] \in Nat
  BY DEF TypeOK
<1>2. ASSUME NEW h \in Hashes
      PROVE  hits'[h] + lateHits'[h] + Cardinality(Reporting(h)') <= touched'[h]
  <2>1. Cardinality(Reporting(h)) \in Nat /\ Cardinality(Reporting(h)') \in Nat
    BY ThreadCount DEF Reporting
  <2>2. /\ hits[h] \in Nat /\ lateHits[h] \in Nat
        /\ hits'[h] \in Nat /\ lateHits'[h] \in Nat
    BY DEF TypeOK
  <2>3. hits[h] + lateHits[h] + Cardinality(Reporting(h)) <= touched[h]
    BY DEF CountInv
  <2>4. hits'[h] + lateHits'[h] + Cardinality(Reporting(h)') + touched[h]
             <= hits[h] + lateHits[h] + Cardinality(Reporting(h)) + touched'[h]
    OBVIOUS
  <2> HIDE DEF Reporting
  <2> QED BY <1>1, <2>1, <2>2, <2>3, <2>4
<1>3. ASSUME NEW p \in Processes, NEW h \in Cached(caches'[p])
      PROVE  caches'[p][h].count <= touched'[h]
  <2>1. h \in Hashes /\ caches'[p][h] # None
    BY <1>3 DEF Cached
  <2>2. CASE caches'[p][h] = caches[p][h]
    <3>1. caches[p][h].count <= touched[h]
      BY <2>1, <2>2 DEF CountInv, Cached
    <3>2. caches[p][h] \in Entry
      BY <2>1, <2>2 DEF TypeOK
    <3> QED BY <1>1, <2>1, <2>2, <3>1, <3>2 DEF Entry
  <2> QED BY <2>1, <2>2
<1>4. ASSUME NEW t \in Threads, HasEntry(t)'
      PROVE  entry'[t].count <= touched'[key'[t]]
  <2>1. CASE HasEntry(t) /\ key'[t] = key[t] /\ entry'[t] = entry[t]
    <3>1. entry[t].count <= touched[key[t]] /\ entry[t] \in Entry /\ key[t] \in Hashes
      BY <2>1 DEF CountInv, CallInv, HasEntry
    <3> QED BY <1>1, <2>1, <3>1 DEF Entry
  <2> QED BY <1>4, <2>1
<1> QED BY <1>2, <1>3, <1>4 DEF CountInv

\* A step after which no retrieval is about to be reported that was not.
LEMMA CountQuietly ==
  ASSUME TypeOK, CallInv, TypeOK', CallInv', CountInv,
         \A h \in Hashes : touched[h] <= touched'[h],
         \A h \in Hashes :
           hits'[h] + lateHits'[h] + touched[h] <= hits[h] + lateHits[h] + touched'[h],
         \A t \in Threads : "post" \in todo'[t] => "post" \in todo[t] /\ key'[t] = key[t],
         \A p \in Processes : \A h \in Hashes :
           caches'[p][h] \in {caches[p][h], None} \/ caches'[p][h].count <= touched'[h],
         \A t \in Threads : HasEntry(t)' =>
           \/ HasEntry(t) /\ key'[t] = key[t] /\ entry'[t] = entry[t]
           \/ entry'[t].count <= touched'[key'[t]]
  PROVE  CountInv'
<1>1. ASSUME NEW h \in Hashes
      PROVE  hits'[h] + lateHits'[h] + Cardinality(Reporting(h)') + touched[h]
               <= hits[h] + lateHits[h] + Cardinality(Reporting(h)) + touched'[h]
  <2>1. Reporting(h)' \subseteq Reporting(h)
    BY DEF Reporting
  <2>2. /\ Cardinality(Reporting(h)) \in Nat /\ Cardinality(Reporting(h)') \in Nat
        /\ Cardinality(Reporting(h)') <= Cardinality(Reporting(h))
    BY <2>1, ThreadCount DEF Reporting
  <2>3. /\ hits[h] \in Nat /\ lateHits[h] \in Nat /\ touched[h] \in Nat
        /\ hits'[h] \in Nat /\ lateHits'[h] \in Nat /\ touched'[h] \in Nat
    BY DEF TypeOK
  <2>4. hits'[h] + lateHits'[h] + touched[h] <= hits[h] + lateHits[h] + touched'[h]
    OBVIOUS
  <2> HIDE DEF Reporting
  <2> QED BY <2>2, <2>3, <2>4
<1> QED BY <1>1, CountKept

\* What set does to the caches, and to the thread that calls it.
LEMMA SetCounts ==
  ASSUME TypeOK, NEW t \in Threads, NEW h \in Hashes, NEW e \in Entry, Set(t, h, e)
  PROVE  /\ \A p \in Processes : \A g \in Hashes :
              \/ caches'[p][g] \in {caches[p][g], None}
              \/ p = Home[t] /\ g = h /\ caches'[p][g] = e
         /\ pc'[t] = "sending" /\ key'[t] = h /\ entry'[t] = e
         /\ todo'[t] = Requests(Local(t)[h], e)
         /\ \A u \in Threads \ {t} : /\ pc'[u] = pc[u] /\ key'[u] = key[u]
                                     /\ entry'[u] = entry[u] /\ todo'[u] = todo[u]
<1>1. Home[t] \in Processes
  BY CcrAssumption
<1>2. /\ caches'[Home[t]][h] = e
      /\ \A g \in Hashes \ {h} : caches'[Home[t]][g] \in {caches[Home[t]][g], None}
      /\ \A q \in Processes \ {Home[t]} : caches'[q] = caches[q]
  BY <1>1, RememberEffect DEF Set
<1>3. \A p \in Processes : \A g \in Hashes :
        \/ caches'[p][g] \in {caches[p][g], None}
        \/ p = Home[t] /\ g = h /\ caches'[p][g] = e
  BY <1>2
<1> QED BY <1>3 DEF Set, TypeOK

LEMMA CountStep ==
  ASSUME TypeOK, CallInv, CountInv, [Next]_vars
  PROVE  CountInv'
<1> USE DEF threadVars, serverVars
<1>0. TypeOK' /\ CallInv'
  BY TypeStep
<1>a. \A h \in Hashes : hits[h] \in Nat /\ lateHits[h] \in Nat /\ touched[h] \in Nat
  BY DEF TypeOK
<1>b. ASSUME UNCHANGED <<hits, lateHits, touched>>
      PROVE  /\ \A h \in Hashes : touched[h] <= touched'[h]
             /\ \A h \in Hashes :
                  hits'[h] + lateHits'[h] + touched[h] <= hits[h] + lateHits[h] + touched'[h]
  BY <1>a, <1>b
<1>1. CASE UNCHANGED vars
  BY <1>0, <1>1, <1>b, CountQuietly DEF vars, HasEntry
<1>2. CASE Tick
  BY <1>0, <1>2, <1>b, CountQuietly DEF Tick, HasEntry
<1>3. ASSUME NEW p \in Processes, Restart(p) PROVE CountInv'
  <2>1. \A q \in Processes : \A h \in Hashes : caches'[q][h] \in {caches[q][h], None}
    BY <1>3 DEF Restart, TypeOK
  <2>2. \A t \in Threads : IF Home[t] = p THEN ~HasEntry(t)' /\ todo'[t] = {}
          ELSE /\ pc'[t] = pc[t] /\ key'[t] = key[t]
               /\ entry'[t] = entry[t] /\ todo'[t] = todo[t]
    BY <1>3 DEF Restart, HasEntry
  <2>3. \A t \in Threads : "post" \in todo'[t] => "post" \in todo[t] /\ key'[t] = key[t]
    BY <2>2
  <2>4. \A t \in Threads : HasEntry(t)' =>
          HasEntry(t) /\ key'[t] = key[t] /\ entry'[t] = entry[t]
    BY <2>2 DEF HasEntry
  <2> QED BY <1>0, <1>3, <1>b, <2>1, <2>3, <2>4, CountQuietly DEF Restart
<1>4. ASSUME NEW m \in late, LatePutArrives(m) PROVE CountInv'
  BY <1>0, <1>4, <1>b, CountQuietly DEF LatePutArrives, HasEntry
<1>5. ASSUME NEW h \in Hashes, LatePostArrives(h) PROVE CountInv'
  <2>1. \A g \in Hashes : touched'[g] = touched[g]
    BY <1>5 DEF LatePostArrives
  <2>2. \A g \in Hashes : hits'[g] + lateHits'[g] <= hits[g] + lateHits[g]
    <3>1. \A g \in Hashes :
            /\ hits'[g] = IF g = h THEN hits[g] + 1 ELSE hits[g]
            /\ lateHits'[g] = IF g = h THEN lateHits[g] - 1 ELSE lateHits[g]
      BY <1>5 DEF LatePostArrives, TypeOK
    <3>2. ASSUME NEW g \in Hashes PROVE hits'[g] + lateHits'[g] <= hits[g] + lateHits[g]
      <4>1. hits[g] \in Nat /\ lateHits[g] \in Nat
        BY <1>a
      <4>2. CASE g = h
        BY <3>1, <4>1, <4>2
      <4>3. CASE g # h
        BY <3>1, <4>1, <4>3
      <4> QED BY <4>2, <4>3
    <3> QED BY <3>2
  <2>3. \A g \in Hashes :
          /\ touched[g] <= touched'[g]
          /\ hits'[g] + lateHits'[g] + touched[g] <= hits[g] + lateHits[g] + touched'[g]
    <3>1. \A g \in Hashes : hits'[g] \in Nat /\ lateHits'[g] \in Nat
      BY <1>0 DEF TypeOK
    <3> QED BY <1>a, <2>1, <2>2, <3>1
  <2> QED BY <1>0, <1>5, <2>3, CountQuietly DEF LatePostArrives, HasEntry
<1>6. ASSUME NEW h \in Hashes, ChunkRetrieved(h) PROVE CountInv'
  <2>1. \A g \in Hashes :
          /\ lateHits'[g] = lateHits[g]
          /\ hits'[g] = IF g = h THEN hits[g] + 1 ELSE hits[g]
          /\ touched'[g] = IF g = h THEN touched[g] + 1 ELSE touched[g]
    BY <1>6 DEF ChunkRetrieved, TypeOK
  <2>2. \A g \in Hashes :
          /\ touched[g] <= touched'[g]
          /\ hits'[g] + lateHits'[g] + touched[g] <= hits[g] + lateHits[g] + touched'[g]
    BY <1>a, <2>1
  <2> QED BY <1>0, <1>6, <2>2, CountQuietly DEF ChunkRetrieved, HasEntry
<1>7. ASSUME NEW t \in Threads, NEW h \in Hashes, NEW b \in Bodies, Store(t, h, b)
      PROVE  CountInv'
  <2> DEFINE e == [body |-> b, born |-> now, count |-> 0]
  <2>1. e \in Entry /\ e.count = 0
    BY CcrAssumption DEF Entry, TypeOK
  <2>2. PICK d \in Entry : d = e /\ d.count = 0 /\ Set(t, h, d)
    BY <1>7, <2>1 DEF Store
  <2>3. "post" \notin Requests(Local(t)[h], d)
    <3>1. Home[t] \in Processes
      BY CcrAssumption
    <3>2. Local(t)[h] = None \/ Local(t)[h].count \in Nat
      BY <3>1 DEF TypeOK, Local, Entry
    <3> QED BY <2>2, <3>2 DEF Requests, Retrieved
  <2>4. UNCHANGED <<hits, lateHits, touched>>
    BY <1>7 DEF Store, Set
  <2>5. \A u \in Threads : "post" \in todo'[u] => "post" \in todo[u] /\ key'[u] = key[u]
    BY <2>2, <2>3, SetCounts
  <2>6. \A p \in Processes : \A g \in Hashes :
          caches'[p][g] \in {caches[p][g], None} \/ caches'[p][g].count <= touched'[g]
    BY <1>a, <2>2, <2>4, SetCounts
  <2>7. \A u \in Threads : HasEntry(u)' =>
          \/ HasEntry(u) /\ key'[u] = key[u] /\ entry'[u] = entry[u]
          \/ entry'[u].count <= touched'[key'[u]]
    <3>1. entry'[t].count <= touched'[key'[t]]
      BY <1>a, <2>2, <2>4, SetCounts
    <3>2. \A u \in Threads \ {t} : /\ pc'[u] = pc[u] /\ key'[u] = key[u]
                                   /\ entry'[u] = entry[u]
      BY <2>2, SetCounts
    <3> QED BY <3>1, <3>2 DEF HasEntry
  <2> QED BY <1>0, <1>b, <2>4, <2>5, <2>6, <2>7, CountQuietly
<1>8. ASSUME NEW t \in Threads, Retrieve(t) PROVE CountInv'
  <2>1. key[t] \in Hashes /\ entry[t] \in Entry /\ HasEntry(t) /\ todo[t] = {}
    BY <1>8 DEF Retrieve, CallInv, HasEntry
  <2>2. PICK k \in Hashes, d \in Entry :
          k = key[t] /\ d.count = entry[t].count + 1 /\ Set(t, k, d)
    <3>1. /\ [entry[t] EXCEPT !.count = @ + 1] \in Entry
          /\ [entry[t] EXCEPT !.count = @ + 1].count = entry[t].count + 1
      BY <2>1 DEF Entry
    <3> QED BY <1>8, <2>1, <3>1 DEF Retrieve
  <2>3. /\ hits' = hits /\ lateHits' = lateHits
        /\ touched'[k] = touched[k] + 1
        /\ \A g \in Hashes \ {k} : touched'[g] = touched[g]
    BY <1>8, <2>2 DEF Retrieve, Set, TypeOK
  <2>4. \A g \in Hashes : touched[g] <= touched'[g]
    BY <1>a, <2>3
  <2>5. d.count <= touched'[k]
    <3>1. entry[t].count <= touched[k]
      BY <2>1, <2>2 DEF CountInv
    <3> QED BY <1>a, <2>1, <2>2, <2>3, <3>1 DEF Entry
  <2>6. \A u \in Threads \ {t} : /\ pc'[u] = pc[u] /\ key'[u] = key[u]
                                 /\ entry'[u] = entry[u] /\ todo'[u] = todo[u]
    BY <2>2, SetCounts
  <2>7. ASSUME NEW g \in Hashes
        PROVE  hits'[g] + lateHits'[g] + Cardinality(Reporting(g)') + touched[g]
                 <= hits[g] + lateHits[g] + Cardinality(Reporting(g)) + touched'[g]
    <3>1. /\ Reporting(g)' \subseteq Reporting(g) \cup {t}
          /\ g # k => Reporting(g)' \subseteq Reporting(g)
      BY <2>2, <2>6, SetCounts DEF Reporting
    <3>2. /\ Reporting(g) \subseteq Threads /\ Reporting(g)' \subseteq Threads
          /\ Reporting(g) \cup {t} \subseteq Threads
      BY DEF Reporting
    <3> HIDE DEF Reporting
    <3>3. /\ Cardinality(Reporting(g)) \in Nat /\ Cardinality(Reporting(g)') \in Nat
          /\ Cardinality(Reporting(g) \cup {t}) <= Cardinality(Reporting(g)) + 1
          /\ Cardinality(Reporting(g) \cup {t}) \in Nat
      BY <3>2, ThreadCount
    <3>4. CASE g = k
      <4>1. Cardinality(Reporting(g)') <= Cardinality(Reporting(g) \cup {t})
        BY <3>1, <3>2, ThreadCount
      <4>2. Cardinality(Reporting(g)') <= Cardinality(Reporting(g)) + 1
        BY <3>3, <4>1
      <4> QED BY <1>a, <2>3, <3>3, <3>4, <4>2
    <3>5. CASE g # k
      <4>1. Cardinality(Reporting(g)') <= Cardinality(Reporting(g))
        BY <3>1, <3>2, <3>5, ThreadCount
      <4> QED BY <1>a, <2>3, <3>3, <3>5, <4>1
    <3> QED BY <3>4, <3>5
  <2>8. \A p \in Processes : \A g \in Hashes :
          caches'[p][g] \in {caches[p][g], None} \/ caches'[p][g].count <= touched'[g]
    BY <2>2, <2>5, SetCounts
  <2>9. \A u \in Threads : HasEntry(u)' =>
          \/ HasEntry(u) /\ key'[u] = key[u] /\ entry'[u] = entry[u]
          \/ entry'[u].count <= touched'[key'[u]]
    <3>1. entry'[t].count <= touched'[key'[t]]
      BY <2>2, <2>5, SetCounts
    <3> QED BY <3>1, <2>6 DEF HasEntry
  <2> QED BY <1>0, <2>4, <2>7, <2>8, <2>9, CountKept
<1>9. ASSUME NEW t \in Threads, NEW inTime \in BOOLEAN, PutEntry(t, inTime)
      PROVE  CountInv'
  <2>1. \A u \in Threads : "post" \in todo'[u] => "post" \in todo[u]
    BY <1>9 DEF PutEntry, TypeOK
  <2> QED BY <1>0, <1>9, <1>b, <2>1, CountQuietly DEF PutEntry, HasEntry
<1>10. ASSUME NEW t \in Threads, NEW inTime \in BOOLEAN, PostRetrieval(t, inTime)
       PROVE  CountInv'
  <2>1. PICK k \in Hashes : k = key[t]
    BY <1>10 DEF PostRetrieval, CallInv
  <2>2. \A g \in Hashes : touched'[g] = touched[g]
    BY <1>10 DEF PostRetrieval
  <2>3. \A g \in Hashes :
          hits'[g] + lateHits'[g] = IF g = k THEN hits[g] + lateHits[g] + 1
                                             ELSE hits[g] + lateHits[g]
    <3>1. CASE inTime = TRUE
      <4>1. \A g \in Hashes :
              /\ hits'[g] = IF g = k THEN hits[g] + 1 ELSE hits[g]
              /\ lateHits'[g] = lateHits[g]
        BY <1>10, <2>1, <3>1 DEF PostRetrieval, TypeOK
      <4> QED BY <1>a, <4>1
    <3>2. CASE inTime = FALSE
      <4>1. \A g \in Hashes :
              /\ lateHits'[g] = IF g = k THEN lateHits[g] + 1 ELSE lateHits[g]
              /\ hits'[g] = hits[g]
        BY <1>10, <2>1, <3>2 DEF PostRetrieval, TypeOK
      <4> QED BY <1>a, <4>1
    <3> QED BY <3>1, <3>2
  <2>4. ASSUME NEW g \in Hashes
        PROVE  hits'[g] + lateHits'[g] + Cardinality(Reporting(g)') + touched[g]
                 <= hits[g] + lateHits[g] + Cardinality(Reporting(g)) + touched'[g]
    <3>1. /\ Reporting(g)' \subseteq Reporting(g) \ {t}
          /\ g = k => t \in Reporting(g)
          /\ Reporting(g) \subseteq Threads /\ Reporting(g)' \subseteq Threads
      BY <1>10, <2>1 DEF PostRetrieval, Reporting, TypeOK
    <3>2. /\ hits'[g] \in Nat /\ lateHits'[g] \in Nat
      BY <1>0 DEF TypeOK
    <3> HIDE DEF Reporting
    <3>3. /\ Cardinality(Reporting(g)) \in Nat /\ Cardinality(Reporting(g)') \in Nat
          /\ Cardinality(Reporting(g)') <= Cardinality(Reporting(g))
      BY <3>1, ThreadCount
    <3>4. g = k => Cardinality(Reporting(g)') + 1 <= Cardinality(Reporting(g))
      <4>1. /\ Reporting(g) \ {t} \subseteq Threads
            /\ Cardinality(Reporting(g) \ {t}) \in Nat
            /\ Cardinality(Reporting(g)') <= Cardinality(Reporting(g) \ {t})
        BY <3>1, ThreadCount
      <4>2. g = k => Cardinality(Reporting(g) \ {t}) + 1 = Cardinality(Reporting(g))
        BY <3>1, ThreadCount
      <4> QED BY <3>3, <4>1, <4>2
    <3> QED BY <1>a, <2>2, <2>3, <3>2, <3>3, <3>4
  <2>5. \A g \in Hashes : touched[g] <= touched'[g]
    BY <1>a, <2>2
  <2> QED BY <1>0, <1>10, <2>4, <2>5, CountKept DEF PostRetrieval, HasEntry
<1>11. ASSUME NEW t \in Threads, Return(t), UNCHANGED caches, todo[t] = {}
       PROVE  CountInv'
  <2>1. \A u \in Threads \ {t} : pc'[u] = pc[u] /\ key'[u] = key[u] /\ entry'[u] = entry[u]
    BY <1>11 DEF Return, TypeOK
  <2>2. ~HasEntry(t)' /\ todo' = todo
    BY <1>11 DEF Return, TypeOK, HasEntry
  <2>3. UNCHANGED <<hits, lateHits, touched>>
    BY <1>11 DEF Return
  <2>4. \A u \in Threads : "post" \in todo'[u] => "post" \in todo[u] /\ key'[u] = key[u]
    BY <1>11, <2>1, <2>2
  <2>5. \A u \in Threads : HasEntry(u)' =>
          HasEntry(u) /\ key'[u] = key[u] /\ entry'[u] = entry[u]
    BY <2>1, <2>2 DEF HasEntry
  <2> QED BY <1>0, <1>11, <1>b, <2>3, <2>4, <2>5, CountQuietly
<1>12. ASSUME NEW t \in Threads, SetReturns(t) \/ GetFails(t) \/ Drop(t)
       PROVE  CountInv'
  BY <1>11, <1>12 DEF SetReturns, GetFails, Drop, CallInv
<1>13. ASSUME NEW t \in Threads, NEW h \in Hashes, GetMisses(t, h)
       PROVE  CountInv'
  <2>1. \A p \in Processes : \A g \in Hashes : caches'[p][g] \in {caches[p][g], None}
    BY <1>13, CcrAssumption DEF GetMisses, TypeOK
  <2>2. \A u \in Threads : HasEntry(u)' => u # t /\ HasEntry(u) /\ key'[u] = key[u]
    BY <1>13 DEF GetMisses, TypeOK, HasEntry
  <2>3. \A u \in Threads : "post" \in todo[u] => u # t /\ key'[u] = key[u]
    BY <1>13 DEF GetMisses, TypeOK, CallInv
  <2> QED BY <1>0, <1>13, <1>b, <2>1, <2>2, <2>3, CountQuietly DEF GetMisses
<1>14. ASSUME NEW t \in Threads, NEW hs \in SUBSET Hashes, Delete(t, hs)
       PROVE  CountInv'
  <2>1. \A p \in Processes : \A g \in Hashes : caches'[p][g] \in {caches[p][g], None}
    BY <1>14, CcrAssumption DEF Delete, TypeOK
  <2> QED BY <1>0, <1>14, <1>b, <2>1, CountQuietly DEF Delete, HasEntry
<1>15. ASSUME NEW t \in Threads, NEW h \in Hashes, NEW e \in Entry, todo[t] = {},
              key'[t] = h, entry'[t] = e, e.count <= touched[h],
              UNCHANGED <<hits, lateHits, touched, caches, todo>>,
              \A u \in Threads \ {t} :
                pc'[u] = pc[u] /\ key'[u] = key[u] /\ entry'[u] = entry[u]
       PROVE  CountInv'
  <2>1. \A u \in Threads : "post" \in todo'[u] => "post" \in todo[u] /\ key'[u] = key[u]
    BY <1>15
  <2>2. \A u \in Threads : HasEntry(u)' =>
          \/ HasEntry(u) /\ key'[u] = key[u] /\ entry'[u] = entry[u]
          \/ entry'[u].count <= touched'[key'[u]]
    BY <1>15 DEF HasEntry
  <2> QED BY <1>0, <1>15, <1>b, <2>1, <2>2, CountQuietly
<1>16. ASSUME NEW t \in Threads, NEW h \in Hashes, GetLocal(t, h)
       PROVE  CountInv'
  <2>1. Home[t] \in Processes /\ todo[t] = {}
    BY <1>16, CcrAssumption DEF CallInv, GetLocal
  <2>2. PICK e \in Entry : e = Local(t)[h]
    BY <1>16, <2>1 DEF GetLocal, Usable, Local, TypeOK
  <2>3. e.count <= touched[h]
    BY <1>16, <2>1, <2>2 DEF GetLocal, Usable, Local, CountInv, Cached
  <2>4. /\ key'[t] = h /\ entry'[t] = e
        /\ \A u \in Threads \ {t} : pc'[u] = pc[u] /\ key'[u] = key[u] /\ entry'[u] = entry[u]
    BY <1>16, <2>2 DEF GetLocal, TypeOK
  <2> QED BY <1>15, <1>16, <2>1, <2>3, <2>4 DEF GetLocal
<1>17. ASSUME NEW t \in Threads, Fetch(t) PROVE CountInv'
  <2>1. todo[t] = {}
    BY <1>17 DEF Fetch, CallInv
  <2>2. PICK h \in Hashes : h = key[t] /\ rows[h] # <<>>
    BY <1>17 DEF Fetch, CallInv
  <2>3. PICK e \in Entry : e = StoredEntry(h) /\ e.count = hits[h]
    BY <2>2, StoredEntryType
  <2>4. e.count <= touched[h]
    <3>1. Cardinality(Reporting(h)) \in Nat
      BY ThreadCount DEF Reporting
    <3>2. hits[h] + lateHits[h] + Cardinality(Reporting(h)) <= touched[h]
      BY DEF CountInv
    <3> HIDE DEF Reporting
    <3> QED BY <1>a, <2>3, <3>1, <3>2
  <2>5. /\ key'[t] = h /\ entry'[t] = e
        /\ \A u \in Threads \ {t} : pc'[u] = pc[u] /\ key'[u] = key[u] /\ entry'[u] = entry[u]
    BY <1>17, <2>2, <2>3 DEF Fetch, TypeOK
  <2> QED BY <1>15, <1>17, <2>1, <2>4, <2>5 DEF Fetch
<1>18. ASSUME NEW t \in Threads, Fill(t) PROVE CountInv'
  <2>1. key[t] \in Hashes /\ entry[t] \in Entry /\ Home[t] \in Processes /\ HasEntry(t)
    BY <1>18, CcrAssumption DEF Fill, CallInv, HasEntry
  <2>2. /\ caches'[Home[t]][key[t]] = entry[t]
        /\ \A g \in Hashes \ {key[t]} :
             caches'[Home[t]][g] \in {caches[Home[t]][g], None}
        /\ \A q \in Processes \ {Home[t]} : caches'[q] = caches[q]
    BY <1>18, <2>1, RememberEffect DEF Fill
  <2>3. entry[t].count <= touched[key[t]] /\ touched' = touched
    BY <1>18, <2>1 DEF CountInv, Fill
  <2>4. \A p \in Processes : \A g \in Hashes :
          caches'[p][g] \in {caches[p][g], None} \/ caches'[p][g].count <= touched'[g]
    BY <2>2, <2>3
  <2>5. \A u \in Threads : HasEntry(u)' =>
          HasEntry(u) /\ key'[u] = key[u] /\ entry'[u] = entry[u]
    BY <1>18, <2>1 DEF Fill, HasEntry, TypeOK
  <2> QED BY <1>0, <1>18, <1>b, <2>4, <2>5, CountQuietly DEF Fill
<1> QED
  BY <1>1, <1>2, <1>3, <1>4, <1>5, <1>6, <1>7, <1>8, <1>9, <1>10, <1>12, <1>13,
     <1>14, <1>16, <1>17, <1>18 DEF Next

-----------------------------------------------------------------------------
(* Threads that have a process to themselves *)

\* The thread holds what the cache of its process has under its key.
HoldsCached(t) ==
  key[t] \in Cached(Local(t)) /\ Local(t)[key[t]].count = entry[t].count

\* A step of one thread, or of none, that overlooks no retrieval.
LEMMA LoneActs ==
  ASSUME LoneInv, NEW t \in Threads, missed' = missed,
         \A u \in Threads \ {t} :
           pc'[u] = pc[u] /\ key'[u] = key[u] /\ entry'[u] = entry[u],
         \A q \in Processes \ {Home[t]} : caches'[q] = caches[q],
         pc'[t] = "holding" => HoldsCached(t)'
  PROVE  LoneInv'
<1> SUFFICES ASSUME NEW u \in Threads, Lone(u)
             PROVE  /\ u \notin missed'
                    /\ pc'[u] = "holding" => HoldsCached(u)'
  BY DEF LoneInv, Lone, HoldsCached, Local
<1>1. u \notin missed'
  BY DEF LoneInv
<1>2. CASE u = t
  BY <1>1, <1>2
<1>3. CASE u # t
  <2>1. Home[u] # Home[t] /\ Home[u] \in Processes
    BY <1>3, CcrAssumption DEF Lone
  <2>2. pc[u] = "holding" => HoldsCached(u)
    BY DEF LoneInv, HoldsCached
  <2> QED BY <1>1, <1>3, <2>1, <2>2 DEF HoldsCached, Local, Cached
<1> QED BY <1>2, <1>3

\* The clock, a restart, and what the backend does.
LEMMA LoneQuietly ==
  ASSUME LoneInv, missed' = missed,
         \A t \in Threads : pc'[t] = "holding" =>
           /\ pc[t] = "holding" /\ key'[t] = key[t] /\ entry'[t] = entry[t]
           /\ caches'[Home[t]] = caches[Home[t]]
  PROVE  LoneInv'
BY DEF LoneInv, Lone, Local, Cached

LEMMA LoneStep ==
  ASSUME TypeOK, CallInv, LoneInv, [Next]_vars
  PROVE  LoneInv'
<1> USE DEF threadVars, serverVars
<1>1. CASE UNCHANGED vars
  BY <1>1, LoneQuietly DEF vars
<1>2. CASE Tick
  BY <1>2, LoneQuietly DEF Tick
<1>3. ASSUME NEW p \in Processes, Restart(p) PROVE LoneInv'
  <2>1. \A q \in Processes \ {p} : caches'[q] = caches[q]
    BY <1>3 DEF Restart, TypeOK
  <2>2. ASSUME NEW t \in Threads, pc'[t] = "holding"
        PROVE  /\ pc[t] = "holding" /\ key'[t] = key[t] /\ entry'[t] = entry[t]
               /\ Home[t] \in Processes \ {p}
    BY <1>3, <2>2, CcrAssumption DEF Restart
  <2> QED BY <1>3, <2>1, <2>2, LoneQuietly DEF Restart
<1>4. ASSUME NEW m \in late, LatePutArrives(m) PROVE LoneInv'
  BY <1>4, LoneQuietly DEF LatePutArrives
<1>5. ASSUME NEW h \in Hashes, LatePostArrives(h) PROVE LoneInv'
  BY <1>5, LoneQuietly DEF LatePostArrives
<1>6. ASSUME NEW h \in Hashes, ChunkRetrieved(h) PROVE LoneInv'
  BY <1>6, LoneQuietly DEF ChunkRetrieved
<1>7. ASSUME NEW t \in Threads, NEW h \in Hashes, NEW e \in Entry, Set(t, h, e)
      PROVE  /\ \A u \in Threads \ {t} :
                  pc'[u] = pc[u] /\ key'[u] = key[u] /\ entry'[u] = entry[u]
             /\ \A q \in Processes \ {Home[t]} : caches'[q] = caches[q]
             /\ pc'[t] = "sending"
  <2>1. Home[t] \in Processes
    BY CcrAssumption
  <2>2. \A q \in Processes \ {Home[t]} : caches'[q] = caches[q]
    BY <1>7, <2>1, RememberEffect DEF Set
  <2> QED BY <1>7, <2>2, SetCounts
<1>8. ASSUME NEW t \in Threads, NEW h \in Hashes, NEW b \in Bodies, Store(t, h, b)
      PROVE  LoneInv'
  <2>1. PICK e \in Entry : Set(t, h, e)
    <3>1. [body |-> b, born |-> now, count |-> 0] \in Entry
      BY CcrAssumption DEF Entry, TypeOK
    <3> QED BY <1>8, <3>1 DEF Store
  <2> QED BY <1>7, <1>8, <2>1, LoneActs DEF Store
<1>9. ASSUME NEW t \in Threads, Retrieve(t) PROVE LoneInv'
  <2>1. key[t] \in Hashes /\ entry[t] \in Entry
    BY <1>9 DEF Retrieve, CallInv, HasEntry
  <2>2. PICK k \in Hashes, e \in Entry :
          k = key[t] /\ e.count = entry[t].count + 1 /\ Set(t, k, e)
    <3>1. /\ [entry[t] EXCEPT !.count = @ + 1] \in Entry
          /\ [entry[t] EXCEPT !.count = @ + 1].count = entry[t].count + 1
      BY <2>1 DEF Entry
    <3> QED BY <1>9, <2>1, <3>1 DEF Retrieve
  <2>3. CASE Lone(t)
    <3>1. /\ pc[t] = "holding" /\ k \in Cached(Local(t))
          /\ Local(t)[k].count = entry[t].count
      BY <1>9, <2>2, <2>3 DEF LoneInv, Retrieve
    <3>2. Local(t)[k] # None /\ e.count > Local(t)[k].count
      BY <2>1, <2>2, <3>1 DEF Cached, Entry
    <3>3. "post" \in todo'[t]
      BY <2>2, <3>2, SetCounts DEF Requests, Retrieved
    <3>4. missed' = missed
      BY <1>9, <3>3 DEF Retrieve
    <3> QED BY <1>7, <2>2, <3>4, LoneActs
  <2>4. CASE ~Lone(t)
    <3> SUFFICES ASSUME NEW u \in Threads, Lone(u)
                 PROVE  /\ u \notin missed'
                        /\ pc'[u] = "holding" => HoldsCached(u)'
      BY DEF LoneInv, Lone, HoldsCached, Local
    <3>1. u # t
      BY <2>4
    <3>2. Home[u] # Home[t] /\ Home[u] \in Processes
      BY <3>1, CcrAssumption DEF Lone
    <3>3. u \notin missed'
      BY <1>9, <3>1 DEF Retrieve, LoneInv
    <3>4. pc[u] = "holding" => HoldsCached(u)
      BY DEF LoneInv, HoldsCached
    <3>5. /\ pc'[u] = pc[u] /\ key'[u] = key[u] /\ entry'[u] = entry[u]
          /\ caches'[Home[u]] = caches[Home[u]]
      BY <1>7, <2>2, <3>1, <3>2
    <3> QED BY <3>3, <3>4, <3>5 DEF HoldsCached, Local, Cached
  <2> QED BY <2>3, <2>4
<1>10. ASSUME NEW t \in Threads, NEW inTime \in BOOLEAN,
              PutEntry(t, inTime) \/ PostRetrieval(t, inTime)
       PROVE  LoneInv'
  BY <1>10, LoneQuietly DEF PutEntry, PostRetrieval
<1>11. ASSUME NEW t \in Threads, SetReturns(t) \/ GetFails(t) \/ Drop(t)
       PROVE  LoneInv'
  <2>1. Return(t) /\ UNCHANGED caches
    BY <1>11 DEF SetReturns, GetFails, Drop
  <2> QED BY <2>1, LoneActs DEF Return, TypeOK
<1>12. ASSUME NEW t \in Threads, NEW h \in Hashes, GetMisses(t, h)
       PROVE  LoneInv'
  <2>1. \A q \in Processes \ {Home[t]} : caches'[q] = caches[q]
    BY <1>12, CcrAssumption DEF GetMisses, TypeOK
  <2> QED BY <1>12, <2>1, LoneActs DEF GetMisses, TypeOK
<1>13. ASSUME NEW t \in Threads, NEW hs \in SUBSET Hashes, Delete(t, hs)
       PROVE  LoneInv'
  <2>1. \A q \in Processes \ {Home[t]} : caches'[q] = caches[q]
    BY <1>13, CcrAssumption DEF Delete, TypeOK
  <2>2. pc'[t] # "holding"
    BY <1>13 DEF Delete
  <2> QED BY <1>13, <2>1, <2>2, LoneActs DEF Delete
<1>14. ASSUME NEW t \in Threads, NEW h \in Hashes, GetLocal(t, h)
       PROVE  LoneInv'
  <2>1. key'[t] = h /\ entry'[t] = Local(t)[h] /\ caches' = caches
    BY <1>14 DEF GetLocal, TypeOK
  <2>2. h \in Cached(Local(t))
    BY <1>14 DEF GetLocal, Usable, Cached
  <2>3. HoldsCached(t)'
    BY <2>1, <2>2 DEF HoldsCached, Local, Cached
  <2> QED BY <1>14, <2>1, <2>3, LoneActs DEF GetLocal
<1>15. ASSUME NEW t \in Threads, Fetch(t) PROVE LoneInv'
  BY <1>15, LoneActs DEF Fetch, TypeOK
<1>16. ASSUME NEW t \in Threads, Fill(t) PROVE LoneInv'
  <2>1. key[t] \in Hashes /\ entry[t] \in Entry /\ Home[t] \in Processes
    BY <1>16, CcrAssumption DEF Fill, CallInv, HasEntry
  <2>2. /\ caches'[Home[t]][key[t]] = entry[t]
        /\ \A q \in Processes \ {Home[t]} : caches'[q] = caches[q]
    BY <1>16, <2>1, RememberEffect DEF Fill
  <2>3. entry[t] # None
    BY <2>1, CcrAssumption
  <2>4. HoldsCached(t)'
    BY <1>16, <2>1, <2>2, <2>3 DEF HoldsCached, Local, Cached, Fill
  <2> QED BY <1>16, <2>2, <2>4, LoneActs DEF Fill
<1> QED
  BY <1>1, <1>2, <1>3, <1>4, <1>5, <1>6, <1>8, <1>9, <1>10, <1>11, <1>12, <1>13,
     <1>14, <1>15, <1>16 DEF Next

-----------------------------------------------------------------------------
(* The theorems *)

\* Everything below follows from one inductive invariant: types, where a call
\* stands, what is written with what is restarted along, the counts, and what a
\* thread holds that has its process to itself.
THEOREM CacheInvariance == Spec => []IInv
<1>1. Init => IInv
  BY InitIInv
<1>2. IInv /\ [Next]_vars => IInv'
  BY TypeStep, WrittenStep, CountStep, LoneStep DEF IInv
<1> QED BY <1>1, <1>2, PTL DEF Spec

\* The caches of all processes stay within the limit, and every variable within
\* its type (ccr_backend.py, _remember).
THEOREM CacheTypeCorrect == Spec => []TypeOK
<1>1. IInv => TypeOK
  BY DEF IInv
<1> QED BY <1>1, CacheInvariance, PTL

\* Whatever a process can answer from its cache the backend has, or it is in a
\* PUT that is still to come or was lost (ccr_backend.py, set and get).
THEOREM NothingIsOnlyLocal == Spec => []NothingOnlyLocal
<1>1. IInv => NothingOnlyLocal
  <2> SUFFICES ASSUME IInv, NEW p \in Processes, NEW h \in Cached(caches[p])
               PROVE  Written(h, ContentOf[caches[p][h].body])
    BY DEF NothingOnlyLocal
  <2>1. WrittenFrom(p, h, ContentOf[caches[p][h].body])
    BY DEF IInv, WrittenInv
  <2> QED BY <2>1 DEF WrittenFrom, Written, RowHas, LateHas, Puts
<1> QED BY <1>1, CacheInvariance, PTL

\* The retrievals the backend counts, and the counts in the caches, are of
\* retrievals that were made (ccr_backend.py, _post_retrieval).
THEOREM RetrievalsAreNotInvented == Spec => []RetrievalsAreReal
<1>1. IInv => RetrievalsAreReal
  BY DEF IInv, CountInv, RetrievalsAreReal
<1> QED BY <1>1, CacheInvariance, PTL

\* A thread that shares its process with no other reports every retrieval
\* (ccr_backend.py, set after get).
THEOREM LoneRetrievalsAreNotMissed == Spec => []LoneRetrievalsAreReported
<1>1. IInv => LoneRetrievalsAreReported
  BY DEF IInv, LoneInv, Lone, TypeOK, LoneRetrievalsAreReported
<1> QED BY <1>1, CacheInvariance, PTL
=============================================================================
