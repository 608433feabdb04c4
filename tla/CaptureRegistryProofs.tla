------------------------ MODULE CaptureRegistryProofs ------------------------
(***************************************************************************)
(* Proofs about CaptureRegistry, for any requests, keys and limit: clients *)
(* may share keys, requests may be rejected, abandoned, never captured.    *)
(***************************************************************************)
EXTENDS CaptureRegistry, TLAPS

-----------------------------------------------------------------------------
(* Sequences and the two dicts *)

LEMMA EntryIn ==
  ASSUME NEW S, NEW s \in Seq(S), NEW i \in 1..Len(s)
  PROVE  s[i] \in S
OBVIOUS

\* Removing a position leaves the entries around it in their order.
LEMMA RemoveAtEntries ==
  ASSUME NEW S, NEW s \in Seq(S), NEW i \in 1..Len(s)
  PROVE  /\ RemoveAt(s, i) \in Seq(S)
         /\ Len(RemoveAt(s, i)) = Len(s) - 1
         /\ \A j \in 1..(Len(s) - 1) :
              RemoveAt(s, i)[j] = IF j < i THEN s[j] ELSE s[j + 1]
<1>1. /\ SubSeq(s, 1, i - 1) \in Seq(S) /\ Len(SubSeq(s, 1, i - 1)) = i - 1
      /\ \A j \in 1..(i - 1) : SubSeq(s, 1, i - 1)[j] = s[j]
  OBVIOUS
<1>2. /\ SubSeq(s, i + 1, Len(s)) \in Seq(S)
      /\ Len(SubSeq(s, i + 1, Len(s))) = Len(s) - i
      /\ \A j \in 1..(Len(s) - i) : SubSeq(s, i + 1, Len(s))[j] = s[i + j]
  OBVIOUS
<1> DEFINE u == SubSeq(s, 1, i - 1)
           v == SubSeq(s, i + 1, Len(s))
<1>3. RemoveAt(s, i) = u \o v
  BY DEF RemoveAt
<1>4. u \in Seq(S) /\ v \in Seq(S) /\ Len(u) = i - 1 /\ Len(v) = Len(s) - i
  BY <1>1, <1>2
<1> HIDE DEF u, v
<1>5. /\ u \o v \in Seq(S) /\ Len(u \o v) = Len(s) - 1
      /\ \A j \in 1..(Len(s) - 1) :
           (u \o v)[j] = IF j < i THEN u[j] ELSE v[j - (i - 1)]
  <2>1. u \o v \in Seq(S)
    BY <1>4
  <2>2. Len(u \o v) = Len(u) + Len(v)
    BY <1>4
  <2>3. \A j \in 1..(Len(u) + Len(v)) :
          (u \o v)[j] = IF j <= Len(u) THEN u[j] ELSE v[j - Len(u)]
    BY <1>4
  <2>4. Len(s) \in Nat /\ Len(u) + Len(v) = Len(s) - 1
    BY <1>4
  <2> QED BY <1>4, <2>1, <2>2, <2>3, <2>4
<1>6. \A j \in 1..(Len(s) - 1) : j < i => u[j] = s[j]
  BY <1>1 DEF u
<1>7. \A j \in 1..(Len(s) - 1) : ~(j < i) => v[j - (i - 1)] = s[j + 1]
  <2> SUFFICES ASSUME NEW j \in 1..(Len(s) - 1), ~(j < i)
               PROVE  v[j - (i - 1)] = s[j + 1]
    OBVIOUS
  <2>1. j - (i - 1) \in 1..(Len(s) - i) /\ i + (j - (i - 1)) = j + 1
    OBVIOUS
  <2> QED BY <2>1, <1>2 DEF v
<1> QED
  BY <1>3, <1>5, <1>6, <1>7

\* A dict holds a key once.
Distinct(d) ==
  \A i, j \in 1..Len(d) : KeyOf[d[i].of] = KeyOf[d[j].of] => i = j

\* d.pop of the entry at a position.
LEMMA DictRemove ==
  ASSUME NEW S, NEW d \in Seq(S), Distinct(d), NEW i \in 1..Len(d)
  PROVE  /\ RemoveAt(d, i) \in Seq(S)
         /\ Len(RemoveAt(d, i)) = Len(d) - 1
         /\ Distinct(RemoveAt(d, i))
         /\ Owners(RemoveAt(d, i)) = Owners(d) \ {d[i].of}
         /\ At(RemoveAt(d, i), KeyOf[d[i].of]) = {}
<1> DEFINE e == RemoveAt(d, i)
<1>1. /\ e \in Seq(S) /\ Len(e) = Len(d) - 1
      /\ \A j \in 1..(Len(d) - 1) : e[j] = IF j < i THEN d[j] ELSE d[j + 1]
  BY RemoveAtEntries
<1> HIDE DEF e
<1>2. Len(d) \in Nat /\ Len(e) = Len(d) - 1
  BY <1>1
<1>3. \A j \in 1..Len(e) : \E k \in 1..Len(d) : k # i /\ e[j] = d[k]
  <2> SUFFICES ASSUME NEW j \in 1..Len(e)
               PROVE  \E k \in 1..Len(d) : k # i /\ e[j] = d[k]
    OBVIOUS
  <2>1. CASE j < i
    BY <2>1, <1>1, <1>2
  <2>2. CASE ~(j < i)
    <3>1. j + 1 \in 1..Len(d) /\ j + 1 # i /\ e[j] = d[j + 1]
      BY <2>2, <1>1, <1>2
    <3> QED BY <3>1
  <2> QED BY <2>1, <2>2
<1>4. \A k \in 1..Len(d) : k # i => \E j \in 1..Len(e) : e[j] = d[k]
  <2> SUFFICES ASSUME NEW k \in 1..Len(d), k # i
               PROVE  \E j \in 1..Len(e) : e[j] = d[k]
    OBVIOUS
  <2>1. CASE k < i
    <3>1. k \in 1..Len(e) /\ e[k] = d[k]
      BY <2>1, <1>1, <1>2
    <3> QED BY <3>1
  <2>2. CASE ~(k < i)
    <3>1. k - 1 \in 1..Len(e) /\ ~(k - 1 < i) /\ (k - 1) + 1 = k
      BY <2>2, <1>2
    <3>2. e[k - 1] = d[k]
      BY <3>1, <1>1, <1>2
    <3> QED BY <3>1, <3>2
  <2> QED BY <2>1, <2>2
<1>5. Distinct(e)
  <2> SUFFICES ASSUME NEW j \in 1..Len(e), NEW k \in 1..Len(e),
                      KeyOf[e[j].of] = KeyOf[e[k].of]
               PROVE  j = k
    BY DEF Distinct
  <2> DEFINE P(n) == IF n < i THEN n ELSE n + 1
  <2>1. /\ P(j) \in 1..Len(d) /\ e[j] = d[P(j)]
        /\ P(k) \in 1..Len(d) /\ e[k] = d[P(k)]
    BY <1>1, <1>2
  <2>2. P(j) = P(k)
    BY <2>1 DEF Distinct
  <2> QED BY <2>2, <1>2
<1>6. Owners(e) = Owners(d) \ {d[i].of}
  <2>1. \A k \in 1..Len(d) : k # i => d[k].of # d[i].of
    BY DEF Distinct
  <2>2. Owners(e) \subseteq Owners(d) \ {d[i].of}
    BY <2>1, <1>3 DEF Owners
  <2>3. Owners(d) \ {d[i].of} \subseteq Owners(e)
    <3> SUFFICES ASSUME NEW o \in Owners(d), o # d[i].of PROVE o \in Owners(e)
      OBVIOUS
    <3>1. PICK k \in 1..Len(d) : d[k].of = o
      BY DEF Owners
    <3>2. PICK j \in 1..Len(e) : e[j] = d[k]
      BY <3>1, <1>4
    <3> QED BY <3>1, <3>2 DEF Owners
  <2> QED BY <2>2, <2>3
<1>7. At(e, KeyOf[d[i].of]) = {}
  BY <1>3 DEF At, Distinct
<1> QED BY <1>1, <1>5, <1>6, <1>7 DEF e

\* Making room for one more entry.
LEMMA DictRoom ==
  ASSUME NEW S, NEW d \in Seq(S), Distinct(d), Len(d) <= MaxPending
  PROVE  /\ MakeRoom(d) \in Seq(S) /\ Len(MakeRoom(d)) < MaxPending
         /\ Distinct(MakeRoom(d))
         /\ Owners(MakeRoom(d)) \subseteq Owners(d)
<1> USE RegistryAssumption
<1>1. CASE Len(d) >= MaxPending
  <2> DEFINE e == Tail(d)
  <2>1. Len(d) \in Nat /\ Len(d) >= 1
    BY <1>1
  <2>2. /\ e \in Seq(S) /\ Len(e) = Len(d) - 1
        /\ \A j \in 1..(Len(d) - 1) : e[j] = d[j + 1]
    BY <2>1
  <2> HIDE DEF e
  <2>3. Distinct(e)
    <3> SUFFICES ASSUME NEW j \in 1..Len(e), NEW k \in 1..Len(e),
                        KeyOf[e[j].of] = KeyOf[e[k].of]
                 PROVE  j = k
      BY DEF Distinct
    <3>1. /\ j + 1 \in 1..Len(d) /\ e[j] = d[j + 1]
          /\ k + 1 \in 1..Len(d) /\ e[k] = d[k + 1]
      BY <2>1, <2>2
    <3>2. j + 1 = k + 1
      BY <3>1 DEF Distinct
    <3> QED BY <3>2, <2>1, <2>2
  <2>4. Owners(e) \subseteq Owners(d)
    <3> SUFFICES ASSUME NEW j \in 1..Len(e) PROVE e[j].of \in Owners(d)
      BY DEF Owners
    <3>1. j + 1 \in 1..Len(d) /\ e[j] = d[j + 1]
      BY <2>1, <2>2
    <3> QED BY <3>1 DEF Owners
  <2>5. MakeRoom(d) = e
    BY <1>1 DEF MakeRoom, e
  <2> QED BY <2>1, <2>2, <2>3, <2>4, <2>5, <1>1
<1>2. CASE ~(Len(d) >= MaxPending)
  BY <1>2 DEF MakeRoom
<1> QED BY <1>1, <1>2

\* d[k] = v when there is room for it.
LEMMA DictPut ==
  ASSUME NEW S, NEW d \in Seq(S), Distinct(d), Len(d) < MaxPending, NEW v \in S
  PROVE  /\ Put(d, v) \in Seq(S) /\ Len(Put(d, v)) <= MaxPending
         /\ Distinct(Put(d, v))
         /\ Owners(Put(d, v)) \subseteq Owners(d) \cup {v.of}
         /\ v.of \in Owners(Put(d, v))
<1> USE RegistryAssumption
<1> DEFINE e == Put(d, v)
<1>1. CASE At(d, KeyOf[v.of]) = {}
  <2>1. e = Append(d, v)
    BY <1>1 DEF Put
  <2>2. Len(d) \in Nat
    OBVIOUS
  <2>3. /\ e \in Seq(S) /\ Len(e) = Len(d) + 1 /\ e[Len(d) + 1] = v
        /\ \A j \in 1..Len(d) : e[j] = d[j]
    BY <2>1
  <2>4. \A j \in 1..Len(d) : KeyOf[d[j].of] # KeyOf[v.of]
    BY <1>1 DEF At
  <2> HIDE DEF e
  <2>5. \A j \in 1..Len(e) : j \in 1..Len(d) \/ j = Len(d) + 1
    BY <2>2, <2>3
  <2>6. Distinct(e)
    BY <2>3, <2>4, <2>5 DEF Distinct
  <2>7. Owners(e) \subseteq Owners(d) \cup {v.of} /\ v.of \in Owners(e)
    <3>1. Len(d) + 1 \in 1..Len(e)
      BY <2>2, <2>3
    <3> QED BY <3>1, <2>3, <2>5 DEF Owners
  <2>8. Len(e) <= MaxPending
    BY <2>2, <2>3
  <2> QED BY <2>3, <2>6, <2>7, <2>8 DEF e
<1>2. CASE At(d, KeyOf[v.of]) # {}
  <2>1. e = [i \in DOMAIN d |-> IF KeyOf[d[i].of] = KeyOf[v.of] THEN v ELSE d[i]]
    BY <1>2 DEF Put
  <2>2. Len(d) \in Nat /\ DOMAIN d = 1..Len(d) /\ \A i \in 1..Len(d) : d[i] \in S
    OBVIOUS
  <2> HIDE DEF e
  <2>3. \A i \in 1..Len(d) :
          e[i] = IF KeyOf[d[i].of] = KeyOf[v.of] THEN v ELSE d[i]
    BY <2>1, <2>2
  <2>4. e \in [1..Len(d) -> S]
    BY <2>1, <2>2
  <2>5. e \in Seq(S) /\ Len(e) = Len(d)
    BY <2>2, <2>4
  <2>6. Distinct(e)
    BY <2>3, <2>5 DEF Distinct
  <2>7. PICK i \in 1..Len(d) : KeyOf[d[i].of] = KeyOf[v.of]
    BY <1>2 DEF At
  <2>8. Owners(e) \subseteq Owners(d) \cup {v.of} /\ v.of \in Owners(e)
    BY <2>3, <2>5, <2>7 DEF Owners
  <2>9. Len(e) <= MaxPending
    BY <2>2, <2>5
  <2> QED BY <2>5, <2>6, <2>8, <2>9 DEF e
<1> QED BY <1>1, <1>2

-----------------------------------------------------------------------------
(* The inductive invariant *)

\* What a request's stage says of its key and of the callbacks it awaits.
Staged ==
  \A r \in Requests :
    /\ r \in keyed => stage[r] \in {"calling", "succeeded", "failed", "abandoned"}
    /\ due[r] # {} => stage[r] \in {"rejected", "succeeded", "failed"}
    /\ stage[r] = "rejected" => due[r] \subseteq {"hook"}
    /\ FinalStreamSuccess(r) => due[r] \subseteq {"log"}

\* Captures, in the dict and in commands, come from pre-call hooks.
CapturesAreMade ==
  /\ Owners(pending) \subseteq keyed
  /\ \A r \in Requests : Used(r) \subseteq keyed

Dicts == Distinct(pending) /\ Distinct(shapes)

IInv ==
  /\ TypeOK /\ Dicts /\ Staged /\ CapturesAreMade
  /\ ReportedOnce /\ CaptureUsedOnce /\ NoCaptureOutlivesItsAnswer
  /\ CapturesStayHome /\ ShapesAreReleased

\* The parts of IInv that relate what has been posted to what is remembered.
Ledger ==
  /\ CapturesAreMade /\ CaptureUsedOnce /\ NoCaptureOutlivesItsAnswer
  /\ CapturesStayHome /\ ShapesAreReleased

\* The callback that posts a request's command.
Poster(r) == IF FinalStreamSuccess(r) THEN "log" ELSE "hook"

LEMMA Initially == Init => IInv
<1> SUFFICES ASSUME Init PROVE IInv
  OBVIOUS
<1> USE RegistryAssumption DEF Init
<1>1. TypeOK
  <2>1. Len(<<>>) <= MaxPending
    OBVIOUS
  <2> QED BY <2>1 DEF TypeOK
<1>2. Owners(pending) = {} /\ Owners(shapes) = {} /\ Dicts
  BY DEF Owners, Dicts, Distinct
<1>3. \A r \in Requests : Used(r) = {} /\ commands[r] = <<>> /\ ~Reported(r)
  BY DEF Used, Reported
<1>4. Staged
  BY DEF Staged, FinalStreamSuccess
<1>5. ReportedOnce
  BY <1>3 DEF ReportedOnce
<1>6. CapturesAreMade /\ CaptureUsedOnce /\ NoCaptureOutlivesItsAnswer
  BY <1>2, <1>3 DEF CapturesAreMade, CaptureUsedOnce, NoCaptureOutlivesItsAnswer
<1>7. CapturesStayHome /\ ShapesAreReleased
  BY <1>2, <1>3 DEF CapturesStayHome, ShapesAreReleased
<1> QED BY <1>1, <1>2, <1>4, <1>5, <1>6, <1>7 DEF IInv

\* A step that posts nothing, forgets no key and no report, and whose captures
\* are the old ones less some, keeps the ledger: what it takes away vanishes.
LEMMA NothingPosted ==
  ASSUME Ledger, TypeOK, commands' = commands, keyed' = keyed,
         Owners(pending)' \subseteq Owners(pending),
         Owners(shapes)' \subseteq Owners(shapes)
           \cup {r \in Requests : commands[r] = <<>>},
         \A r \in Requests : Reported(r) => Reported(r)'
  PROVE  Ledger'
<1>1. \A r \in Requests : Used(r)' = Used(r)
  BY DEF Used
<1>2. CapturesAreMade' /\ CaptureUsedOnce' /\ NoCaptureOutlivesItsAnswer'
  <2>1. CapturesAreMade'
    BY <1>1 DEF Ledger, CapturesAreMade
  <2>2. CaptureUsedOnce'
    BY <1>1 DEF Ledger, CaptureUsedOnce
  <2>3. NoCaptureOutlivesItsAnswer'
    BY DEF Ledger, NoCaptureOutlivesItsAnswer
  <2> QED BY <2>1, <2>2, <2>3
<1>3. Disturbed => Disturbed'
  <2> SUFFICES ASSUME NEW r \in Requests,
                      Vanished(r) \/ (Reported(r) /\ r \notin keyed)
               PROVE  Vanished(r)' \/ (Reported(r)' /\ r \notin keyed')
    BY DEF Disturbed
  <2>1. CASE Vanished(r)
    BY <2>1, <1>1 DEF Vanished
  <2>2. CASE Reported(r) /\ r \notin keyed
    BY <2>2
  <2> QED BY <2>1, <2>2
<1>4. CapturesStayHome'
  BY <1>1, <1>3 DEF Ledger, CapturesStayHome
<1>5. ShapesAreReleased'
  BY <1>3 DEF Ledger, ShapesAreReleased
<1> QED BY <1>2, <1>4, <1>5 DEF Ledger

\* Only stages and awaited callbacks change, and no report is undone.
LEMMA StageStep ==
  ASSUME IInv, NEW r \in Requests, NEW st, NEW d,
         UNCHANGED <<keyed, pending, shapes, commands>>,
         stage' = [stage EXCEPT ![r] = st], due' = [due EXCEPT ![r] = d],
         ~Reported(r), ~Reported(r)', TypeOK', Staged'
  PROVE  IInv'
<1> USE DEF IInv
<1>1. \A q \in Requests : Reported(q)' = Reported(q)
  <2>1. \A q \in Requests \ {r} : stage'[q] = stage[q] /\ due'[q] = due[q]
    BY DEF TypeOK
  <2> QED BY <2>1 DEF Reported, FinalStreamSuccess
<1>2. Dicts'
  BY DEF Dicts, Distinct
<1>3. ReportedOnce'
  BY <1>1 DEF ReportedOnce
<1>4. Ledger'
  <2>1. Ledger
    BY DEF Ledger
  <2>2. Owners(pending)' = Owners(pending) /\ Owners(shapes)' = Owners(shapes)
    BY DEF Owners
  <2> QED BY <2>1, <2>2, <1>1, NothingPosted
<1> QED BY <1>2, <1>3, <1>4 DEF Ledger

\* Enriching changes no dict's keys.
LEMMA EnrichEffect ==
  ASSUME TypeOK, Dicts, NEW r \in Requests, Enrich(r)
  PROVE  /\ pending' \in Seq(Capture) /\ Len(pending') = Len(pending)
         /\ Distinct(pending)' /\ Owners(pending)' = Owners(pending)
<1>1. Len(pending) \in Nat /\ DOMAIN pending = 1..Len(pending)
  BY DEF TypeOK
<1>2. \A i \in 1..Len(pending) : pending[i] \in Capture
  BY DEF TypeOK
<1>3. \A c \in Capture : WithContext(c, r) \in Capture /\ WithContext(c, r).of = c.of
  BY DEF Capture, WithContext
<1>4. pending' \in [1..Len(pending) -> Capture]
  BY <1>1, <1>2, <1>3 DEF Enrich
<1>5. \A i \in 1..Len(pending) : pending'[i].of = pending[i].of
  BY <1>1, <1>2, <1>3 DEF Enrich
<1>6. pending' \in Seq(Capture) /\ Len(pending') = Len(pending)
  BY <1>1, <1>4
<1> QED BY <1>5, <1>6 DEF Dicts, Distinct, Owners

\* A log event that only enriches.
LEMMA EnrichStep ==
  ASSUME IInv, NEW r \in Requests, Enrich(r),
         UNCHANGED <<stage, keyed, shapes, commands>>,
         due' \in [Requests -> SUBSET {"hook", "log"}],
         \A q \in Requests : due'[q] \subseteq due[q],
         \A q \in Requests : Reported(q)' = Reported(q)
  PROVE  IInv'
<1> USE DEF IInv
<1>1. /\ pending' \in Seq(Capture) /\ Len(pending') = Len(pending)
      /\ Distinct(pending)' /\ Owners(pending)' = Owners(pending)
  BY EnrichEffect
<1>2. TypeOK'
  BY <1>1 DEF TypeOK
<1>3. Dicts'
  BY <1>1 DEF Dicts, Distinct
<1>4. Staged'
  BY DEF Staged, FinalStreamSuccess
<1>5. ReportedOnce'
  BY DEF ReportedOnce
<1>6. Ledger'
  <2>1. Ledger
    BY DEF Ledger
  <2>2. Owners(shapes)' = Owners(shapes)
    BY DEF Owners
  <2> QED BY <1>1, <2>1, <2>2, NothingPosted
<1> QED BY <1>2, <1>3, <1>4, <1>5, <1>6 DEF Ledger

LEMMA DeployStep ==
  ASSUME IInv, NEW r \in Requests, Deploy(r)
  PROVE  IInv'
<1> USE DEF IInv
<1> DEFINE room == MakeRoom(shapes)
<1>0. [of |-> r] \in [of : Responses]
  BY DEF Deploy
<1>1. /\ room \in Seq([of : Responses]) /\ Len(room) < MaxPending
      /\ Distinct(room) /\ Owners(room) \subseteq Owners(shapes)
  BY DictRoom DEF TypeOK, Dicts
<1>2. shapes' = Put(room, [of |-> r])
  BY DEF Deploy
<1>3. /\ shapes' \in Seq([of : Responses]) /\ Len(shapes') <= MaxPending
      /\ Distinct(shapes') /\ Owners(shapes') \subseteq Owners(room) \cup {r}
  <2> HIDE DEF room
  <2> QED BY <1>0, <1>1, <1>2, DictPut
<1>4. TypeOK'
  BY <1>3 DEF TypeOK, Deploy
<1>5. Dicts'
  BY <1>3 DEF Dicts, Distinct, Deploy
<1>6. Staged'
  BY DEF Staged, FinalStreamSuccess, Deploy
<1>7. \A q \in Requests : Reported(q)' = Reported(q)
  BY DEF Reported, FinalStreamSuccess, Deploy
<1>8. ReportedOnce'
  BY <1>7 DEF ReportedOnce, Deploy
<1>9. Ledger'
  <2>1. ~Reported(r)
    BY DEF Reported, Deploy
  <2>2. commands[r] = <<>>
    BY <2>1 DEF ReportedOnce, TypeOK
  <2>3. Owners(shapes)' \subseteq Owners(shapes) \cup {q \in Requests : commands[q] = <<>>}
    BY <1>1, <1>3, <2>2 DEF Owners
  <2>4. Ledger /\ Owners(pending)' = Owners(pending)
    BY DEF Ledger, Owners, Deploy
  <2> QED BY <1>7, <2>3, <2>4, NothingPosted DEF Deploy
<1> QED BY <1>4, <1>5, <1>6, <1>8, <1>9 DEF Ledger

LEMMA PreCallStep ==
  ASSUME IInv, NEW r \in Requests, PreCall(r)
  PROVE  IInv'
<1> USE DEF IInv
<1> DEFINE room == MakeRoom(pending)
           c == [of |-> r, mixed |-> FALSE]
<1>0. c \in Capture /\ c.of = r
  BY DEF Capture
<1>1. /\ room \in Seq(Capture) /\ Len(room) < MaxPending
      /\ Distinct(room) /\ Owners(room) \subseteq Owners(pending)
  BY DictRoom DEF TypeOK, Dicts
<1>2. pending' = Put(room, c)
  BY DEF PreCall, Remember
<1>3. /\ pending' \in Seq(Capture) /\ Len(pending') <= MaxPending
      /\ Distinct(pending') /\ Owners(pending') \subseteq Owners(room) \cup {r}
      /\ r \in Owners(pending')
  <2> HIDE DEF room, c
  <2> QED BY <1>0, <1>1, <1>2, DictPut
<1>4. TypeOK'
  BY <1>3 DEF TypeOK, PreCall
<1>5. Dicts'
  BY <1>3 DEF Dicts, Distinct, PreCall
<1>6. Staged'
  BY DEF Staged, FinalStreamSuccess, PreCall, TypeOK
<1>7. /\ r \notin keyed /\ ~Reported(r) /\ commands[r] = <<>>
      /\ \A q \in Requests : Reported(q)' = Reported(q)
  <2>1. r \notin keyed /\ ~Reported(r)
    BY DEF Staged, PreCall, Reported
  <2>2. commands[r] = <<>>
    BY <2>1 DEF ReportedOnce, TypeOK
  <2>3. \A q \in Requests : Reported(q)' = Reported(q)
    BY DEF Reported, FinalStreamSuccess, PreCall, TypeOK
  <2> QED BY <2>1, <2>2, <2>3
<1>8. ReportedOnce'
  BY <1>7 DEF ReportedOnce, PreCall
<1>9. \A q \in Requests : Used(q)' = Used(q) /\ r \notin Used(q)
  BY <1>7 DEF Used, PreCall, CapturesAreMade
<1>10. Owners(pending)' \subseteq Owners(pending) \cup {r}
  BY <1>1, <1>3 DEF Owners
<1>11. keyed' = keyed \cup {r} /\ commands' = commands
  BY DEF PreCall
<1>12. CapturesAreMade' /\ CaptureUsedOnce' /\ NoCaptureOutlivesItsAnswer'
  <2>1. CapturesAreMade'
    BY <1>9, <1>10, <1>11 DEF CapturesAreMade
  <2>2. CaptureUsedOnce'
    BY <1>9, <1>10 DEF CaptureUsedOnce
  <2>3. NoCaptureOutlivesItsAnswer'
    BY <1>7, <1>10, <1>11 DEF NoCaptureOutlivesItsAnswer
  <2> QED BY <2>1, <2>2, <2>3
<1>13. Disturbed => Disturbed'
  <2> SUFFICES ASSUME NEW q \in Requests,
                      Vanished(q) \/ (Reported(q) /\ q \notin keyed)
               PROVE  Vanished(q)' \/ (Reported(q)' /\ q \notin keyed')
    BY DEF Disturbed
  <2>1. CASE Vanished(q)
    BY <2>1, <1>7, <1>9, <1>10, <1>11 DEF Vanished
  <2>2. CASE Reported(q) /\ q \notin keyed
    BY <2>2, <1>7, <1>11
  <2> QED BY <2>1, <2>2
<1>14. CapturesStayHome'
  BY <1>9, <1>11, <1>13 DEF CapturesStayHome
<1>15. ShapesAreReleased'
  <2>1. Owners(shapes)' = Owners(shapes)
    BY DEF Owners, PreCall
  <2> QED BY <2>1, <1>11, <1>13 DEF ShapesAreReleased
<1> QED BY <1>4, <1>5, <1>6, <1>8, <1>12, <1>14, <1>15

\* What posting under a key does to the shapes and to the request's commands.
LEMMA PostEffect ==
  ASSUME TypeOK, Dicts, NEW r \in Requests, commands[r] = <<>>,
         NEW from \in Requests \cup {None}, NEW k \in Keys, NEW mixed \in BOOLEAN,
         Post(r, from, k, mixed)
  PROVE  /\ commands' \in [Requests -> Seq(Command)]
         /\ \A q \in Requests \ {r} : commands'[q] = commands[q]
         /\ Len(commands'[r]) = 1 /\ commands'[r][1].capture = from
         /\ commands'[r] # <<>>
         /\ shapes' \in Seq([of : Responses]) /\ Len(shapes') <= MaxPending
         /\ Distinct(shapes')
         /\ Owners(shapes') \subseteq Owners(shapes)
         /\ \A o \in Owners(shapes') : KeyOf[o] # k
<1> USE RegistryAssumption
<1>1. PICK s \in IF At(shapes, k) = {} THEN {None}
                 ELSE {shapes[i].of : i \in At(shapes, k)} :
        commands' = [commands EXCEPT ![r] = Append(@,
          [capture |-> from, key |-> k, mixed |-> mixed, shape |-> s])]
  BY DEF Post
<1>2. s \in Requests \cup {None}
  <2>1. \A i \in At(shapes, k) : shapes[i].of \in Requests
    <3>1. Responses \subseteq Requests
      OBVIOUS
    <3>2. \A i \in 1..Len(shapes) : shapes[i] \in [of : Responses]
      <4>1. shapes \in Seq([of : Responses])
        BY DEF TypeOK
      <4> QED BY <4>1, EntryIn
    <3> QED BY <3>1, <3>2 DEF At
  <2> QED BY <1>1, <2>1
<1> DEFINE c == [capture |-> from, key |-> k, mixed |-> mixed, shape |-> s]
<1>3. c \in Command /\ c.capture = from
  BY <1>2 DEF Command
<1>4. commands' = [commands EXCEPT ![r] = Append(<<>>, c)]
  BY <1>1
<1> HIDE DEF c
<1>5. Append(<<>>, c) \in Seq(Command) /\ Len(Append(<<>>, c)) = 1
      /\ Append(<<>>, c)[1] = c
  BY <1>3
<1>6. /\ commands' \in [Requests -> Seq(Command)]
      /\ \A q \in Requests \ {r} : commands'[q] = commands[q]
      /\ Len(commands'[r]) = 1 /\ commands'[r][1].capture = from
      /\ commands'[r] # <<>>
  BY <1>3, <1>4, <1>5 DEF TypeOK
<1>7. Release(k)
  BY DEF Post
<1>8. /\ shapes' \in Seq([of : Responses]) /\ Len(shapes') <= MaxPending
      /\ Distinct(shapes')
      /\ Owners(shapes') \subseteq Owners(shapes)
      /\ \A o \in Owners(shapes') : KeyOf[o] # k
  <2>1. CASE At(shapes, k) = {}
    BY <2>1, <1>7 DEF Release, At, Owners, TypeOK, Dicts
  <2>2. CASE At(shapes, k) # {}
    <3>1. PICK i \in At(shapes, k) : shapes' = RemoveAt(shapes, i)
      BY <2>2, <1>7 DEF Release
    <3>2. i \in 1..Len(shapes) /\ KeyOf[shapes[i].of] = k
      BY <3>1 DEF At
    <3>3. shapes \in Seq([of : Responses]) /\ Distinct(shapes)
          /\ Len(shapes) <= MaxPending /\ Len(shapes) \in Nat
      BY DEF TypeOK, Dicts
    <3>4. /\ shapes' \in Seq([of : Responses])
          /\ Len(shapes') = Len(shapes) - 1
          /\ Distinct(shapes')
          /\ Owners(shapes') = Owners(shapes) \ {shapes[i].of}
          /\ At(shapes', k) = {}
      BY <3>1, <3>2, <3>3, DictRemove
    <3>5. \A o \in Owners(shapes') : KeyOf[o] # k
      BY <3>4 DEF At, Owners
    <3> QED BY <3>3, <3>4, <3>5
  <2> QED BY <2>1, <2>2
<1> QED BY <1>6, <1>8

\* What the posting callback does: it takes the request's own capture if that
\* is pending, and posts once unless there is nothing to post.
LEMMA ReportEffect ==
  ASSUME IInv, NEW r \in Requests, ~Reported(r), Report(r)
  PROVE  \E got \in SUBSET Requests :
           /\ pending' \in Seq(Capture) /\ Len(pending') <= MaxPending
           /\ Distinct(pending')
           /\ got \subseteq Owners(pending)
           /\ Owners(pending') = Owners(pending) \ got
           /\ r \in Owners(pending) /\ r \in keyed =>
                r \notin Owners(pending') /\ got = {r}
           /\ commands' \in [Requests -> Seq(Command)]
           /\ \A q \in Requests \ {r} : commands'[q] = commands[q]
           /\ Len(commands'[r]) <= 1
           /\ commands'[r] # <<>> \/ r \in Bare
           /\ Used(r)' = got
           /\ shapes' \in Seq([of : Responses]) /\ Len(shapes') <= MaxPending
           /\ Distinct(shapes') /\ Owners(shapes') \subseteq Owners(shapes)
           /\ got = {r} => r \notin Owners(shapes')
<1> USE RegistryAssumption
<1>1. TypeOK /\ Dicts /\ commands[r] = <<>>
  BY DEF IInv, ReportedOnce, TypeOK
<1>2. /\ pending \in Seq(Capture) /\ Len(pending) <= MaxPending
      /\ Len(pending) \in Nat /\ Distinct(pending)
  BY <1>1 DEF TypeOK, Dicts
<1>3. /\ Chosen(r) \subseteq 1..Len(pending)
      /\ \A i \in 1..Len(pending) : pending[i].of = r /\ r \in keyed =>
           Chosen(r) = {i}
  <2>1. Own(r) \subseteq 1..Len(pending)
    BY DEF Own, At
  <2>2. Chosen(r) \subseteq 1..Len(pending)
    BY <1>2, <2>1 DEF Chosen
  <2>3. ASSUME NEW i \in 1..Len(pending), pending[i].of = r, r \in keyed
        PROVE  Chosen(r) = {i}
    <3>1. Own(r) = {i}
      BY <2>3, <1>2 DEF Own, At, Distinct
    <3> QED BY <3>1 DEF Chosen
  <2> QED BY <2>2, <2>3
<1>4. CASE PopAndPost(r)
  <2>1. PICK i \in Chosen(r) :
          LET c == WithContext(pending[i], r)
          IN  /\ pending' = RemoveAt(pending, i)
              /\ Post(r, c.of, KeyOf[c.of], c.mixed)
    BY <1>4 DEF PopAndPost
  <2> DEFINE c == WithContext(pending[i], r)
             m == pending[i].of
  <2>2. i \in 1..Len(pending) /\ pending[i] \in Capture
    BY <1>2, <1>3, <2>1
  <2>3. c.of = m /\ m \in Requests /\ m \in Requests \cup {None} /\ c.mixed \in BOOLEAN /\ KeyOf[m] \in Keys
    BY <2>2 DEF Capture, WithContext
  <2>4. Post(r, m, KeyOf[m], c.mixed) /\ pending' = RemoveAt(pending, i)
    BY <2>1, <2>3
  <2> HIDE DEF c, m
  <2>40. PICK from \in Requests, k \in Keys, mixed \in BOOLEAN :
           from = m /\ k = KeyOf[m] /\ Post(r, from, k, mixed)
    BY <2>3, <2>4
  <2>41. from \in Requests \cup {None}
    OBVIOUS
  <2>5. /\ commands' \in [Requests -> Seq(Command)]
        /\ \A q \in Requests \ {r} : commands'[q] = commands[q]
        /\ Len(commands'[r]) = 1 /\ commands'[r][1].capture = m
        /\ commands'[r] # <<>>
        /\ shapes' \in Seq([of : Responses]) /\ Len(shapes') <= MaxPending
        /\ Distinct(shapes')
        /\ Owners(shapes') \subseteq Owners(shapes)
        /\ \A o \in Owners(shapes') : KeyOf[o] # KeyOf[m]
    <3>1. /\ commands' \in [Requests -> Seq(Command)]
          /\ \A q \in Requests \ {r} : commands'[q] = commands[q]
          /\ Len(commands'[r]) = 1 /\ commands'[r][1].capture = from
          /\ commands'[r] # <<>>
          /\ shapes' \in Seq([of : Responses]) /\ Len(shapes') <= MaxPending
          /\ Distinct(shapes')
          /\ Owners(shapes') \subseteq Owners(shapes)
          /\ \A o \in Owners(shapes') : KeyOf[o] # k
      <4>1. CASE mixed = TRUE
        <5>1. Post(r, from, k, TRUE)
          BY <2>40, <4>1
        <5> QED BY <1>1, <2>41, <5>1, PostEffect
      <4>2. CASE mixed = FALSE
        <5>1. Post(r, from, k, FALSE)
          BY <2>40, <4>2
        <5> QED BY <1>1, <2>41, <5>1, PostEffect
      <4> QED BY <4>1, <4>2
    <3> QED BY <3>1, <2>40
  <2>6. /\ pending' \in Seq(Capture) /\ Len(pending') = Len(pending) - 1
        /\ Distinct(pending') /\ Owners(pending') = Owners(pending) \ {m}
    BY <1>2, <2>2, <2>4, DictRemove DEF m
  <2>7. Used(r)' = {m}
    BY <2>3, <2>5 DEF Used
  <2>8. m \in Owners(pending)
    BY <2>2 DEF Owners, m
  <2>9. r \in Owners(pending) /\ r \in keyed => m = r
    BY <1>3, <2>1 DEF Owners, m
  <2>10. commands'[r] # <<>> /\ Len(pending') <= MaxPending
    BY <1>2, <2>5, <2>6
  <2>11. {m} \in SUBSET Requests
    BY <2>3
  <2>12. {m} = {r} => r \notin Owners(shapes')
    BY <2>5
  <2> WITNESS {m} \in SUBSET Requests
  <2>13. r \in Owners(pending) /\ r \in keyed => r \notin Owners(pending') /\ {m} = {r}
    BY <2>6, <2>9
  <2>14. {m} \subseteq Owners(pending) /\ Len(commands'[r]) <= 1
    BY <2>5, <2>8
  <2> QED BY <2>5, <2>6, <2>7, <2>10, <2>12, <2>13, <2>14
<1>5. ASSUME Chosen(r) = {} PROVE ~(r \in Owners(pending) /\ r \in keyed)
  BY <1>3, <1>5 DEF Owners
<1>6. CASE PostUncaptured(r)
  <2>1. Post(r, None, KeyOf[r], FALSE) /\ pending' = pending /\ KeyOf[r] \in Keys
    BY <1>6 DEF PostUncaptured
  <2>2. /\ commands' \in [Requests -> Seq(Command)]
        /\ \A q \in Requests \ {r} : commands'[q] = commands[q]
        /\ Len(commands'[r]) = 1 /\ commands'[r][1].capture = None
        /\ commands'[r] # <<>>
        /\ shapes' \in Seq([of : Responses]) /\ Len(shapes') <= MaxPending
        /\ Distinct(shapes')
        /\ Owners(shapes') \subseteq Owners(shapes)
    BY <1>1, <2>1, PostEffect
  <2>3. Used(r)' = {}
    BY <2>2 DEF Used
  <2>4. commands'[r] # <<>> /\ Owners(pending') = Owners(pending)
    BY <2>1, <2>2
  <2> WITNESS {} \in SUBSET Requests
  <2> QED BY <1>2, <1>5, <1>6, <2>1, <2>2, <2>3, <2>4 DEF PostUncaptured
<1>7. CASE PostNothing(r)
  <2>1. /\ pending' = pending /\ shapes' = shapes /\ commands' = commands
        /\ r \in Bare /\ Chosen(r) = {}
    BY <1>7 DEF PostNothing
  <2>2. Used(r)' = {}
    BY <1>1, <2>1 DEF Used
  <2>3. commands' \in [Requests -> Seq(Command)] /\ Len(commands'[r]) <= 1
    BY <1>1, <2>1 DEF TypeOK
  <2>4. /\ shapes' \in Seq([of : Responses]) /\ Len(shapes') <= MaxPending
        /\ Distinct(shapes')
    BY <1>1, <2>1 DEF TypeOK, Dicts
  <2> WITNESS {} \in SUBSET Requests
  <2> QED BY <1>2, <1>5, <2>1, <2>2, <2>3, <2>4
<1> QED BY <1>4, <1>6, <1>7 DEF Report

\* The callback that posts keeps the invariant: unless something disturbed the
\* captures, its own is still pending, because nobody else can have used it.
LEMMA ReportStep ==
  ASSUME IInv, NEW r \in Requests, Poster(r) \in due[r], Report(r),
         due' = [due EXCEPT ![r] = @ \ {Poster(r)}],
         UNCHANGED <<stage, keyed>>
  PROVE  IInv'
<1> USE DEF IInv
<1>1. ~Reported(r) /\ Reported(r)'
  <2>1. Poster(r)' = Poster(r)
    BY DEF Poster, FinalStreamSuccess
  <2>2. due'[r] = due[r] \ {Poster(r)}
    BY DEF TypeOK
  <2>3. stage[r] \in {"rejected", "succeeded", "failed"}
    BY DEF Staged
  <2> QED BY <2>1, <2>2, <2>3 DEF Reported, Poster, FinalStreamSuccess
<1>2. \A q \in Requests \ {r} : due'[q] = due[q] /\ Reported(q)' = Reported(q)
  BY DEF Reported, FinalStreamSuccess, TypeOK
<1>3. PICK got \in SUBSET Requests :
           /\ pending' \in Seq(Capture) /\ Len(pending') <= MaxPending
           /\ Distinct(pending')
           /\ got \subseteq Owners(pending)
           /\ Owners(pending') = Owners(pending) \ got
           /\ r \in Owners(pending) /\ r \in keyed =>
                r \notin Owners(pending') /\ got = {r}
           /\ commands' \in [Requests -> Seq(Command)]
           /\ \A q \in Requests \ {r} : commands'[q] = commands[q]
           /\ Len(commands'[r]) <= 1
           /\ commands'[r] # <<>> \/ r \in Bare
           /\ Used(r)' = got
           /\ shapes' \in Seq([of : Responses]) /\ Len(shapes') <= MaxPending
           /\ Distinct(shapes') /\ Owners(shapes') \subseteq Owners(shapes)
           /\ got = {r} => r \notin Owners(shapes')
  BY <1>1, ReportEffect
<1>4. Owners(pending)' = Owners(pending') /\ Owners(shapes)' = Owners(shapes')
  BY DEF Owners
<1>5. TypeOK'
  BY <1>3 DEF TypeOK
<1>6. Dicts'
  BY <1>3 DEF Dicts, Distinct
<1>7. Staged'
  BY DEF Staged, FinalStreamSuccess, TypeOK
<1>8. ReportedOnce'
  BY <1>1, <1>2, <1>3 DEF ReportedOnce
<1>9. \A q \in Requests \ {r} : Used(q)' = Used(q)
  BY <1>3 DEF Used
<1>10. Used(r) = {}
  BY <1>1 DEF ReportedOnce, Used, TypeOK
<1>11. CapturesAreMade'
  <2>1. /\ Owners(pending) \subseteq keyed /\ keyed' = keyed
        /\ \A q \in Requests : Used(q) \subseteq keyed
    BY DEF CapturesAreMade
  <2>2. Owners(pending)' \subseteq keyed
    BY <1>3, <1>4, <2>1
  <2>3. ASSUME NEW q \in Requests PROVE Used(q)' \subseteq keyed
    <3>1. CASE q = r
      BY <1>3, <2>1, <3>1
    <3>2. CASE q # r
      BY <1>9, <2>1, <3>2
    <3>3. QED
      BY <3>1, <3>2
  <2>4. QED
    BY <2>1, <2>2, <2>3 DEF CapturesAreMade
<1>12. CaptureUsedOnce'
  <2>1. \A q \in Requests : Used(q) \cap Owners(pending) = {}
    BY DEF CaptureUsedOnce
  <2>2. \A q \in Requests : Owners(pending)' \cap Used(q)' = {}
    BY <2>1, <1>3, <1>4, <1>9
  <2>3. \A q \in Requests \ {r} : Used(q)' \cap Used(r)' = {}
    BY <2>1, <1>3, <1>9
  <2>4. \A q, p \in Requests \ {r} : p # q => Used(q)' \cap Used(p)' = {}
    BY <1>9 DEF CaptureUsedOnce
  <2>5. ASSUME NEW q \in Requests, NEW p \in Requests \ {q}
        PROVE  Used(q)' \cap Used(p)' = {}
    BY <2>3, <2>4
  <2> QED BY <2>2, <2>5 DEF CaptureUsedOnce
<1>13. NoCaptureOutlivesItsAnswer'
  <2>1. \A q \in Owners(pending') : q # r
    BY <1>3 DEF CapturesAreMade
  <2>2. Owners(pending') \subseteq Requests
    <3>1. \A i \in 1..Len(pending') : pending'[i] \in Capture
      BY <1>3, EntryIn
    <3> QED BY <3>1 DEF Owners, Capture
  <2> QED BY <1>3, <1>4, <2>1, <2>2 DEF NoCaptureOutlivesItsAnswer
<1>14. Disturbed => Disturbed'
  <2> SUFFICES ASSUME NEW q \in Requests,
                      Vanished(q) \/ (Reported(q) /\ q \notin keyed)
               PROVE  Vanished(q)' \/ (Reported(q)' /\ q \notin keyed')
    BY DEF Disturbed
  <2>1. CASE Vanished(q)
    BY <2>1, <1>3, <1>4, <1>9 DEF Vanished
  <2>2. CASE Reported(q) /\ q \notin keyed
    BY <2>2, <1>1, <1>2
  <2> QED BY <2>1, <2>2
<1>15. ASSUME ~Disturbed' PROVE Used(r)' = {r} /\ got = {r}
  <2>1. r \in keyed
    BY <1>1, <1>15 DEF Disturbed
  <2>2. ~Vanished(r)
    BY <1>14, <1>15 DEF Disturbed
  <2>3. \A q \in Requests : commands[q] # <<>> => Used(q) = {q}
    BY <1>14, <1>15 DEF CapturesStayHome
  <2>4. \A q \in Requests : commands[q] = <<>> => Used(q) = {}
    BY DEF Used
  <2>5. \A q \in Requests : r \notin Used(q)
    BY <2>3, <2>4, <1>10
  <2>6. r \in Owners(pending)
    BY <2>1, <2>2, <2>5 DEF Vanished
  <2> QED BY <2>1, <2>6, <1>3
<1>16. CapturesStayHome'
  BY <1>3, <1>9, <1>14, <1>15 DEF CapturesStayHome
<1>17. ShapesAreReleased'
  <2> SUFFICES ASSUME ~Disturbed', NEW q \in Owners(shapes')
               PROVE  commands'[q] = <<>>
    BY <1>4 DEF ShapesAreReleased
  <2>1. q # r /\ q \in Owners(shapes)
    BY <1>3, <1>15
  <2>2. commands[q] = <<>>
    BY <2>1, <1>14 DEF ShapesAreReleased
  <2>3. q \in Requests
    <3>1. \A i \in 1..Len(shapes') : shapes'[i] \in [of : Responses]
      BY <1>3, EntryIn
    <3> QED BY <3>1, RegistryAssumption DEF Owners
  <2> QED BY <2>1, <2>2, <2>3, <1>3
<1> QED BY <1>5, <1>6, <1>7, <1>8, <1>11, <1>12, <1>13, <1>16, <1>17

LEMMA Stepwise == IInv /\ [Next]_vars => IInv'
<1> SUFFICES ASSUME IInv, [Next]_vars PROVE IInv'
  OBVIOUS
<1> USE DEF IInv
<1>1. ASSUME NEW r \in Requests, PreCallIgnored(r) PROVE IInv'
  <2>1. TypeOK' /\ Staged' /\ ~Reported(r) /\ ~Reported(r)'
    BY <1>1 DEF PreCallIgnored, TypeOK, Staged, FinalStreamSuccess, Reported
  <2>2. due' = [due EXCEPT ![r] = due[r]]
    BY <1>1 DEF PreCallIgnored, TypeOK
  <2> QED BY <1>1, <2>1, <2>2, StageStep DEF PreCallIgnored
<1>2. ASSUME NEW r \in Requests, Reject(r) PROVE IInv'
  <2>1. TypeOK' /\ Staged' /\ ~Reported(r) /\ ~Reported(r)'
    BY <1>2 DEF Reject, TypeOK, Staged, FinalStreamSuccess, Reported
  <2> QED BY <1>2, <2>1, StageStep DEF Reject
<1>3. ASSUME NEW r \in Requests, Succeed(r) PROVE IInv'
  <2>1. TypeOK' /\ Staged' /\ ~Reported(r) /\ ~Reported(r)'
    BY <1>3 DEF Succeed, TypeOK, Staged, FinalStreamSuccess, Reported
  <2> QED BY <1>3, <2>1, StageStep DEF Succeed
<1>4. ASSUME NEW r \in Requests, Fail(r) PROVE IInv'
  <2>1. PICK logged \in SUBSET {"log"} :
          due' = [due EXCEPT ![r] = {"hook"} \cup logged]
    BY <1>4 DEF Fail
  <2>2. TypeOK' /\ Staged' /\ ~Reported(r) /\ ~Reported(r)'
    BY <1>4, <2>1 DEF Fail, TypeOK, Staged, FinalStreamSuccess, Reported
  <2> QED BY <1>4, <2>1, <2>2, StageStep DEF Fail
<1>5. ASSUME NEW r \in Requests, Abandon(r) PROVE IInv'
  <2>1. TypeOK' /\ Staged' /\ ~Reported(r) /\ ~Reported(r)'
    BY <1>5 DEF Abandon, TypeOK, Staged, FinalStreamSuccess, Reported
  <2>2. due' = [due EXCEPT ![r] = due[r]]
    BY <1>5 DEF Abandon, TypeOK
  <2> QED BY <1>5, <2>1, <2>2, StageStep DEF Abandon
<1>6. ASSUME NEW r \in Requests, AttemptLogged(r) PROVE IInv'
  <2>1. \A q \in Requests : Reported(q)' = Reported(q)
    BY <1>6 DEF AttemptLogged, Reported, FinalStreamSuccess
  <2> QED BY <1>6, <2>1, EnrichStep DEF AttemptLogged, TypeOK
<1>7. ASSUME NEW r \in Requests, PostCallHook(r) PROVE IInv'
  <2>1. Poster(r) = "hook"
    BY <1>7 DEF PostCallHook, Poster, Staged
  <2> QED BY <1>7, <2>1, ReportStep DEF PostCallHook
<1>8. ASSUME NEW r \in Requests, LogEvent(r) PROVE IInv'
  <2>1. CASE FinalStreamSuccess(r)
    <3>1. Poster(r) = "log"
      BY <2>1 DEF Poster
    <3> QED BY <1>8, <2>1, <3>1, ReportStep DEF LogEvent
  <2>2. CASE ~FinalStreamSuccess(r)
    <3>1. /\ due' \in [Requests -> SUBSET {"hook", "log"}]
          /\ \A q \in Requests : due'[q] \subseteq due[q]
          /\ \A q \in Requests : q # r => due'[q] = due[q]
          /\ due'[r] = due[r] \ {"log"}
      BY <1>8 DEF LogEvent, TypeOK
    <3>2. stage' = stage
      BY <1>8 DEF LogEvent
    <3>3. \A q \in Requests : Reported(q)' = Reported(q)
      BY <2>2, <3>1, <3>2 DEF Reported, FinalStreamSuccess
    <3> QED BY <1>8, <2>2, <3>1, <3>3, EnrichStep DEF LogEvent
  <2> QED BY <2>1, <2>2
<1>9. CASE UNCHANGED vars
  <2>1. \A q \in Requests : Used(q)' = Used(q) /\ Reported(q)' = Reported(q)
    BY <1>9 DEF vars, Used, Reported, FinalStreamSuccess
  <2>2. Owners(pending)' = Owners(pending) /\ Owners(shapes)' = Owners(shapes)
    BY <1>9 DEF vars, Owners
  <2>3. TypeOK' /\ Dicts' /\ Staged' /\ ReportedOnce'
    BY <1>9, <2>1 DEF vars, TypeOK, Dicts, Distinct, Staged,
                      FinalStreamSuccess, ReportedOnce
  <2>4. Ledger'
    BY <1>9, <2>1, <2>2, NothingPosted DEF Ledger, vars
  <2> QED BY <2>3, <2>4 DEF Ledger
<1> QED
  BY <1>1, <1>2, <1>3, <1>4, <1>5, <1>6, <1>7, <1>8, <1>9, PreCallStep,
     DeployStep DEF Next

-----------------------------------------------------------------------------
(* Theorems *)

\* The inductive invariant holds in every reachable state.
THEOREM RegistryInvariance == Spec => []IInv
<1> QED BY Initially, Stepwise, PTL DEF Spec

\* Every variable keeps its type; neither dict outgrows the pending limit.
THEOREM RegistryTypeCorrect == Spec => []TypeOK
<1>1. IInv => TypeOK
  BY DEF IInv
<1> QED BY <1>1, RegistryInvariance, PTL

\* Of the callbacks LiteLLM makes for one answer, exactly one posts, and no
\* compression result is reported twice.
THEOREM AnswersAreReportedOnce == Spec => []OneReportEach
<1>1. IInv => OneReportEach
  BY DEF IInv, OneReportEach
<1> QED BY <1>1, RegistryInvariance, PTL

\* A request that has been reported leaves no capture behind.
THEOREM CapturesAreReleased == Spec => []NoCaptureOutlivesItsAnswer
<1>1. IInv => NoCaptureOutlivesItsAnswer
  BY DEF IInv
<1> QED BY <1>1, RegistryInvariance, PTL

\* Captures change hands only after one vanished or an uncaptured request was
\* answered; until then no payload shape is left behind either.
THEOREM FallbackAloneIsHarmless == Spec => []FallbackAloneHarmless
<1>1. IInv => FallbackAloneHarmless
  BY DEF IInv, FallbackAloneHarmless
<1> QED BY <1>1, RegistryInvariance, PTL

=============================================================================
