------------------------- MODULE SimulationsProofs -------------------------
(***************************************************************************)
(* A simulation key names one run, and a run covers what matched when it   *)
(* was inserted, although ingestion goes on committing rows meanwhile.     *)
(* Simulations leave those rows alone: to the read endpoints they are      *)
(* stuttering steps, and what is proved of ReadModels holds beside them.   *)
(***************************************************************************)
EXTENDS Simulations, ReadModelsProofs

\* Where a handler stands tells what its transaction holds.
Session(h) ==
  /\ pc[h] \in {"idle", "insert", "insert_again", "read_stored",
                "select", "mark", "reply", "commit"}
  /\ pc[h] \in {"idle", "insert", "insert_again", "read_stored"} =>
       open[h] = {} /\ reply[h] = {}
  /\ pc[h] \in {"insert_again", "read_stored"} => StoredRun(job[h].key) # {}
  /\ pc[h] \in {"select", "mark"} =>
       /\ open[h] # {} /\ reply[h] = {}
       /\ \A r \in open[h] : /\ r.key = job[h].key
                             /\ DOMAIN r = {"key", "status", "command", "results", "basis"}
  /\ pc[h] \in {"reply", "commit"} =>
       /\ reply[h] # {}
       /\ \A r \in reply[h] : r.status = "succeeded" /\ r.key = job[h].key
       /\ reply[h] = open[h] \/ (open[h] = {} /\ reply[h] \subseteq runs)

\* An open transaction holds a key nobody else has.
HoldsKey(h) ==
  /\ \A r, s \in open[h] : r = s
  /\ \A r \in open[h] :
       /\ StoredRun(r.key) = {}
       /\ \A g \in SimHandlers \ {h} : \A s \in open[g] : s.key # r.key

RunsInv ==
  /\ pc = [h \in SimHandlers |-> pc[h]]
  /\ job = [h \in SimHandlers |-> job[h]]
  /\ open = [h \in SimHandlers |-> open[h]]
  /\ reply = [h \in SimHandlers |-> reply[h]]
  /\ \A r, s \in runs : r.key = s.key => r = s
  /\ \A r \in runs : r.status = "succeeded"
  /\ \A h \in SimHandlers : Session(h)
  /\ \A h \in SimHandlers : HoldsKey(h)

LEMMA RunsInvInit == SimInit => RunsInv
  BY DEF SimInit, RunsInv, Session, HoldsKey

\* Steps that leave the simulation's variables alone.
LEMMA RunsInvUnchanged == RunsInv /\ UNCHANGED simVars => RunsInv'
<1> SUFFICES ASSUME RunsInv, UNCHANGED simVars PROVE RunsInv'
  OBVIOUS
<1>1. runs' = runs /\ pc' = pc /\ job' = job /\ open' = open /\ reply' = reply
  BY DEF simVars
<1>2. \A h \in SimHandlers : Session(h)'
  BY <1>1 DEF RunsInv, Session, StoredRun
<1>3. \A h \in SimHandlers : HoldsKey(h)'
  BY <1>1 DEF RunsInv, HoldsKey, StoredRun
<1> QED
  BY <1>1, <1>2, <1>3 DEF RunsInv

\* A step of h that inserts no run and stores none leaves the others as they are.
LEMMA RunsInvLocal ==
  ASSUME RunsInv, NEW h \in SimHandlers, runs' = runs,
         NEW p, NEW j, NEW o, NEW a,
         pc' = [pc EXCEPT ![h] = p], job' = [job EXCEPT ![h] = j],
         open' = [open EXCEPT ![h] = o], reply' = [reply EXCEPT ![h] = a],
         Session(h)',
         \A r \in o : \E s \in open[h] : r.key = s.key,
         \A r, s \in o : r = s
  PROVE  RunsInv'
<1>1. \A g \in SimHandlers : g # h => pc'[g] = pc[g] /\ job'[g] = job[g]
                                      /\ open'[g] = open[g] /\ reply'[g] = reply[g]
  BY DEF RunsInv
<1>2. open'[h] = o
  BY DEF RunsInv
<1>3. \A g \in SimHandlers : Session(g)'
  <2> SUFFICES ASSUME NEW g \in SimHandlers, g # h PROVE Session(g)'
    OBVIOUS
  <2>1. Session(g)
    BY DEF RunsInv
  <2>2. /\ pc'[g] = pc[g] /\ job'[g] = job[g]
        /\ open'[g] = open[g] /\ reply'[g] = reply[g] /\ runs' = runs
    BY <1>1
  <2>3. {r \in runs' : r.key = job'[g].key} = {r \in runs : r.key = job[g].key}
    BY <2>2
  <2>4. CASE pc[g] \in {"reply", "commit"}
    BY <2>1, <2>2, <2>4 DEF Session
  <2>5. CASE pc[g] \in {"select", "mark"}
    <3>1. /\ open[g] # {} /\ reply[g] = {}
          /\ \A r \in open[g] : /\ r.key = job[g].key
                                /\ DOMAIN r = {"key", "status", "command", "results", "basis"}
      BY <2>1, <2>5 DEF Session
    <3>2. /\ open'[g] # {} /\ reply'[g] = {}
          /\ \A r \in open'[g] : /\ r.key = job'[g].key
                                 /\ DOMAIN r = {"key", "status", "command", "results", "basis"}
      BY <3>1, <2>2
    <3>3. pc'[g] \in {"select", "mark"}
      BY <2>2, <2>5
    <3> QED
      BY <3>2, <3>3 DEF Session
  <2>6. CASE pc[g] = "idle" \/ pc[g] = "insert"
    BY <2>1, <2>2, <2>6 DEF Session
  <2>7. CASE pc[g] \in {"insert_again", "read_stored"}
    <3>1. {r \in runs : r.key = job[g].key} # {} /\ open[g] = {} /\ reply[g] = {}
      BY <2>1, <2>7 DEF Session, StoredRun
    <3> QED
      BY <3>1, <2>2, <2>3, <2>7 DEF Session, StoredRun
  <2> QED
    BY <2>1, <2>4, <2>5, <2>6, <2>7 DEF Session
<1>4. \A g \in SimHandlers : HoldsKey(g)'
  <2> SUFFICES ASSUME NEW g \in SimHandlers PROVE HoldsKey(g)'
    OBVIOUS
  <2>1. HoldsKey(g) /\ HoldsKey(h)
    BY DEF RunsInv
  <2>2. CASE g = h
    BY <1>1, <1>2, <2>1, <2>2 DEF HoldsKey, StoredRun
  <2>3. CASE g # h
    BY <1>1, <1>2, <2>1, <2>3 DEF HoldsKey, StoredRun
  <2> QED
    BY <2>2, <2>3
<1> QED
  BY <1>3, <1>4 DEF RunsInv

\* h inserts the run of its command: the key is neither stored nor open.
LEMMA RunsInvInsert ==
  ASSUME RunsInv, NEW h \in SimHandlers, runs' = runs, job' = job, reply' = reply,
         pc[h] \in {"insert", "insert_again"},
         pc' = [pc EXCEPT ![h] = "select"],
         open' = [open EXCEPT ![h] = {NewRun(job[h])}],
         StoredRun(job[h].key) = {},
         \A g \in SimHandlers \ {h} : \A r \in open[g] : r.key # job[h].key
  PROVE  RunsInv'
<1> DEFINE o == NewRun(job[h])
<1>1. o.key = job[h].key /\ DOMAIN o = {"key", "status", "command", "results", "basis"}
  BY DEF NewRun
<1>2. \A g \in SimHandlers : g # h => pc'[g] = pc[g] /\ open'[g] = open[g]
  BY DEF RunsInv
<1>3. pc'[h] = "select" /\ open'[h] = {o}
  BY DEF RunsInv
<1> HIDE DEF o
<1>4. \A g \in SimHandlers : Session(g)'
  <2> SUFFICES ASSUME NEW g \in SimHandlers PROVE Session(g)'
    OBVIOUS
  <2>1. Session(g)
    BY DEF RunsInv
  <2>2. CASE g = h
    <3>1. pc'[g] = "select" /\ open'[g] = {o} /\ job'[g] = job[g] /\ reply'[g] = reply[g]
      BY <1>3, <2>2
    <3>2. reply[g] = {}
      BY <2>1, <2>2 DEF Session
    <3> QED
      BY <3>1, <3>2, <1>1, <2>2 DEF Session
  <2>3. CASE g # h
    <3>1. pc'[g] = pc[g] /\ open'[g] = open[g] /\ job'[g] = job[g] /\ reply'[g] = reply[g]
      BY <1>2, <2>3
    <3> QED
      BY <3>1, <2>1 DEF Session, StoredRun
  <2> QED
    BY <2>2, <2>3
<1>5. \A g \in SimHandlers : HoldsKey(g)'
  <2> SUFFICES ASSUME NEW g \in SimHandlers PROVE HoldsKey(g)'
    OBVIOUS
  <2>1. HoldsKey(g)
    BY DEF RunsInv
  <2>2. CASE g = h
    <3>1. open'[g] = {o} /\ {r \in runs' : r.key = o.key} = {}
      BY <1>1, <1>3, <2>2 DEF StoredRun
    <3>2. \A f \in SimHandlers \ {g} : \A s \in open'[f] : s.key # o.key
      BY <1>1, <1>2, <2>2
    <3> QED
      BY <3>1, <3>2 DEF HoldsKey, StoredRun
  <2>3. CASE g # h
    <3>1. open'[g] = open[g]
      BY <1>2, <2>3
    <3>2. \A r \in open[g] : {s \in runs' : s.key = r.key} = {}
      BY <2>1 DEF HoldsKey, StoredRun
    <3>3. ASSUME NEW r \in open[g], NEW f \in SimHandlers \ {g}, NEW s \in open'[f]
          PROVE  s.key # r.key
      <4>1. CASE f = h
        BY <1>1, <1>3, <2>3, <4>1
      <4>2. CASE f # h
        BY <1>2, <2>1, <4>2 DEF HoldsKey
      <4> QED
        BY <4>1, <4>2
    <3> QED
      BY <2>1, <3>1, <3>2, <3>3 DEF HoldsKey, StoredRun
  <2> QED
    BY <2>2, <2>3
<1> QED
  BY <1>4, <1>5 DEF RunsInv, o

\* The commit stores a run whose key nobody else has.
LEMMA RunsInvCommit ==
  ASSUME RunsInv, NEW h \in SimHandlers, CommitRun(h)
  PROVE  RunsInv'
<1>0. Session(h) /\ HoldsKey(h) /\ pc[h] = "commit"
  BY DEF RunsInv, CommitRun
<1>1. /\ pc' = [pc EXCEPT ![h] = "idle"] /\ job' = [job EXCEPT ![h] = None]
      /\ open' = [open EXCEPT ![h] = {}] /\ reply' = [reply EXCEPT ![h] = {}]
      /\ runs' = runs \cup open[h]
  BY DEF CommitRun, EndSession, Goto
<1>2. \A r \in open[h] : r.status = "succeeded"
  BY <1>0 DEF Session
<1>3. \A r \in runs, s \in open[h] : r.key # s.key
  BY <1>0 DEF HoldsKey, StoredRun
<1>4. /\ pc'[h] = "idle" /\ open'[h] = {} /\ reply'[h] = {}
      /\ \A g \in SimHandlers : g # h => pc'[g] = pc[g] /\ job'[g] = job[g]
                                      /\ open'[g] = open[g] /\ reply'[g] = reply[g]
  BY <1>1 DEF RunsInv
<1>5. \A g \in SimHandlers : Session(g)'
  <2> SUFFICES ASSUME NEW g \in SimHandlers PROVE Session(g)'
    OBVIOUS
  <2>1. CASE g = h
    BY <1>4, <2>1 DEF Session
  <2>2. CASE g # h
    <3>1. Session(g)
      BY DEF RunsInv
    <3>2. pc'[g] = pc[g] /\ job'[g] = job[g] /\ open'[g] = open[g] /\ reply'[g] = reply[g]
      BY <1>4, <2>2
    <3>3. StoredRun(job[g].key) \subseteq StoredRun(job[g].key)'
      BY <1>1, <3>2 DEF StoredRun
    <3> QED
      BY <1>1, <3>1, <3>2, <3>3 DEF Session
  <2> QED
    BY <2>1, <2>2
<1>6. \A g \in SimHandlers : HoldsKey(g)'
  <2> SUFFICES ASSUME NEW g \in SimHandlers PROVE HoldsKey(g)'
    OBVIOUS
  <2>1. CASE g = h
    BY <1>4, <2>1 DEF HoldsKey
  <2>2. CASE g # h
    <3>1. open'[g] = open[g] /\ HoldsKey(g)
      BY <1>4, <2>2 DEF RunsInv
    <3>2. \A r \in open[g] : StoredRun(r.key)' = {}
      BY <1>0, <1>1, <3>1, <2>2 DEF HoldsKey, StoredRun
    <3>3. \A r \in open[g] : \A f \in SimHandlers \ {g} : \A s \in open'[f] : s.key # r.key
      BY <1>4, <3>1 DEF HoldsKey
    <3> QED
      BY <3>1, <3>2, <3>3 DEF HoldsKey
  <2> QED
    BY <2>1, <2>2
<1>7. \A r, s \in runs' : r.key = s.key => r = s
  BY <1>0, <1>1, <1>3 DEF RunsInv, HoldsKey
<1>8. \A r \in runs' : r.status = "succeeded"
  BY <1>1, <1>2 DEF RunsInv
<1> QED
  BY <1>1, <1>5, <1>6, <1>7, <1>8 DEF RunsInv

LEMMA RunsInvStep == RunsInv /\ [SimNext]_allVars => RunsInv'
<1> SUFFICES ASSUME RunsInv, [SimNext]_allVars PROVE RunsInv'
  OBVIOUS
<1>1. CASE UNCHANGED simVars
  BY <1>1, RunsInvUnchanged
<1>2. ASSUME NEW h \in SimHandlers, NEW c \in Simulate, Post(h, c) PROVE RunsInv'
  <2>1. /\ pc' = [pc EXCEPT ![h] = "insert"] /\ job' = [job EXCEPT ![h] = c]
        /\ open' = open /\ reply' = reply /\ runs' = runs /\ pc[h] = "idle"
    BY <1>2 DEF Post, Goto
  <2>2. open[h] = {} /\ reply[h] = {}
    BY <2>1 DEF RunsInv, Session
  <2> DEFINE nothing == {}
             start == "insert"
  <2>3. /\ pc' = [pc EXCEPT ![h] = start]
        /\ open' = [open EXCEPT ![h] = nothing] /\ reply' = [reply EXCEPT ![h] = nothing]
    BY <2>1, <2>2 DEF RunsInv
  <2>4. Session(h)'
    BY <2>1, <2>2 DEF RunsInv, Session
  <2>5. (\A r \in nothing : \E s \in open[h] : r.key = s.key) /\ (\A r, s \in nothing : r = s)
    OBVIOUS
  <2> HIDE DEF nothing, start
  <2> QED
    BY <2>1, <2>3, <2>4, <2>5, RunsInvLocal
<1>3. ASSUME NEW h \in SimHandlers, Insert(h) PROVE RunsInv'
  <2>1. CASE StoredRun(job[h].key) = {}
    BY <1>3, <2>1, RunsInvInsert DEF Insert, Goto
  <2>2. CASE StoredRun(job[h].key) # {}
    <3>1. /\ pc' = [pc EXCEPT ![h] = "insert_again"] /\ pc[h] = "insert"
          /\ open' = open /\ reply' = reply /\ runs' = runs /\ job' = job
      BY <1>3, <2>2 DEF Insert, Goto
    <3>2. /\ open' = [open EXCEPT ![h] = open[h]] /\ reply' = [reply EXCEPT ![h] = reply[h]]
          /\ job' = [job EXCEPT ![h] = job[h]]
      BY <3>1 DEF RunsInv
    <3>3. Session(h)'
      BY <3>1, <2>2 DEF RunsInv, Session, StoredRun
    <3>4. HoldsKey(h)
      BY DEF RunsInv
    <3> QED
      BY <3>1, <3>2, <3>3, <3>4, RunsInvLocal DEF HoldsKey
  <2> QED
    BY <2>1, <2>2
<1>4. ASSUME NEW h \in SimHandlers, InsertAgain(h) PROVE RunsInv'
  <2>1. StoredRun(job[h].key) # {} /\ pc[h] = "insert_again"
    BY <1>4 DEF InsertAgain, RunsInv, Session
  <2>2. /\ pc' = [pc EXCEPT ![h] = "read_stored"]
        /\ open' = open /\ reply' = reply /\ runs' = runs /\ job' = job
    BY <1>4, <2>1 DEF InsertAgain, Goto
  <2>3. /\ open' = [open EXCEPT ![h] = open[h]] /\ reply' = [reply EXCEPT ![h] = reply[h]]
        /\ job' = [job EXCEPT ![h] = job[h]]
    BY <2>2 DEF RunsInv
  <2>4. Session(h)'
    BY <2>1, <2>2 DEF RunsInv, Session, StoredRun
  <2>5. HoldsKey(h)
    BY DEF RunsInv
  <2> QED
    BY <2>2, <2>3, <2>4, <2>5, RunsInvLocal DEF HoldsKey
<1>5. ASSUME NEW h \in SimHandlers, ReadStored(h) PROVE RunsInv'
  <2>1. /\ pc' = [pc EXCEPT ![h] = "reply"]
        /\ reply' = [reply EXCEPT ![h] = StoredRun(job[h].key)]
        /\ open' = open /\ runs' = runs /\ job' = job /\ pc[h] = "read_stored"
    BY <1>5 DEF ReadStored, Goto
  <2>2. /\ StoredRun(job[h].key) # {} /\ StoredRun(job[h].key) \subseteq runs
        /\ \A r \in StoredRun(job[h].key) : r.status = "succeeded" /\ r.key = job[h].key
        /\ open[h] = {}
    BY <2>1 DEF RunsInv, Session, StoredRun
  <2>3. open' = [open EXCEPT ![h] = open[h]] /\ job' = [job EXCEPT ![h] = job[h]]
    BY <2>1 DEF RunsInv
  <2>4. /\ pc'[h] = "reply" /\ reply'[h] = StoredRun(job[h].key)
        /\ open'[h] = {} /\ job'[h] = job[h] /\ runs' = runs
    BY <2>1, <2>2 DEF RunsInv
  <2>5. Session(h)'
    BY <2>2, <2>4 DEF Session
  <2> QED
    BY <2>1, <2>2, <2>3, <2>5, RunsInvLocal
<1>6. ASSUME NEW h \in SimHandlers, Select(h) PROVE RunsInv'
  <2> PICK x : open' = [open EXCEPT ![h] = {[r EXCEPT !.results = x] : r \in @}]
    BY <1>6 DEF Select
  <2> DEFINE o == {[r EXCEPT !.results = x] : r \in open[h]}
  <2>1. /\ pc' = [pc EXCEPT ![h] = "mark"] /\ reply' = reply
        /\ runs' = runs /\ job' = job /\ pc[h] = "select"
    BY <1>6 DEF Select, Goto
  <2>2. open' = [open EXCEPT ![h] = o]
    BY DEF RunsInv
  <2>3. Session(h) /\ HoldsKey(h)
    BY DEF RunsInv
  <2>4. /\ open[h] # {} /\ reply[h] = {}
        /\ \A r \in open[h] : /\ r.key = job[h].key
                              /\ DOMAIN r = {"key", "status", "command", "results", "basis"}
    BY <2>1, <2>3 DEF Session
  <2>5. \A r \in o : /\ \E s \in open[h] : r.key = s.key
                     /\ r.key = job[h].key
                     /\ DOMAIN r = {"key", "status", "command", "results", "basis"}
    BY <2>4
  <2>6. o # {} /\ \A r, s \in o : r = s
    <3>1. PICK r \in open[h] : open[h] = {r}
      BY <2>3, <2>4 DEF HoldsKey
    <3>2. o = {[r EXCEPT !.results = x]}
      BY <3>1
    <3> QED
      BY <3>2
  <2> HIDE DEF o
  <2>7. reply' = [reply EXCEPT ![h] = reply[h]] /\ job' = [job EXCEPT ![h] = job[h]]
    BY <2>1 DEF RunsInv
  <2>8. pc'[h] = "mark" /\ open'[h] = o /\ job'[h] = job[h] /\ reply'[h] = {}
    BY <2>1, <2>2, <2>4 DEF RunsInv
  <2>9. Session(h)'
    BY <2>5, <2>6, <2>8 DEF Session
  <2>10. runs' = runs /\ pc' = [pc EXCEPT ![h] = "mark"]
         /\ \A r \in o : \E s \in open[h] : r.key = s.key
    BY <2>1, <2>5
  <2> QED
    BY <2>2, <2>6, <2>7, <2>9, <2>10, RunsInvLocal
<1>7. ASSUME NEW h \in SimHandlers, MarkSucceeded(h) PROVE RunsInv'
  <2> DEFINE o == Marked(h)
  <2>1. /\ pc' = [pc EXCEPT ![h] = "reply"] /\ reply' = [reply EXCEPT ![h] = o]
        /\ open' = [open EXCEPT ![h] = o]
        /\ runs' = runs /\ job' = job /\ pc[h] = "mark"
    BY <1>7 DEF MarkSucceeded, Goto
  <2>2. Session(h) /\ HoldsKey(h)
    BY DEF RunsInv
  <2>3. /\ open[h] # {}
        /\ \A r \in open[h] : /\ r.key = job[h].key
                              /\ DOMAIN r = {"key", "status", "command", "results", "basis"}
    BY <2>1, <2>2 DEF Session
  <2>4. \A r \in o : /\ \E s \in open[h] : r.key = s.key
                     /\ r.key = job[h].key /\ r.status = "succeeded"
    BY <2>3 DEF Marked
  <2>5. o # {} /\ \A r, s \in o : r = s
    <3>1. PICK r \in open[h] : open[h] = {r}
      BY <2>2, <2>3 DEF HoldsKey
    <3>2. o = {[r EXCEPT !.status = "succeeded"]}
      BY <3>1 DEF Marked
    <3> QED
      BY <3>2
  <2> HIDE DEF o
  <2>6. job' = [job EXCEPT ![h] = job[h]]
    BY <2>1 DEF RunsInv
  <2>7. pc'[h] = "reply" /\ open'[h] = o /\ job'[h] = job[h] /\ reply'[h] = o
    BY <2>1 DEF RunsInv
  <2>8. Session(h)'
    BY <2>4, <2>5, <2>7 DEF Session
  <2> QED
    BY <2>1, <2>4, <2>5, <2>6, <2>8, RunsInvLocal
<1>8. ASSUME NEW h \in SimHandlers, Reply(h) PROVE RunsInv'
  <2>1. /\ pc' = [pc EXCEPT ![h] = "commit"] /\ reply' = reply
        /\ open' = open /\ runs' = runs /\ job' = job /\ pc[h] = "reply"
    BY <1>8 DEF Reply, Goto
  <2>2. /\ open' = [open EXCEPT ![h] = open[h]] /\ reply' = [reply EXCEPT ![h] = reply[h]]
        /\ job' = [job EXCEPT ![h] = job[h]]
    BY <2>1 DEF RunsInv
  <2>3. Session(h)'
    BY <2>1 DEF RunsInv, Session
  <2>4. HoldsKey(h)
    BY DEF RunsInv
  <2> QED
    BY <2>1, <2>2, <2>3, <2>4, RunsInvLocal DEF HoldsKey
<1>9. ASSUME NEW h \in SimHandlers, Fail(h) PROVE RunsInv'
  <2> DEFINE nothing == {}
             start == "idle"
  <2>1. /\ pc' = [pc EXCEPT ![h] = start] /\ job' = [job EXCEPT ![h] = None]
        /\ open' = [open EXCEPT ![h] = nothing] /\ reply' = [reply EXCEPT ![h] = nothing]
        /\ runs' = runs
    BY <1>9 DEF Fail, EndSession, Goto
  <2>2. Session(h)'
    BY <2>1 DEF RunsInv, Session
  <2>3. /\ \A r \in nothing : \E s \in open[h] : r.key = s.key
        /\ \A r, s \in nothing : r = s
    OBVIOUS
  <2> HIDE DEF nothing, start
  <2> QED
    BY <2>1, <2>2, <2>3, RunsInvLocal
<1>10. CASE UNCHANGED allVars
  BY <1>10, <1>1 DEF allVars
<1> QED
  BY <1>1, <1>2, <1>3, <1>4, <1>5, <1>6, <1>7, <1>8, <1>9, <1>10, RunsInvCommit DEF SimNext

LEMMA RunsInvImplies == RunsInv => RunsAreIdempotent
<1> SUFFICES ASSUME RunsInv PROVE RunsAreIdempotent
  OBVIOUS
<1>1. \A h \in SimHandlers : Session(h) /\ HoldsKey(h)
  BY DEF RunsInv
<1>2. \A h \in SimHandlers : \A r \in reply[h] : r.status = "succeeded" /\ r.key = job[h].key
  BY <1>1 DEF Session
<1>3. \A h \in SimHandlers : pc[h] = "commit" =>
        /\ reply[h] # {}
        /\ reply[h] = open[h] \/ (open[h] = {} /\ reply[h] \subseteq runs)
  BY <1>1 DEF Session
<1> QED
  BY <1>1, <1>2, <1>3 DEF RunsInv, HoldsKey, RunsAreIdempotent

\* Whatever is posted, fails or is committed in whichever order, a key has one
\* run, and everybody who posts it is told that one (simulation_store.py).
THEOREM RunsAreAlwaysIdempotent == SimSpec => []RunsAreIdempotent
BY RunsInvInit, RunsInvStep, RunsInvImplies, PTL DEF SimSpec

-----------------------------------------------------------------------------
(* Beside simulations the read side goes on as without them.                *)

LEMMA ReadInit == SimInit => Init
  BY DEF SimInit

LEMMA ReadStep == [SimNext]_allVars => [Next]_vars
  BY DEF SimNext, Next, allVars, Post, Insert, InsertAgain, ReadStored, Select,
         MarkSucceeded, Reply, CommitRun, Fail

\* A simulation writes runs and results only, never a row that ingestion wrote:
\* what the theorems of ReadModelsProofs say of ingestion and the read endpoints
\* holds while simulations run (simulation_store.py).
THEOREM SimulationsDisturbNoReads == SimSpec => Spec
  BY ReadInit, ReadStep, PTL DEF SimSpec, Spec

-----------------------------------------------------------------------------
(* What a run covers.                                                       *)

CandidateIds(d, c) == {e.id : e \in Candidates(d, c)}

LEMMA CandidatesGrow ==
  ASSUME NEW d, NEW later, KeysHold(d), KeysHold(later), Grown(d, later), NEW c
  PROVE  CandidateIds(d, c) \subseteq CandidateIds(later, c)
<1>1. Matching(d, c.filter) \subseteq Matching(later, c.filter)
  BY MatchingGrows
<1>2. QED
  BY <1>1 DEF CandidateIds, Candidates

LEMMA LimitIsPositive == \A n \in Int : Limit(n) \in Nat
<1> SUFFICES ASSUME NEW n \in Int PROVE Limit(n) \in Nat
  OBVIOUS
<1>1. Max({n, 1}) \in Int /\ Max({n, 1}) >= 1
  <2>1. IsFiniteSet({n, 1}) /\ {n, 1} # {} /\ {n, 1} \subseteq Int
    <3>1. IsFiniteSet({1} \cup {n}) /\ {1} \cup {n} = {n, 1}
      BY FS_Singleton, FS_AddElement
    <3>2. QED
      BY <3>1
  <2> DEFINE pair == {n, 1}
  <2>2. 1 \in pair /\ IsFiniteSet(pair) /\ pair # {} /\ pair \subseteq Int
    BY <2>1
  <2> HIDE DEF pair
  <2>3. Max(pair) \in pair /\ \A x \in pair : Max(pair) >= x
    BY <2>2, FiniteHasMax
  <2>4. QED
    BY <2>2, <2>3 DEF pair
<1>2. Limit(n) = IF Max({n, 1}) <= 1000 THEN Max({n, 1}) ELSE 1000
  BY <1>1, MinOfTwo DEF Limit
<1>3. QED
  BY <1>1, <1>2

\* A result is computed from the execution it names.
FromExecution(x, e, config) ==
  /\ x.execution = e.id /\ x.original = e.original
  /\ x.compressed = SimulatedCompressed(e.original, e.compressed, config)
  /\ x.saved = Minus(e.original, x.compressed)

\* There are finitely many results, each from an execution of its own.
Computes(d, config, results) ==
  /\ IsFiniteSet(results)
  /\ \A x \in results : \E e \in d.executions : FromExecution(x, e, config)
  /\ \A x, y \in results : x.execution = y.execution => x = y

\* What is covered was created after what was there and is not.
Newest(d, covered, basis) ==
  \A e, o \in d.executions : e.id \in covered /\ o.id \in basis \ covered => e.created > o.created

\* A run covers what matches when it selects, or as much as its limit lets it.
Covers(d, r) ==
  LET covered == {x.execution : x \in r.results}
  IN /\ Cardinality(r.results) = Cardinality(covered)
     /\ covered \subseteq CandidateIds(d, r.command) /\ r.basis \subseteq CandidateIds(d, r.command)
     /\ r.basis \subseteq covered \/ Cardinality(covered) = Limit(r.command.limit)
     /\ Newest(d, covered, r.basis)
     /\ Computes(d, r.command.config, r.results)

Computed(d, c) == {Calculation(row, c.config, c.pricing) : row \in SelectedRows(d, c)}

LEMMA SelectCovers ==
  ASSUME NEW d, KeysHold(d), TimesHold(d), Finite(d), NEW c \in Simulate,
         NEW basis \in SUBSET CandidateIds(d, c)
  PROVE  LET results == Computed(d, c)
             covered == {x.execution : x \in results}
         IN /\ Cardinality(results) = Cardinality(covered)
            /\ covered \subseteq CandidateIds(d, c)
            /\ basis \subseteq covered \/ Cardinality(covered) = Limit(c.limit)
            /\ Newest(d, covered, basis)
            /\ Computes(d, c.config, results)
<1> DEFINE all == Candidates(d, c)
           R == {p \in all \X all : p[1].created > p[2].created}
           n == Limit(c.limit)
           first == {x \in all : Cardinality(Before(all, R, x)) < n}
           results == Computed(d, c)
           covered == {x.execution : x \in results}
           Result(e) == Calculation(SelectedRow(d, e), c.config, c.pricing)
<1>1. all \in SUBSET d.executions /\ IsFiniteSet(all)
  <2>1. all \in SUBSET Matching(d, c.filter) /\ Matching(d, c.filter) \in SUBSET d.executions
    BY DEF Candidates, Matching
  <2>2. QED
    BY <2>1, FS_Subset DEF Finite
<1>2. n \in Nat
  BY LimitIsPositive, SimulationsAssumption
<1>3. TotallyOrders(R, all)
  <2>1. \A x, y \in all : /\ x.created \in Int /\ y.created \in Int
                          /\ (x.created = y.created => x = y)
    BY <1>1 DEF TimesHold
  <2>2. \A x, y \in all : <<x, y>> \in R <=> x.created > y.created
    OBVIOUS
  <2> HIDE DEF all, R
  <2>3. QED
    BY <2>1, <2>2 DEF TotallyOrders
<1>4. results = {Result(e) : e \in first}
  <2>1. \A x \in all : Before(all, R, x) = {y \in all : y.created > x.created}
    BY DEF Before
  <2>2. SelectedRows(d, c) = {SelectedRow(d, e) : e \in first}
    BY <2>1 DEF SelectedRows
  <2>3. QED
    BY <2>2 DEF Computed
<1>5. \A e : Result(e).execution = e.id /\ FromExecution(Result(e), e, c.config)
  BY DEF Calculation, SelectedRow, FromExecution
<1>6. \A e, o \in all : e.id = o.id => e = o
  BY <1>1 DEF KeysHold
<1>7. covered = {e.id : e \in first}
  BY <1>4, <1>5
<1>8. first \in SUBSET all /\ IsFiniteSet(first)
  <2>1. first \in SUBSET all
    OBVIOUS
  <2>2. QED
    BY <1>1, <2>1, FS_Subset
<1>9. first = all \/ Cardinality(first) = n
  <2> HIDE DEF all, R, n
  <2>1. QED
    BY <1>1, <1>2, <1>3, FirstPlaces
<1>10. ASSUME NEW e \in first, NEW o \in all \ first PROVE e.created > o.created
  <2>1. e.created \in Int /\ o.created \in Int
    BY <1>1, <1>8 DEF TimesHold
  <2>2. Cardinality(Before(all, R, e)) < n /\ ~(Cardinality(Before(all, R, o)) < n)
    OBVIOUS
  <2>3. ASSUME e.created <= o.created PROVE FALSE
    <3>1. Before(all, R, o) \subseteq Before(all, R, e) /\ Before(all, R, e) \subseteq all
      <4>1. /\ Before(all, R, o) = {y \in all : y.created > o.created}
            /\ Before(all, R, e) = {y \in all : y.created > e.created}
        BY <1>8 DEF Before
      <4>2. \A y \in all : y.created \in Int
        BY <1>1 DEF TimesHold
      <4>3. QED
        BY <2>1, <2>3, <4>1, <4>2
    <3> DEFINE ahead == Before(all, R, e)
               behind == Before(all, R, o)
    <3>2. ahead \subseteq all /\ behind \subseteq ahead
      BY <3>1
    <3> HIDE DEF ahead, behind, all, R, n
    <3>3. IsFiniteSet(ahead)
      BY <1>1, <3>2, FS_Subset
    <3>4. Cardinality(behind) <= Cardinality(ahead)
          /\ Cardinality(ahead) \in Nat /\ Cardinality(behind) \in Nat
      BY <3>2, <3>3, FS_Subset, FS_CardinalityType
    <3>5. QED
      BY <1>2, <2>2, <3>4 DEF ahead, behind
  <2>4. QED
    BY <2>1, <2>3
<1> HIDE DEF first, results, Result
<1>11. Cardinality(covered) = Cardinality(first)
  <2>1. [e \in first |-> e.id] \in Bijection(first, covered)
    BY <1>6, <1>7, <1>8 DEF Bijection, Injection, IsInjective, Surjection
  <2> HIDE DEF covered
  <2>2. QED
    BY <1>8, <2>1, FS_Bijection DEF ExistsBijection
<1>12. IsFiniteSet(results) /\ Cardinality(results) = Cardinality(first)
  <2>1. \A e, o \in first : Result(e) = Result(o) => e = o
    BY <1>5, <1>6, <1>8
  <2>2. [e \in first |-> Result(e)] \in Bijection(first, results)
    BY <1>4, <2>1 DEF Bijection, Injection, IsInjective, Surjection
  <2>3. QED
    BY <1>8, <2>2, FS_Bijection DEF ExistsBijection
<1>13. covered \subseteq CandidateIds(d, c) /\ (first = all => covered = CandidateIds(d, c))
  BY <1>7, <1>8 DEF CandidateIds
<1>14. Computes(d, c.config, results)
  <2>1. \A x \in results : \E e \in first : x = Result(e)
    BY <1>4
  <2>2. \A x \in results : \E e \in d.executions : FromExecution(x, e, c.config)
    BY <1>1, <1>5, <1>8, <2>1
  <2>3. \A x, y \in results : x.execution = y.execution => x = y
    BY <1>5, <1>6, <1>8, <2>1
  <2>4. QED
    BY <1>12, <2>2, <2>3 DEF Computes
<1>15. Newest(d, covered, basis)
  <2> SUFFICES ASSUME NEW e \in d.executions, NEW o \in d.executions,
                      e.id \in covered, o.id \in basis, o.id \notin covered
               PROVE  e.created > o.created
    BY DEF Newest
  <2>1. e \in first
    BY <1>1, <1>7, <1>8 DEF KeysHold
  <2>2. o \in all /\ o \notin first
    <3>1. PICK x \in all : x.id = o.id
      BY DEF CandidateIds
    <3>2. QED
      BY <1>1, <1>7, <3>1 DEF KeysHold
  <2>3. QED
    BY <1>10, <2>1, <2>2
<1>16. QED
  BY <1>9, <1>11, <1>12, <1>13, <1>14, <1>15 DEF results

LEMMA CoversGrows ==
  ASSUME NEW d, NEW later, KeysHold(d), KeysHold(later), Grown(d, later), NEW r, Covers(d, r)
  PROVE  Covers(later, r)
<1>1. CandidateIds(d, r.command) \subseteq CandidateIds(later, r.command)
  BY CandidatesGrow
<1>2. Computes(later, r.command.config, r.results)
  BY DEF Covers, Computes, Grown
<1>3. \A e \in later.executions : e.id \in CandidateIds(d, r.command) => e \in d.executions
  <2>1. Candidates(d, r.command) \subseteq d.executions
    BY DEF Candidates, Matching
  <2>2. d.executions \subseteq later.executions
    BY DEF Grown
  <2>3. QED
    BY <2>1, <2>2 DEF CandidateIds, KeysHold
<1>4. ASSUME NEW covered, covered \subseteq CandidateIds(d, r.command),
             r.basis \subseteq CandidateIds(d, r.command), Newest(d, covered, r.basis)
      PROVE  Newest(later, covered, r.basis)
  BY <1>3, <1>4 DEF Newest
<1>5. QED
  BY <1>1, <1>2, <1>4 DEF Covers

BasisInv ==
  /\ \A r \in runs : Covers(db, r)
  /\ \A h \in SimHandlers :
       /\ pc[h] # "idle" => job[h] \in Simulate
       /\ pc[h] = "select" =>
            \A r \in open[h] : r.command = job[h] /\ r.basis \subseteq CandidateIds(db, job[h])
       /\ pc[h] \in {"mark", "reply", "commit"} => \A r \in open[h] : Covers(db, r)

LEMMA BasisInvInit == SimInit => BasisInv
  BY DEF SimInit, BasisInv

\* A step of h leaves the other handlers as they are.
LEMMA BasisLocal ==
  ASSUME RunsInv, BasisInv, NEW h \in SimHandlers, db' = db,
         NEW p, NEW j, NEW o,
         pc' = [pc EXCEPT ![h] = p], job' = [job EXCEPT ![h] = j],
         open' = [open EXCEPT ![h] = o],
         \A r \in runs' : Covers(db, r),
         p # "idle" => j \in Simulate,
         p = "select" => \A r \in o : r.command = j /\ r.basis \subseteq CandidateIds(db, j),
         p \in {"mark", "reply", "commit"} => \A r \in o : Covers(db, r)
  PROVE  BasisInv'
<1>1. \A g \in SimHandlers : g # h => pc'[g] = pc[g] /\ job'[g] = job[g] /\ open'[g] = open[g]
  BY DEF RunsInv
<1>2. pc'[h] = p /\ job'[h] = j /\ open'[h] = o
  BY DEF RunsInv
<1>3. ASSUME NEW g \in SimHandlers
      PROVE  /\ pc'[g] # "idle" => job'[g] \in Simulate
             /\ pc'[g] = "select" =>
                  \A r \in open'[g] : /\ r.command = job'[g]
                                      /\ r.basis \subseteq CandidateIds(db', job'[g])
             /\ pc'[g] \in {"mark", "reply", "commit"} => \A r \in open'[g] : Covers(db', r)
  <2>1. CASE g = h
    BY <1>2, <2>1
  <2>2. CASE g # h
    BY <1>1, <2>2 DEF BasisInv
  <2>3. QED
    BY <2>1, <2>2
<1>4. QED
  BY <1>3 DEF BasisInv

LEMMA BasisInvStep ==
  DataInv /\ ClockInv /\ RunsInv /\ BasisInv /\ [SimNext]_allVars => BasisInv'
<1> SUFFICES ASSUME DataInv, ClockInv, RunsInv, BasisInv, [SimNext]_allVars PROVE BasisInv'
  OBVIOUS
<1>1. CASE UNCHANGED simVars
  <2>1. UNCHANGED <<runs, pc, job, open>>
    BY <1>1 DEF simVars
  <2>2. /\ \A r : Covers(db, r) => Covers(db', r)
        /\ \A c : CandidateIds(db, c) \subseteq CandidateIds(db', c)
    BY ReadStep, RowsGrow, CoversGrows, CandidatesGrow
  <2>3. QED
    BY <2>1, <2>2 DEF BasisInv
<1>2. ASSUME NEW h \in SimHandlers, NEW c \in Simulate, Post(h, c) PROVE BasisInv'
  <2> DEFINE p == "insert"
  <2>1. /\ pc' = [pc EXCEPT ![h] = p] /\ job' = [job EXCEPT ![h] = c]
        /\ open' = [open EXCEPT ![h] = open[h]] /\ runs' = runs /\ db' = db
    BY <1>2 DEF Post, Goto, vars, RunsInv
  <2>2. p # "select" /\ p \notin {"mark", "reply", "commit"}
    OBVIOUS
  <2>3. \A r \in runs : Covers(db, r)
    BY DEF BasisInv
  <2> HIDE DEF p
  <2>4. QED
    BY <2>1, <2>2, <2>3, BasisLocal
<1>3. ASSUME NEW h \in SimHandlers, Insert(h) \/ InsertAgain(h) PROVE BasisInv'
  <2> DEFINE c == job[h]
  <2>1. c \in Simulate /\ (\A r \in runs' : Covers(db, r))
        /\ job' = [job EXCEPT ![h] = c] /\ db' = db
    BY <1>3 DEF Insert, InsertAgain, BasisInv, RunsInv, vars
  <2>2. CASE StoredRun(c.key) = {}
    <3> DEFINE p == "select"
               o == {NewRun(c)}
    <3>1. pc' = [pc EXCEPT ![h] = p] /\ open' = [open EXCEPT ![h] = o]
      BY <1>3, <2>2 DEF Insert, InsertAgain, Goto
    <3>2. \A r \in o : r.command = c /\ r.basis \subseteq CandidateIds(db, c)
      BY DEF NewRun, CandidateIds
    <3>3. p \notin {"mark", "reply", "commit"}
      OBVIOUS
    <3> HIDE DEF p, o, c
    <3>4. QED
      BY <2>1, <3>1, <3>2, <3>3, BasisLocal
  <2>3. CASE StoredRun(c.key) # {}
    <3>1. PICK p \in {"insert_again", "read_stored"} :
            pc' = [pc EXCEPT ![h] = p] /\ open' = [open EXCEPT ![h] = open[h]]
      BY <1>3, <2>3 DEF Insert, InsertAgain, Goto, RunsInv
    <3>2. p # "select" /\ p \notin {"mark", "reply", "commit"}
      OBVIOUS
    <3> HIDE DEF c
    <3>3. QED
      BY <2>1, <3>1, <3>2, BasisLocal
  <2>4. QED
    BY <2>2, <2>3
<1>4. ASSUME NEW h \in SimHandlers, ReadStored(h) PROVE BasisInv'
  <2> DEFINE p == "reply"
             c == job[h]
             o == open[h]
  <2>1. /\ pc' = [pc EXCEPT ![h] = p] /\ job' = [job EXCEPT ![h] = c]
        /\ open' = [open EXCEPT ![h] = o] /\ runs' = runs /\ db' = db
        /\ pc[h] = "read_stored"
    BY <1>4 DEF ReadStored, Goto, vars, RunsInv
  <2>2. o = {} /\ c \in Simulate /\ \A r \in runs : Covers(db, r)
    BY <2>1 DEF RunsInv, Session, BasisInv
  <2>3. p # "select"
    OBVIOUS
  <2> HIDE DEF p, o, c
  <2>4. QED
    BY <2>1, <2>2, <2>3, BasisLocal
<1>5. ASSUME NEW h \in SimHandlers, Select(h) PROVE BasisInv'
  <2> DEFINE p == "mark"
             c == job[h]
             o == {[r EXCEPT !.results = Computed(db, c)] : r \in open[h]}
  <2>1. /\ pc' = [pc EXCEPT ![h] = p] /\ job' = [job EXCEPT ![h] = c]
        /\ open' = [open EXCEPT ![h] = o] /\ runs' = runs /\ db' = db
        /\ pc[h] = "select"
    BY <1>5 DEF Select, Goto, vars, RunsInv, Computed
  <2>2. c \in Simulate /\ \A r \in runs : Covers(db, r)
    BY <2>1 DEF BasisInv
  <2>3. \A r \in o : Covers(db, r)
    <3> SUFFICES ASSUME NEW r \in open[h]
                 PROVE  Covers(db, [r EXCEPT !.results = Computed(db, c)])
      OBVIOUS
    <3> DEFINE s == [r EXCEPT !.results = Computed(db, c)]
    <3>1. DOMAIN r = {"key", "status", "command", "results", "basis"}
      BY <2>1 DEF RunsInv, Session
    <3>2. r.command = c /\ r.basis \in SUBSET CandidateIds(db, c)
      BY <2>1 DEF BasisInv
    <3>3. s.results = Computed(db, c) /\ s.command = c /\ s.basis = r.basis
      BY <3>1, <3>2
    <3>4. KeysHold(db) /\ TimesHold(db) /\ Finite(db)
      BY DEF DataInv, TypeOK, ClockInv
    <3> DEFINE basis == r.basis
    <3> HIDE DEF s, c, basis
    <3>5. LET covered == {x.execution : x \in Computed(db, c)}
          IN /\ Cardinality(Computed(db, c)) = Cardinality(covered)
             /\ covered \subseteq CandidateIds(db, c)
             /\ basis \subseteq covered \/ Cardinality(covered) = Limit(c.limit)
             /\ Newest(db, covered, basis)
             /\ Computes(db, c.config, Computed(db, c))
      BY <2>2, <3>2, <3>4, SelectCovers DEF basis
    <3>6. Covers(db, s)
      BY <3>2, <3>3, <3>5 DEF Covers, basis
    <3>7. QED
      BY <3>6 DEF s
  <2>4. p # "select"
    OBVIOUS
  <2> HIDE DEF p, o, c
  <2>5. QED
    BY <2>1, <2>2, <2>3, <2>4, BasisLocal
<1>6. ASSUME NEW h \in SimHandlers, MarkSucceeded(h) PROVE BasisInv'
  <2> DEFINE p == "reply"
             c == job[h]
             o == Marked(h)
  <2>1. /\ pc' = [pc EXCEPT ![h] = p] /\ job' = [job EXCEPT ![h] = c]
        /\ open' = [open EXCEPT ![h] = o] /\ runs' = runs /\ db' = db
        /\ pc[h] = "mark"
    BY <1>6 DEF MarkSucceeded, Goto, vars, RunsInv
  <2>2. c \in Simulate /\ \A r \in runs : Covers(db, r)
    BY <2>1 DEF BasisInv
  <2>3. \A r \in o : Covers(db, r)
    <3> SUFFICES ASSUME NEW r \in open[h]
                 PROVE  Covers(db, [r EXCEPT !.status = "succeeded"])
      BY DEF Marked
    <3>1. DOMAIN r = {"key", "status", "command", "results", "basis"} /\ Covers(db, r)
      BY <2>1 DEF RunsInv, Session, BasisInv
    <3> DEFINE s == [r EXCEPT !.status = "succeeded"]
    <3>2. s.results = r.results /\ s.command = r.command /\ s.basis = r.basis
      BY <3>1
    <3> HIDE DEF s
    <3>3. Covers(db, s)
      BY <3>1, <3>2 DEF Covers
    <3>4. QED
      BY <3>3 DEF s
  <2>4. p # "select"
    OBVIOUS
  <2> HIDE DEF p, o, c
  <2>5. QED
    BY <2>1, <2>2, <2>3, <2>4, BasisLocal
<1>7. ASSUME NEW h \in SimHandlers, Reply(h) PROVE BasisInv'
  <2> DEFINE p == "commit"
             c == job[h]
             o == open[h]
  <2>1. /\ pc' = [pc EXCEPT ![h] = p] /\ job' = [job EXCEPT ![h] = c]
        /\ open' = [open EXCEPT ![h] = o] /\ runs' = runs /\ db' = db
        /\ pc[h] = "reply"
    BY <1>7 DEF Reply, Goto, vars, RunsInv
  <2>2. c \in Simulate /\ (\A r \in runs : Covers(db, r)) /\ \A r \in o : Covers(db, r)
    BY <2>1 DEF BasisInv
  <2>3. p # "select"
    OBVIOUS
  <2> HIDE DEF p, o, c
  <2>4. QED
    BY <2>1, <2>2, <2>3, BasisLocal
<1>8. ASSUME NEW h \in SimHandlers, CommitRun(h) \/ Fail(h) PROVE BasisInv'
  <2> DEFINE p == "idle"
             o == {}
  <2>1. /\ pc' = [pc EXCEPT ![h] = p] /\ job' = [job EXCEPT ![h] = None]
        /\ open' = [open EXCEPT ![h] = o] /\ db' = db
    BY <1>8 DEF CommitRun, Fail, EndSession, Goto, vars
  <2>2. \A r \in runs' : Covers(db, r)
    <3>1. runs' = runs \/ (runs' = runs \cup open[h] /\ pc[h] = "commit")
      BY <1>8 DEF CommitRun, Fail
    <3>2. QED
      BY <3>1 DEF BasisInv
  <2>3. p = "idle" /\ p # "select" /\ p \notin {"mark", "reply", "commit"}
    OBVIOUS
  <2> HIDE DEF p, o
  <2>4. QED
    BY <2>1, <2>2, <2>3, BasisLocal
<1>9. QED
  BY <1>1, <1>2, <1>3, <1>4, <1>5, <1>6, <1>7, <1>8 DEF SimNext, allVars

\* A run has one result for each execution it covers, all of them matching ones, and
\* unless its limit cut it off it covers all that matched when it was inserted;
\* what the limit cut off is older than all that it left, whatever was ingested
\* meanwhile (simulation_store.py, simulation_selection.py).
THEOREM RunsAlwaysCoverTheirBasis == SimSpec => []RunsCoverTheirBasis
<1> DEFINE Inv == DataInv /\ ClockInv /\ RunsInv /\ BasisInv
<1>1. Inv => RunsCoverTheirBasis
  BY DEF BasisInv, RunsCoverTheirBasis, Covers, CandidateIds, Newest
<1>2. SimInit => Inv
  BY ReadInit, DataInvInit, ClockInvInit, RunsInvInit, BasisInvInit
<1>3. Inv /\ [SimNext]_allVars => Inv'
  BY ReadStep, DataInvStep, ClockInvStep, RunsInvStep, BasisInvStep
<1>4. QED
  BY <1>1, <1>2, <1>3, PTL DEF SimSpec

-----------------------------------------------------------------------------
(* What a run says was saved.                                               *)

SavedInv == \A e \in db.executions : SavedAgrees(e)

LEMMA SavedInvInit == SimInit => SavedInv
  BY SimulationsAssumption DEF SimInit, Init, SavedInv

LEMMA SavedInvStep == DataInv /\ SavedInv /\ [Next]_vars => SavedInv'
<1> SUFFICES ASSUME DataInv, SavedInv, [Next]_vars PROVE SavedInv'
  OBVIOUS
<1>1. ASSUME NEW t \in running, Commit(t) PROVE SavedInv'
  <2> DEFINE c == t.command
             execution == ExecutionRow(c, t.began)
  <2>1. db' = Ingested(db, c, t.began) /\ c \in Commands /\ KeysHold(db)
    BY <1>1 DEF Commit, DataInv, TypeOK
  <2>2. db'.executions = FirstWriter(db.executions, {execution})
    BY <2>1 DEF Ingested, KeysHold, NoRows
  <2>3. SavedAgrees(c)
    BY <2>1, SimulationsAssumption
  <2>4. SavedAgrees(execution)
    BY <2>3 DEF SavedAgrees, ExecutionRow
  <2>5. \A e \in db'.executions : e \in db.executions \/ e = execution
    BY <2>2 DEF FirstWriter
  <2>6. QED
    BY <2>4, <2>5 DEF SavedInv
<1>2. ASSUME NEW chunk \in db.chunks, Retrieve(chunk) PROVE SavedInv'
  <2>1. db'.executions = db.executions
    BY <1>2 DEF Retrieve, Retrieved, DataInv, TypeOK, KeysHold, NoRows
  <2>2. QED
    BY <2>1 DEF SavedInv
<1>3. CASE db' = db
  BY <1>3 DEF SavedInv
<1>4. QED
  BY <1>1, <1>2, <1>3, ReadSteps DEF vars, Begin, Ask, Read, NextPage, Answered, writeVars

\* What is matched one to one, value by value, has one total.
LEMMA SameTotal ==
  ASSUME NEW A, IsFiniteSet(A), NEW v, Whole(v, A), NEW B, IsFiniteSet(B),
         NEW g \in [A -> B], NEW w,
         \A e, o \in A : g[e] = g[o] => e = o,
         \A x \in B : \E e \in A : g[e] = x,
         \A e \in A : w[g[e]] = v[e]
  PROVE  Total(w, B) = Total(v, A)
<1>1. ASSUME NEW r \in B PROVE w[r] = Total(v, {x \in A : g[x] = r})
  <2>1. PICK e \in A : g[e] = r /\ {x \in A : g[x] = r} = {e}
    OBVIOUS
  <2>2. v[e] = w[r]
    BY <2>1
  <2>3. IsFiniteSet({e}) /\ Whole(v, {e}) /\ v[e] \in Int
    BY FS_Singleton DEF Whole
  <2>4. Total(v, {e}) = v[e] + Total(v, {e} \ {e})
    BY <2>3, TotalAnyFirst
  <2>5. {e} \ {e} = {}
    OBVIOUS
  <2>6. Total(v, {e} \ {e}) = 0
    BY <2>5, TotalOfNone
  <2>7. Total(v, {e}) = w[r]
    BY <2>2, <2>3, <2>4, <2>6
  <2>8. QED
    BY <2>1, <2>7
<1>2. QED
  BY <1>1, TotalOfGroups

\* Two sets of rows matched one to one, in which one field agrees, have one SUM.
LEMMA SameSum ==
  ASSUME NEW S, IsFiniteSet(S), NEW R, IsFiniteSet(R), NEW field,
         Tells(field, S), Tells(field, R), NEW match \in [S -> R],
         \A e, o \in S : match[e] = match[o] => e = o,
         \A x \in R : \E e \in S : match[e] = x,
         \A e \in S : match[e][field] = e[field]
  PROVE  SumOver(field, S) = SumOver(field, R)
<1> DEFINE A == Having(field, S)
           B == Having(field, R)
           v == Of(field, A)
           w == Of(field, B)
           g == [e \in A |-> match[e]]
<1>1. /\ IsFiniteSet(A) /\ Whole(v, A) /\ SumOver(field, S) = Total(v, A)
      /\ IsFiniteSet(B) /\ SumOver(field, R) = Total(w, B)
  BY SumSkipsNull
<1>2. g \in [A -> B]
  BY DEF Having
<1>3. /\ \A e, o \in A : g[e] = g[o] => e = o
      /\ \A x \in B : \E e \in A : g[e] = x
      /\ \A e \in A : w[g[e]] = v[e]
  BY DEF Having, Of
<1> HIDE DEF A, B, v, w, g
<1>4. Total(w, B) = Total(v, A)
  BY <1>1, <1>2, <1>3, SameTotal
<1>5. QED
  BY <1>1, <1>4

\* Without an override a result saves what its execution saved.
LEMMA NothingOverridden ==
  ASSUME NEW e, SavedAgrees(e), NEW x, FromExecution(x, e, NoOverride)
  PROVE  x.saved = e.saved
<1>1. CASE e.original = None
  BY <1>1 DEF SavedAgrees, FromExecution, SimulatedCompressed, Minus
<1>2. CASE e.original # None
  <2>1. x.compressed = e.compressed
    BY <1>2 DEF FromExecution, SimulatedCompressed, Adjusted, NoOverride
  <2>2. QED
    BY <2>1 DEF SavedAgrees, FromExecution
<1>3. QED
  BY <1>1, <1>2

LEMMA ResultsReproduceStatistics ==
  ASSUME DataInv, FiguresInv, SavedInv, NEW f, NEW results,
         Computes(db, NoOverride, results),
         {x.execution : x \in results} = Ids(db, f)
  PROVE  Sum(results, LAMBDA x : x.saved) = TokenTotals(db, f).saved
<1> DEFINE M == Matching(db, f)
           match == [e \in M |-> CHOOSE x \in results : x.execution = e.id]
<1>1. /\ M \in SUBSET db.executions /\ IsFiniteSet(M) /\ IsFiniteSet(results)
      /\ \A e, o \in db.executions : e.id = o.id => e = o
  <2>1. M \in SUBSET db.executions
    BY DEF Matching
  <2>2. QED
    BY <2>1, FS_Subset DEF DataInv, TypeOK, Finite, Computes, KeysHold
<1>2. \A e \in M : match[e] \in results /\ match[e].execution = e.id
  <2>1. \A e \in M : \E x \in results : x.execution = e.id
    BY DEF Ids
  <2> HIDE DEF M
  <2>2. QED
    BY <2>1
<1>3. \A x \in results : \E e \in M : match[e] = x
  <2> SUFFICES ASSUME NEW x \in results PROVE \E e \in M : match[e] = x
    OBVIOUS
  <2>1. PICK e \in M : x.execution = e.id
    BY DEF Ids
  <2> HIDE DEF M, match
  <2>2. match[e] = x
    BY <1>2, <2>1 DEF Computes
  <2>3. QED
    BY <2>2
<1>4. \A e \in M : match[e].saved = e.saved
  <2> SUFFICES ASSUME NEW e \in M PROVE match[e].saved = e.saved
    OBVIOUS
  <2> HIDE DEF M, match
  <2>1. PICK o \in db.executions : FromExecution(match[e], o, NoOverride)
    BY <1>2 DEF Computes
  <2>2. o = e
    BY <1>1, <1>2, <2>1 DEF FromExecution
  <2>3. SavedAgrees(e)
    BY <1>1 DEF SavedInv
  <2>4. QED
    BY <2>1, <2>2, <2>3, NothingOverridden
<1>5. \A e \in M : e["saved"] = None \/ e["saved"] \in Int
  BY <1>1 DEF FiguresInv, FiguresHold
<1>6. match \in [M -> results] /\ \A e, o \in M : match[e] = match[o] => e = o
  <2>1. match \in [M -> results]
    BY <1>2
  <2> HIDE DEF M, match
  <2>2. QED
    BY <1>1, <1>2, <2>1
<1> DEFINE field == "saved"
<1>7. /\ Tells(field, M) /\ Tells(field, results)
      /\ \A e \in M : match[e][field] = e[field]
  <2> HIDE DEF M, match
  <2>1. \A e \in M : match[e][field] = e[field]
    BY <1>4
  <2>2. QED
    BY <1>3, <1>5, <2>1 DEF Tells
<1>8. SumOver("saved", M) = SumOver("saved", results)
  <2> HIDE DEF M, match, field
  <2>1. SumOver(field, M) = SumOver(field, results)
    BY <1>1, <1>3, <1>6, <1>7, SameSum
  <2>2. QED
    BY <2>1 DEF field
<1>9. /\ SumOver("saved", results) = Sum(results, LAMBDA x : x.saved)
      /\ SumOver("saved", M) = TokenTotals(db, f).saved
  BY DEF SumOver, TokenTotals, Sum, SumOrNone, MapThenSumSet, MapThenFoldSet
<1>10. QED
  BY <1>8, <1>9

\* A simulation that overrides nothing and covers what a filter finds saves what
\* the statistics say was saved there, although ingestion went on meanwhile; what a
\* result saves is what its tokens say, and text below the threshold saves nothing
\* (simulation_calculation.py, simulation_store.py).
THEOREM ResultsAlwaysAddUp == SimSpec => []ResultsAddUp
<1> DEFINE Inv == DataInv /\ ClockInv /\ RunsInv /\ BasisInv /\ FiguresInv /\ SavedInv
<1>1. ASSUME Inv PROVE ResultsAddUp
  <2> SUFFICES ASSUME NEW r \in runs
               PROVE  /\ /\ r.command.config = NoOverride /\ r.command.request = None
                         /\ {x.execution : x \in r.results} = Ids(db, r.command.filter)
                         => Summary(r).saved = TokenTotals(db, r.command.filter).saved
                      /\ \A x \in r.results :
                           /\ x.saved = Minus(x.original, x.compressed)
                           /\ /\ r.command.config.threshold # None /\ x.original # None
                              /\ x.original < r.command.config.threshold
                              => x.saved = 0
    BY DEF ResultsAddUp
  <2> DEFINE config == r.command.config
             f == r.command.filter
             results == r.results
  <2>1. Computes(db, config, results)
    BY <1>1 DEF BasisInv, Covers
  <2>2. ASSUME config = NoOverride, {x.execution : x \in results} = Ids(db, f)
        PROVE  Summary(r).saved = TokenTotals(db, f).saved
    <3>1. Summary(r).saved = Sum(results, LAMBDA x : x.saved)
      BY DEF Summary
    <3>2. Computes(db, NoOverride, results)
      BY <2>1, <2>2
    <3> HIDE DEF config, f, results
    <3>3. Sum(results, LAMBDA x : x.saved) = TokenTotals(db, f).saved
      BY <1>1, <2>2, <3>2, ResultsReproduceStatistics
    <3>4. QED
      BY <3>1, <3>3
  <2>3. ASSUME NEW x \in results PROVE x.saved = Minus(x.original, x.compressed)
    BY <2>1 DEF Computes, FromExecution
  <2>4. ASSUME NEW x \in results, config.threshold # None, x.original # None,
               x.original < config.threshold
        PROVE  x.saved = 0
    <3>1. PICK e \in db.executions : FromExecution(x, e, config)
      BY <2>1 DEF Computes
    <3>2. x.compressed = x.original
      BY <2>4, <3>1 DEF FromExecution, SimulatedCompressed
    <3>3. x.original \in Int
      BY <1>1, <2>4, <3>1 DEF FiguresInv, FiguresHold, CountOrNone, FromExecution
    <3>4. x.saved = x.original - x.original
      BY <2>3, <2>4, <3>2 DEF Minus
    <3>5. QED
      BY <3>3, <3>4
  <2>5. QED
    BY <2>2, <2>3, <2>4
<1>2. SimInit => Inv
  BY ReadInit, DataInvInit, ClockInvInit, RunsInvInit, BasisInvInit, FiguresInvInit, SavedInvInit
<1>3. Inv /\ [SimNext]_allVars => Inv'
  BY ReadStep, DataInvStep, ClockInvStep, RunsInvStep, BasisInvStep, FiguresInvStep, SavedInvStep
<1>4. QED
  BY <1>1, <1>2, <1>3, PTL DEF SimSpec

=============================================================================
