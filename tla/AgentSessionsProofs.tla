------------------------- MODULE AgentSessionsProofs ------------------------
(***************************************************************************)
(* The managed home stays whole whatever launches and agents there are,    *)
(* the usefulness harness reports only what it did, whatever the plan, the *)
(* agents and the account, and a request reaches its provider as its       *)
(* client and the settings asked.                                          *)
(*                                                                         *)
(* HomeIsWhole is not inductive: a launch that met no other one must be    *)
(* known, at every step, to be the only one (Sole), to have loaded the     *)
(* preferences that are still saved (Loaded), to have written the config   *)
(* files that are still there, unless an agent has written them since      *)
(* (Wrote), and to have linked what it has passed (Passed), and what has   *)
(* come in the place of a link that a launch has seen must be newer than   *)
(* its look (Unlinking).                                                   *)
(*                                                                         *)
(* Nor are SuccessIsEarned and VerdictsAreTrue: a lane that has not begun  *)
(* must have spent nothing (Unbegun), the latest summary of one under way  *)
(* must tell what its session has used so far, and its first snapshot what *)
(* the account showed before that use (LaneInv), a lane that is done must  *)
(* still tell both of its session (DoneInv), and a summary on disk must be *)
(* of the results there are (DiskInv, EarnedInv).                          *)
(*                                                                         *)
(* ProviderSeesWhatWasAsked is the work of one hook that may run again on  *)
(* what it left: PreparationInv says what that is (the key it found or     *)
(* made, the session, the fields in extra_body, the tools), and SaidInv    *)
(* that every text of the request still stands in it at one place, and     *)
(* those of the system no later than they were (Moves).                    *)
(***************************************************************************)
EXTENDS UsefulnessRun, AgentHome, RequestPreparation, FiniteSetTheorems, SequenceTheorems,
        WellFoundedInduction, TLAPS

-----------------------------------------------------------------------------
(* The managed home *)

Values == {None} \cup UNION {Allowed[k] : k \in Keys}

Settled == [Keys -> Values] \cup {None}

Files == Items \cup [kind : {"config"}, content : Settled]

\* Where a launch is at one entry.
AtEntry == {"resolve", "exists", "unlink", "rename", "link"}

WrapperState ==
  [at : {"idle", "config", "profile", "save", "sync", "agent"} \cup AtEntry,
   launch : Launches \cup {None}, resolved : Settled, todo : SUBSET Linkable,
   entry : Entries \cup {None}, alone : BOOLEAN, since : Int, looked : Int,
   runs : Files \cup {None}]

TypeOK ==
  /\ native \in [Entries -> Files]
  /\ managed \in [Entries -> Files]
  /\ backups \in [Entries -> SUBSET Int]
  /\ preferences \in [Keys -> Values]
  /\ wrapper \in [Wrappers -> WrapperState]
  /\ writes \in Nat
  /\ kept \in [Entries -> SUBSET Int]
  /\ discarded \in [Entries -> SUBSET Int]
  /\ present \subseteq Entries

Sole(w) ==
  wrapper[w].alone /\ Launching(w) => \A u \in Wrappers \ {w} : ~Launching(u)

Loaded(w) ==
  wrapper[w].at \in {"config", "profile", "save"} =>
    /\ wrapper[w].resolved \in [Keys -> Values]
    /\ wrapper[w].alone => wrapper[w].resolved = Resolved(wrapper[w].launch, preferences)

Wrote(w) ==
  wrapper[w].alone =>
    /\ wrapper[w].at \in {"profile", "save", "sync"} \cup AtEntry =>
         Configures(managed[CONFIG], wrapper[w])
    /\ wrapper[w].at \in {"save", "sync"} \cup AtEntry =>
         Configures(managed[PROFILE], wrapper[w])

Syncing(w) == wrapper[w].at \in AtEntry => wrapper[w].entry \in Linkable

\* The entry is linked, or an agent has replaced it since w began.
Linked(w, e) ==
  \/ managed[e].kind = "link"
  \/ managed[e].kind = "file" /\ managed[e].content >= wrapper[w].since

Passed(w) ==
  (/\ wrapper[w].alone /\ wrapper[w].launch.links
   /\ wrapper[w].at \in {"sync"} \cup AtEntry)
  => \A e \in Linkable \ wrapper[w].todo :
       Linked(w, e) \/ (wrapper[w].at # "sync" /\ e = wrapper[w].entry)

\* What has come in the place of the link that w has seen is newer than its look.
Unlinking(w) ==
  /\ wrapper[w].since <= writes /\ wrapper[w].looked <= writes
  /\ wrapper[w].at \in {"resolve", "unlink"} =>
       (managed[wrapper[w].entry].kind = "file" =>
          managed[wrapper[w].entry].content >= wrapper[w].looked)

OwnFiles ==
  \A e \in Entries \cap Excluded : managed[e].kind # "link" /\ Contents(native[e]) = {0}

ChoicesSurvive == \A k \in Keys : chosen[k] \in {None, preferences[k]} \/ k \in lost

RunsResolved ==
  \A w \in Wrappers :
    wrapper[w].at = "agent" /\ wrapper[w].alone => Configures(wrapper[w].runs, wrapper[w])

HomeInv ==
  /\ TypeOK
  /\ \A w \in Wrappers : Sole(w) /\ Loaded(w) /\ Wrote(w) /\ Syncing(w)
  /\ \A w \in Wrappers : Passed(w) /\ Unlinking(w)
  /\ NothingIsLost
  /\ EntriesStay
  /\ OwnFiles
  /\ ChoicesSurvive
  /\ RunsResolved

LEMMA HomeInvImplies == HomeInv => HomeIsWhole
<1> SUFFICES ASSUME HomeInv PROVE HomeIsWhole
  OBVIOUS
<1>1. ASSUME NEW w \in Wrappers, wrapper[w].at = "sync", wrapper[w].todo = {},
             wrapper[w].alone, wrapper[w].launch.links, NEW e \in Linkable
      PROVE  \/ managed[e].kind = "link"
             \/ managed[e].kind = "file" /\ managed[e].content >= wrapper[w].since
  BY <1>1 DEF HomeInv, Passed, Linked
<1> QED
  BY <1>1 DEF HomeInv, HomeIsWhole, OwnFiles, ChoicesSurvive, RunsResolved

LEMMA HomeInvInit == HomeInit => HomeInv
<1> SUFFICES ASSUME HomeInit PROVE HomeInv
  OBVIOUS
<1> USE DEF HomeInit
<1>1. TypeOK
  <2>1. managed \in [Entries -> Items] /\ managed \in [Entries -> Files]
    BY HomesAssumption DEF Files
  <2>6. native \in [Entries -> Files]
    BY DEF Files, Items, File
  <2>2. Idle \in WrapperState
    BY DEF Idle, WrapperState, Settled
  <2>3. \A e \in Entries : Contents(managed[e]) \subseteq Int
    BY <2>1 DEF Items, Contents, Absent, Link
  <2>4. kept \in [Entries -> SUBSET Int]
    BY <2>3
  <2>5. preferences \in [Keys -> Values]
    BY DEF Values
  <2> QED
    BY <2>1, <2>2, <2>4, <2>5, <2>6 DEF TypeOK
<1>2. \A w \in Wrappers : wrapper[w] = Idle
  OBVIOUS
<1>3. ASSUME NEW w \in Wrappers
      PROVE  Sole(w) /\ Loaded(w) /\ Wrote(w) /\ Syncing(w) /\ Passed(w) /\ Unlinking(w)
  BY <1>2 DEF Sole, Loaded, Wrote, Syncing, Passed, Unlinking, Launching, Idle, AtEntry
<1>4. NothingIsLost
  BY DEF NothingIsLost, Contents, File
<1>5. EntriesStay
  BY DEF EntriesStay
<1>6. OwnFiles
  BY HomesAssumption DEF OwnFiles, Contents, File
<1>7. ChoicesSurvive
  BY DEF ChoicesSurvive
<1>8. RunsResolved
  BY <1>2 DEF RunsResolved, Idle
<1> QED
  BY <1>1, <1>3, <1>4, <1>5, <1>6, <1>7, <1>8 DEF HomeInv

\* A saved value is taken where there is no explicit choice.
LEMMA OrTakesSecond ==
  ASSUME NEW a, NEW b, NEW c, NEW d, NEW e, a = None, b # None
  PROVE  Or(<<a, b, c, d, e>>) = b
<1> DEFINE s == <<a, b, c, d, e>>
           there == {i \in DOMAIN s : s[i] # None}
<1>1. DOMAIN s = 1 .. 5 /\ s[1] = a /\ s[2] = b
  OBVIOUS
<1>2. 2 \in there /\ 1 \notin there /\ \A j \in there : j \in Int /\ 2 <= j
  BY <1>1
<1> HIDE DEF there
<1>3. (CHOOSE i \in there : \A j \in there : i <= j) = 2
  BY <1>2
<1> HIDE DEF s
<1>4. Or(s) = s[2]
  BY <1>2, <1>3 DEF Or, there
<1> QED
  BY <1>1, <1>4 DEF s

\* What a launch resolves keeps the saved values it has no choice for.
LEMMA ResolvedKeepsSaved ==
  ASSUME NEW launch, NEW saved, NEW k \in Keys, launch.shell[k] = None, saved[k] # None
  PROVE  Resolved(launch, saved)[k] = saved[k]
  BY OrTakesSecond DEF Resolved, PreferenceValue

LEMMA ResolvedTaken ==
  ASSUME NEW launch, NEW saved, NEW k \in Keys, launch.shell[k] # None
  PROVE  Resolved(launch, saved)[k] = launch.shell[k]
<1> DEFINE s == <<launch.shell[k], saved[k], launch.dotenv[k], launch.native[k], Fallback[k]>>
           there == {i \in DOMAIN s : s[i] # None}
<1>1. DOMAIN s = 1 .. 5 /\ s[1] = launch.shell[k]
  OBVIOUS
<1>2. 1 \in there /\ \A j \in there : j \in Int /\ 1 <= j
  BY <1>1
<1> HIDE DEF there
<1>3. (CHOOSE i \in there : \A j \in there : i <= j) = 1
  BY <1>2
<1> HIDE DEF s
<1>4. Or(s) = s[1]
  BY <1>2, <1>3 DEF Or, there
<1> QED
  BY <1>1, <1>4 DEF Resolved, PreferenceValue, s

-----------------------------------------------------------------------------
(* A step of one launch or agent, as the others see it *)

Own(w) == Sole(w) /\ Loaded(w) /\ Wrote(w) /\ Syncing(w) /\ Passed(w) /\ Unlinking(w)

\* A launch that met no other one is not there while w takes a step.
LEMMA OthersStep ==
  ASSUME HomeInv, NEW w \in Wrappers, Launching(w), NEW r,
         wrapper' = [wrapper EXCEPT ![w] = r], writes' = writes,
         \A e \in Entries : managed'[e] = managed[e] \/ managed'[e].kind # "file",
         NEW v \in Wrappers \ {w}
  PROVE  wrapper'[v] = wrapper[v] /\ Own(v)'
<1>1. wrapper'[v] = wrapper[v] /\ wrapper[v] \in WrapperState
  BY DEF HomeInv, TypeOK
<1>2. ~(wrapper[v].alone /\ Launching(v))
  BY DEF HomeInv, Sole
<1>3. Sole(v)'
  BY <1>1, <1>2 DEF Sole, Launching
<1>4. Loaded(v)'
  BY <1>1, <1>2 DEF HomeInv, Loaded, Launching
<1>5. Wrote(v)'
  BY <1>1, <1>2 DEF Wrote, Launching, AtEntry
<1>6. Syncing(v)'
  BY <1>1 DEF HomeInv, Syncing
<1>7. Passed(v)'
  BY <1>1, <1>2 DEF Passed, Launching, AtEntry
<1>8. Unlinking(v)'
  <2>1. Unlinking(v) /\ Syncing(v)
    BY DEF HomeInv
  <2>2. CASE wrapper[v].at \in {"resolve", "unlink"}
    <3>1. wrapper[v].entry \in Entries
      BY <2>1, <2>2 DEF Syncing, Linkable, AtEntry
    <3> QED
      BY <1>1, <2>1, <2>2, <3>1 DEF Unlinking
  <2>3. CASE wrapper[v].at \notin {"resolve", "unlink"}
    BY <1>1, <2>1, <2>3 DEF Unlinking
  <2> QED
    BY <2>2, <2>3
<1> QED
  BY <1>1, <1>3, <1>4, <1>5, <1>6, <1>7, <1>8 DEF Own

\* An agent's write changes what a launch knows of the names only for the newer.
LEMMA AgentStep ==
  ASSUME HomeInv, UNCHANGED <<wrapper, preferences>>, writes' = writes + 1,
         \A e \in Entries : managed'[e] = managed[e] \/ managed'[e] = File(writes),
         NEW v \in Wrappers
  PROVE  Own(v)'
<1>1. Sole(v) /\ Loaded(v) /\ Wrote(v) /\ Syncing(v) /\ Passed(v) /\ Unlinking(v)
  BY DEF HomeInv
<1>2. /\ wrapper[v].since \in Int /\ writes \in Int /\ wrapper[v].since <= writes
      /\ wrapper[v].looked \in Int /\ wrapper[v].looked <= writes
  BY <1>1 DEF HomeInv, TypeOK, WrapperState, Unlinking
<1>3. Sole(v)' /\ Loaded(v)' /\ Syncing(v)'
  BY <1>1 DEF Sole, Loaded, Syncing, Launching
<1>4. \A e \in Entries : Linked(v, e) => Linked(v, e)'
  BY <1>2 DEF Linked, File
<1>5. Passed(v)'
  BY <1>1, <1>4 DEF Passed, Linkable
<1>6. Unlinking(v)'
  <2>1. CASE wrapper[v].at \in {"resolve", "unlink"}
    <3>1. wrapper[v].entry \in Entries
      BY <1>1, <2>1 DEF Syncing, Linkable, AtEntry
    <3> QED
      BY <1>1, <1>2, <2>1, <3>1 DEF Unlinking, File
  <2>2. CASE wrapper[v].at \notin {"resolve", "unlink"}
    BY <1>1, <1>2, <2>2 DEF Unlinking
  <2> QED
    BY <2>1, <2>2
<1>7. Wrote(v)'
  <2>1. \A e \in Entries : Configures(managed[e], wrapper[v]) => Configures(managed'[e], wrapper[v])
    BY <1>2 DEF Configures, File
  <2> QED
    BY <1>1, <2>1, HomesAssumption DEF Wrote
<1> QED
  BY <1>3, <1>5, <1>6, <1>7 DEF Own

-----------------------------------------------------------------------------
(* One lemma per kind of step *)

LEMMA BeginKeeps ==
  ASSUME HomeInv, NEW w \in Wrappers, Begin(w)
  PROVE  HomeInv'
<1>0. PICK launch \in Launches :
      /\ Accepted(launch, Resolved(launch, preferences))
      /\ wrapper' =
           [v \in Wrappers |->
              IF v = w
              THEN [Idle EXCEPT !.at = "config", !.launch = launch,
                                !.resolved = Resolved(launch, preferences),
                                !.since = writes,
                                !.alone = \A u \in Wrappers : ~Launching(u)]
              ELSE IF Launching(v) THEN [wrapper[v] EXCEPT !.alone = FALSE] ELSE wrapper[v]]
  BY DEF Begin
<1>1. UNCHANGED <<native, managed, backups, preferences, writes, history>>
  BY DEF Begin
<1>2. wrapper[w].at = "idle" /\ ~Launching(w)
  BY DEF Begin, Launching
<1>3. Resolved(launch, preferences) \in [Keys -> Values]
  BY <1>0 DEF Accepted, Resolved, Values
<1>4. /\ wrapper'[w].at = "config" /\ wrapper'[w].launch = launch
      /\ wrapper'[w].resolved = Resolved(launch, preferences)
      /\ wrapper'[w].since = writes /\ wrapper'[w].looked = 0 /\ wrapper'[w].todo = {} /\ wrapper'[w].entry = None
      /\ wrapper'[w].runs = None
      /\ wrapper'[w].alone = \A u \in Wrappers : ~Launching(u)
      /\ wrapper'[w] \in WrapperState
  <2> DEFINE alone == \A u \in Wrappers : ~Launching(u)
  <2>1. writes \in Int
    BY DEF HomeInv, TypeOK
  <2>2. wrapper'[w] = [Idle EXCEPT !.at = "config", !.launch = launch,
                                   !.resolved = Resolved(launch, preferences),
                                   !.since = writes, !.alone = alone]
    BY <1>0
  <2>3. alone \in BOOLEAN
    OBVIOUS
  <2> HIDE DEF alone
  <2>4. wrapper'[w] = [at |-> "config", launch |-> launch,
                       resolved |-> Resolved(launch, preferences), todo |-> {}, entry |-> None,
                       alone |-> alone, since |-> writes, looked |-> 0, runs |-> None]
    BY <2>2 DEF Idle
  <2>5. wrapper'[w] \in WrapperState
    BY <1>3, <2>1, <2>3, <2>4 DEF WrapperState, Settled
  <2> QED
    BY <2>4, <2>5 DEF alone
<1>5. ASSUME NEW v \in Wrappers \ {w}
      PROVE  /\ wrapper'[v] = IF Launching(v) THEN [wrapper[v] EXCEPT !.alone = FALSE]
                              ELSE wrapper[v]
             /\ wrapper[v] \in WrapperState /\ wrapper'[v] \in WrapperState
             /\ wrapper'[v].at = wrapper[v].at /\ wrapper'[v].launch = wrapper[v].launch
             /\ wrapper'[v].resolved = wrapper[v].resolved
             /\ wrapper'[v].todo = wrapper[v].todo /\ wrapper'[v].entry = wrapper[v].entry
             /\ wrapper'[v].since = wrapper[v].since /\ wrapper'[v].looked = wrapper[v].looked
             /\ wrapper'[v].runs = wrapper[v].runs
             /\ Launching(v) => ~wrapper'[v].alone
             /\ ~Launching(v) => wrapper'[v].alone = wrapper[v].alone
  <2>1. wrapper[v] \in WrapperState
    BY DEF HomeInv, TypeOK
  <2>2. wrapper'[v] = IF Launching(v) THEN [wrapper[v] EXCEPT !.alone = FALSE] ELSE wrapper[v]
    BY <1>0
  <2> QED
    BY <2>1, <2>2 DEF WrapperState
<1>6. TypeOK'
  <2>1. \A v \in Wrappers : wrapper'[v] \in WrapperState
    BY <1>4, <1>5
  <2>2. wrapper' \in [Wrappers -> WrapperState]
    BY <1>0, <2>1
  <2> QED
    BY <1>1, <2>2 DEF HomeInv, TypeOK, history
<1>7. Own(w)'
  <2>1. Sole(w)'
    BY <1>4, <1>5 DEF Sole, Launching
  <2>2. Loaded(w)' /\ Wrote(w)' /\ Syncing(w)' /\ Passed(w)'
    BY <1>1, <1>3, <1>4 DEF Loaded, Wrote, Syncing, Passed, AtEntry
  <2>3. writes \in Nat /\ writes' = writes
    BY <1>1 DEF HomeInv, TypeOK
  <2>4. Unlinking(w)'
    BY <1>4, <2>3 DEF Unlinking
  <2> QED
    BY <2>1, <2>2, <2>4 DEF Own
<1>8. ASSUME NEW v \in Wrappers \ {w}
      PROVE  Own(v)'
  <2>1. Sole(v) /\ Loaded(v) /\ Wrote(v) /\ Syncing(v) /\ Passed(v) /\ Unlinking(v)
    BY DEF HomeInv
  <2>2. Launching(v)' => ~wrapper'[v].alone
    BY <1>5 DEF Launching
  <2>3. Sole(v)' /\ Loaded(v)' /\ Syncing(v)'
    BY <1>1, <1>5, <2>1, <2>2 DEF Sole, Loaded, Syncing, Launching
  <2>4. Wrote(v)' /\ Passed(v)'
    BY <2>2 DEF Wrote, Passed, Launching, AtEntry
  <2>5. Unlinking(v)'
    BY <1>1, <1>5, <2>1 DEF Unlinking
  <2> QED
    BY <2>3, <2>4, <2>5 DEF Own
<1>9. NothingIsLost' /\ OwnFiles' /\ ChoicesSurvive'
  BY <1>1 DEF HomeInv, NothingIsLost, OwnFiles, ChoicesSurvive, history
<1>10. EntriesStay'
  <2>1. \A v \in Wrappers : wrapper[v].at = "link" =>
          wrapper'[v].at = "link" /\ wrapper'[v].entry = wrapper[v].entry
    BY <1>2, <1>5
  <2>2. managed' = managed /\ present' = present /\ torn' = torn
    BY <1>1 DEF history
  <2>3. EntriesStay
    BY DEF HomeInv
  <2> QED
    BY <2>1, <2>2, <2>3 DEF EntriesStay
<1>11. RunsResolved'
  <2>1. ASSUME NEW v \in Wrappers, wrapper'[v].at = "agent", wrapper'[v].alone
        PROVE  Configures(wrapper'[v].runs, wrapper'[v])
    <3>1. v # w
      BY <1>4, <2>1
    <3>2. wrapper[v].at = "agent" /\ ~Launching(v)
      BY <1>5, <2>1, <3>1 DEF Launching
    <3>3. wrapper[v].alone /\ wrapper'[v].runs = wrapper[v].runs
          /\ wrapper'[v].resolved = wrapper[v].resolved /\ wrapper'[v].since = wrapper[v].since
      BY <1>5, <2>1, <3>1, <3>2
    <3> QED
      BY <3>2, <3>3 DEF HomeInv, RunsResolved, Configures
  <2> QED
    BY <2>1 DEF RunsResolved
<1> QED
  BY <1>6, <1>7, <1>8, <1>9, <1>10, <1>11 DEF HomeInv, Own

\* What is left to show of a step of a launch.
LEMMA LaunchStep ==
  ASSUME HomeInv, NEW w \in Wrappers, Launching(w), NEW r \in WrapperState,
         wrapper' = [wrapper EXCEPT ![w] = r],
         UNCHANGED <<native, kept, writes>>,
         managed' \in [Entries -> Files],
         \A e \in Entries : managed'[e] = managed[e] \/ managed'[e].kind # "file",
         backups' \in [Entries -> SUBSET Int], preferences' \in [Keys -> Values],
         discarded' \in [Entries -> SUBSET Int], present' \subseteq Entries,
         r.at = "agent" /\ r.alone => Configures(r.runs, r),
         Own(w)', NothingIsLost', EntriesStay', OwnFiles', ChoicesSurvive'
  PROVE  HomeInv'
<1>1. wrapper'[w] = r /\ wrapper' \in [Wrappers -> WrapperState]
  BY DEF HomeInv, TypeOK
<1>2. TypeOK'
  BY <1>1 DEF HomeInv, TypeOK
<1>3. \A v \in Wrappers \ {w} : wrapper'[v] = wrapper[v] /\ Own(v)'
  BY OthersStep
<1>4. RunsResolved'
  BY <1>1, <1>3 DEF HomeInv, RunsResolved
<1> QED
  BY <1>2, <1>3, <1>4 DEF HomeInv, Own

\* The same where no name and no content changes.
LEMMA QuietStep ==
  ASSUME HomeInv, NEW w \in Wrappers, Launching(w), NEW r \in WrapperState,
         wrapper' = [wrapper EXCEPT ![w] = r],
         UNCHANGED <<native, managed, backups, kept, discarded, present, writes>>,
         torn \subseteq torn',
         \/ wrapper[w].at # "link"
         \/ managed[wrapper[w].entry].kind # "none"
         \/ wrapper[w].entry \in torn',
         preferences' \in [Keys -> Values],
         r.at = "agent" /\ r.alone => Configures(r.runs, r),
         Own(w)', ChoicesSurvive'
  PROVE  HomeInv'
<1>1. /\ managed' \in [Entries -> Files] /\ backups' \in [Entries -> SUBSET Int]
      /\ discarded' \in [Entries -> SUBSET Int] /\ present' \subseteq Entries
  BY DEF HomeInv, TypeOK
<1>2. NothingIsLost' /\ OwnFiles'
  BY DEF HomeInv, NothingIsLost, OwnFiles
<1>3. EntriesStay'
  <2> SUFFICES ASSUME NEW e \in present, managed[e].kind = "none", e \notin torn'
               PROVE  \E v \in Wrappers : wrapper'[v].at = "link" /\ wrapper'[v].entry = e
    BY DEF EntriesStay
  <2>1. PICK v \in Wrappers : wrapper[v].at = "link" /\ wrapper[v].entry = e
    BY DEF HomeInv, EntriesStay
  <2>2. v # w
    BY <2>1
  <2>3. wrapper'[v] = wrapper[v]
    BY <2>2 DEF HomeInv, TypeOK
  <2> QED
    BY <2>1, <2>3
<1> QED
  BY <1>1, <1>2, <1>3, LaunchStep

\* A launch writes one of its config files, which is no link.
LEMMA GenerateStep ==
  ASSUME HomeInv, NEW w \in Wrappers, wrapper[w].at \in {"config", "profile"},
         NEW e \in {CONFIG, PROFILE}, NEW written \in Settled, Generate(e, written),
         NEW r \in WrapperState, wrapper' = [wrapper EXCEPT ![w] = r], r.at # "agent",
         Own(w)'
  PROVE  HomeInv'
<1>1. /\ e \in Entries \cap Excluded /\ managed[e].kind # "link"
      /\ managed \in [Entries -> Files] /\ discarded \in [Entries -> SUBSET Int]
  BY HomesAssumption DEF HomeInv, OwnFiles, TypeOK
<1>2. /\ managed' = [managed EXCEPT ![e] = Config(written)]
      /\ discarded' = [discarded EXCEPT ![e] = @ \cup Contents(managed[e])]
      /\ present' = present \cup {e} /\ torn' = torn \ {e}
      /\ UNCHANGED <<native, backups, preferences, writes, kept, chosen, lost>>
  BY <1>1 DEF Generate, Through, Appears
<1>3. /\ managed' \in [Entries -> Files] /\ managed'[e].kind = "config"
      /\ \A f \in Entries \ {e} : managed'[f] = managed[f]
  BY <1>1, <1>2 DEF Files, Config
<1>4. Contents(managed[e]) \in SUBSET Int
  BY <1>1 DEF Contents, Files, Items, Absent, Link
<1>5. /\ discarded' \in [Entries -> SUBSET Int]
      /\ discarded'[e] = discarded[e] \cup Contents(managed[e])
      /\ \A f \in Entries \ {e} : discarded'[f] = discarded[f]
  BY <1>1, <1>2, <1>4
<1>6. NothingIsLost'
  <2> SUFFICES ASSUME NEW f \in Entries
               PROVE  kept[f] \subseteq Contents(native[f]) \cup Contents(managed'[f])
                                            \cup backups[f] \cup discarded'[f]
    BY <1>2 DEF NothingIsLost
  <2>1. kept[f] \subseteq Contents(native[f]) \cup Contents(managed[f])
                           \cup backups[f] \cup discarded[f]
    BY DEF HomeInv, NothingIsLost
  <2>2. CASE f = e
    BY <1>5, <2>1, <2>2
  <2>3. CASE f # e
    BY <1>3, <1>5, <2>1, <2>3
  <2> QED
    BY <2>2, <2>3
<1>7. EntriesStay'
  <2> SUFFICES ASSUME NEW f \in present \cup {e}, managed'[f].kind = "none", f \notin torn \ {e}
               PROVE  \E v \in Wrappers : wrapper'[v].at = "link" /\ wrapper'[v].entry = f
    BY <1>2 DEF EntriesStay
  <2>1. f # e
    BY <1>3
  <2>2. f \in Entries /\ managed[f].kind = "none"
    BY <1>3, <2>1 DEF HomeInv, TypeOK
  <2>3. PICK v \in Wrappers : wrapper[v].at = "link" /\ wrapper[v].entry = f
    BY <2>1, <2>2 DEF HomeInv, EntriesStay
  <2>4. v # w
    BY <2>3
  <2>5. wrapper'[v] = wrapper[v]
    BY <2>4 DEF HomeInv, TypeOK
  <2> QED
    BY <2>3, <2>5
<1>8. OwnFiles' /\ ChoicesSurvive'
  BY <1>1, <1>2, <1>3 DEF HomeInv, OwnFiles, ChoicesSurvive
<1>9. \A f \in Entries : managed'[f] = managed[f] \/ managed'[f].kind # "file"
  BY <1>3
<1>10. /\ backups' \in [Entries -> SUBSET Int] /\ preferences' \in [Keys -> Values]
       /\ present' \subseteq Entries
  BY <1>1, <1>2 DEF HomeInv, TypeOK
<1>11. UNCHANGED <<native, kept, writes>>
  BY <1>2
<1>12. Launching(w)
  BY DEF Launching
<1> QED
  BY <1>3, <1>5, <1>6, <1>7, <1>8, <1>9, <1>10, <1>11, <1>12, LaunchStep

LEMMA ConfigKeeps ==
  ASSUME HomeInv, NEW w \in Wrappers, WriteConfig(w) \/ WriteProfile(w)
  PROVE  HomeInv'
<1> DEFINE next == IF wrapper[w].at = "config" THEN "profile" ELSE "save"
           e == IF wrapper[w].at = "config" THEN CONFIG ELSE PROFILE
           r == [wrapper[w] EXCEPT !.at = next]
<1>1. /\ wrapper[w] \in WrapperState /\ wrapper[w].at \in {"config", "profile"}
      /\ Sole(w) /\ Loaded(w) /\ Wrote(w) /\ Unlinking(w)
  BY DEF HomeInv, TypeOK, WriteConfig, WriteProfile
<1>2. wrapper' = [wrapper EXCEPT ![w] = r]
  BY DEF WriteConfig, WriteProfile
<1>3. Generate(e, wrapper[w].resolved) /\ wrapper[w].resolved \in Settled
  BY <1>1 DEF WriteConfig, WriteProfile, WrapperState
<1>4. preferences' = preferences /\ writes' = writes
  BY <1>3 DEF Generate
<1>5. /\ managed'[e] = Config(wrapper[w].resolved)
      /\ e # CONFIG => managed'[CONFIG] = managed[CONFIG]
  <2>1. e \in Entries \cap Excluded /\ CONFIG \in Entries /\ managed[e].kind # "link"
    BY HomesAssumption DEF HomeInv, OwnFiles
  <2>2. managed \in [Entries -> Files]
    BY DEF HomeInv, TypeOK
  <2>3. managed' = [managed EXCEPT ![e] = Config(wrapper[w].resolved)]
    BY <1>3, <2>1 DEF Generate, Through
  <2> QED
    BY <2>1, <2>2, <2>3
<1>6. /\ r \in WrapperState /\ r.at = next /\ r.launch = wrapper[w].launch
      /\ r.resolved = wrapper[w].resolved /\ r.alone = wrapper[w].alone
      /\ r.since = wrapper[w].since /\ r.looked = wrapper[w].looked
  BY <1>1 DEF WrapperState
<1>7. wrapper'[w] = r /\ \A v \in Wrappers \ {w} : wrapper'[v] = wrapper[v]
  BY <1>2 DEF HomeInv, TypeOK
<1> HIDE DEF r
<1>8. Sole(w)'
  BY <1>1, <1>6, <1>7 DEF Sole, Launching
<1>9. Loaded(w)'
  BY <1>1, <1>4, <1>6, <1>7 DEF Loaded
<1>10. Wrote(w)'
  <2>1. Configures(managed'[e], wrapper'[w])
    BY <1>5, <1>6, <1>7 DEF Configures, Config
  <2>2. CASE wrapper[w].at = "config"
    BY <1>6, <1>7, <2>1, <2>2 DEF Wrote, AtEntry
  <2>3. CASE wrapper[w].at = "profile"
    <3>1. e = PROFILE /\ e # CONFIG
      BY <2>3 DEF PROFILE, CONFIG
    <3>2. wrapper'[w].alone => Configures(managed'[CONFIG], wrapper'[w])
      BY <1>1, <1>5, <1>6, <1>7, <2>3, <3>1 DEF Wrote, Configures
    <3> QED
      BY <2>1, <3>1, <3>2 DEF Wrote
  <2> QED
    BY <1>1, <2>2, <2>3
<1>11. Syncing(w)' /\ Passed(w)'
  BY <1>1, <1>6, <1>7 DEF Syncing, Passed, AtEntry
<1>12. Unlinking(w)'
  BY <1>1, <1>4, <1>6, <1>7 DEF Unlinking
<1>13. Own(w)' /\ r.at # "agent" /\ e \in {CONFIG, PROFILE}
  BY <1>1, <1>6, <1>8, <1>9, <1>10, <1>11, <1>12 DEF Own
<1> HIDE DEF e
<1> QED
  BY <1>1, <1>2, <1>3, <1>6, <1>13, GenerateStep

LEMMA SaveKeeps ==
  ASSUME HomeInv, NEW w \in Wrappers, SavePreferences(w)
  PROVE  HomeInv'
<1> DEFINE left == IF wrapper[w].launch.links THEN Linkable ELSE {}
           r == [wrapper[w] EXCEPT !.at = "sync", !.todo = left]
<1>1. /\ wrapper[w] \in WrapperState /\ wrapper[w].at = "save" /\ Launching(w)
      /\ Sole(w) /\ Loaded(w) /\ Wrote(w) /\ Unlinking(w)
  BY DEF HomeInv, TypeOK, SavePreferences, Launching
<1>2. wrapper' = [wrapper EXCEPT ![w] = r]
  BY DEF SavePreferences
<1>3. UNCHANGED <<native, managed, backups, writes, kept, discarded, present, torn>>
  BY DEF SavePreferences
<1>4. preferences' = wrapper[w].resolved
  BY DEF SavePreferences
<1>5. /\ r \in WrapperState /\ r.at = "sync" /\ r.launch = wrapper[w].launch
      /\ r.resolved = wrapper[w].resolved /\ r.alone = wrapper[w].alone
      /\ r.since = wrapper[w].since /\ r.looked = wrapper[w].looked /\ r.todo = left
  BY <1>1 DEF WrapperState
<1>6. wrapper'[w] = r /\ \A v \in Wrappers \ {w} : wrapper'[v] = wrapper[v]
  BY <1>2 DEF HomeInv, TypeOK
<1> HIDE DEF r
<1>7. Sole(w)'
  BY <1>1, <1>5, <1>6 DEF Sole, Launching
<1>8. Loaded(w)' /\ Syncing(w)'
  BY <1>5, <1>6 DEF Loaded, Syncing, AtEntry
<1>9. Wrote(w)'
  BY <1>1, <1>3, <1>5, <1>6 DEF Wrote, Configures
<1>10. Passed(w)'
  BY <1>5, <1>6 DEF Passed
<1>11. Unlinking(w)'
  BY <1>1, <1>3, <1>5, <1>6 DEF Unlinking
<1>12. ASSUME NEW k \in Keys, chosen'[k] \notin {None, preferences'[k]}, k \notin lost'
       PROVE  FALSE
  <2>1. chosen'[k] = IF wrapper[w].launch.shell[k] # None
                     THEN wrapper[w].launch.shell[k] ELSE chosen[k]
    BY DEF SavePreferences
  <2>2. k \notin lost /\ wrapper[w].alone
    BY <1>1, <1>12 DEF SavePreferences, WrapperState
  <2>3. preferences' = Resolved(wrapper[w].launch, preferences)
    BY <1>1, <1>4, <2>2 DEF Loaded
  <2>4. CASE wrapper[w].launch.shell[k] # None
    BY <1>12, <2>1, <2>3, <2>4, ResolvedTaken
  <2>5. CASE wrapper[w].launch.shell[k] = None
    <3>1. chosen[k] # None /\ chosen[k] = preferences[k]
      BY <1>12, <2>1, <2>2, <2>5 DEF HomeInv, ChoicesSurvive
    <3> QED
      BY <1>12, <2>1, <2>3, <2>5, <3>1, ResolvedKeepsSaved
  <2> QED
    BY <2>4, <2>5
<1>13. ChoicesSurvive'
  BY <1>12 DEF ChoicesSurvive
<1>14. preferences' \in [Keys -> Values]
  BY <1>1, <1>4 DEF Loaded
<1>15. Own(w)'
  BY <1>7, <1>8, <1>9, <1>10, <1>11 DEF Own
<1> QED
  BY <1>1, <1>2, <1>3, <1>5, <1>13, <1>14, <1>15, QuietStep

\* What a launch sees of an entry decides where it goes on.
LEMMA SeesStep ==
  ASSUME HomeInv, NEW w \in Wrappers, NEW e \in Linkable, NEW looked \in Int,
         NEW todo \in SUBSET Linkable, NEW next \in {"sync"} \cup AtEntry,
         wrapper[w].at \in {"sync", "resolve", "exists"},
         \/ wrapper[w].at = "sync" /\ e \in wrapper[w].todo /\ todo = wrapper[w].todo \ {e}
         \/ wrapper[w].at \in AtEntry /\ e = wrapper[w].entry /\ todo = wrapper[w].todo,
         NEW r, r = [wrapper[w] EXCEPT !.todo = todo, !.entry = e, !.looked = looked, !.at = next],
         wrapper' = [wrapper EXCEPT ![w] = r],
         looked <= writes,
         next = "sync" => managed[e].kind = "link",
         next \in {"resolve", "unlink"} /\ managed[e].kind = "file" => managed[e].content >= looked,
         UNCHANGED <<native, managed, backups, preferences, writes, history>>
  PROVE  HomeInv'
<1>1. /\ wrapper[w] \in WrapperState /\ Launching(w) /\ e \in Entries
      /\ Sole(w) /\ Wrote(w) /\ Passed(w) /\ Unlinking(w)
  BY DEF HomeInv, TypeOK, Launching, Linkable
<1>2. wrapper' = [wrapper EXCEPT ![w] = r]
  OBVIOUS
<1>3. UNCHANGED <<native, managed, backups, preferences, writes, kept, discarded,
                  present, torn, chosen, lost>>
  BY DEF history
<1>4. next # "agent" /\ next # "idle" /\ next \notin {"config", "profile", "save"}
  BY DEF AtEntry
<1>5. /\ r \in WrapperState /\ r.at = next /\ r.launch = wrapper[w].launch
      /\ r.resolved = wrapper[w].resolved /\ r.alone = wrapper[w].alone
      /\ r.since = wrapper[w].since /\ r.looked = looked /\ r.todo = todo /\ r.entry = e
  BY <1>1 DEF WrapperState
<1>6. wrapper'[w] = r /\ \A v \in Wrappers \ {w} : wrapper'[v] = wrapper[v]
  BY <1>2 DEF HomeInv, TypeOK
<1>7. Sole(w)'
  BY <1>1, <1>4, <1>5, <1>6 DEF Sole, Launching
<1>8. Loaded(w)' /\ Syncing(w)'
  BY <1>4, <1>5, <1>6 DEF Loaded, Syncing
<1>9. Wrote(w)'
  BY <1>1, <1>3, <1>5, <1>6 DEF Wrote, Configures, AtEntry
<1>10. Passed(w)'
  <2> SUFFICES ASSUME wrapper[w].alone, wrapper[w].launch.links,
                      NEW f \in Linkable, f \notin todo
               PROVE  Linked(w, f)' \/ (next # "sync" /\ f = e)
    BY <1>5, <1>6 DEF Passed
  <2>1. CASE f = e
    BY <1>3, <2>1 DEF Linked
  <2>2. CASE f # e
    <3>1. wrapper[w].at \in {"sync"} \cup AtEntry /\ f \notin wrapper[w].todo
          /\ (wrapper[w].at # "sync" => f # wrapper[w].entry)
      BY <2>2 DEF AtEntry
    <3>2. Linked(w, f)
      BY <1>1, <3>1 DEF Passed
    <3> QED
      BY <1>3, <1>5, <1>6, <3>2 DEF Linked
  <2> QED
    BY <2>1, <2>2
<1>11. Unlinking(w)'
  BY <1>1, <1>3, <1>5, <1>6 DEF Unlinking
<1>12. ChoicesSurvive' /\ preferences' \in [Keys -> Values]
  BY <1>3 DEF HomeInv, ChoicesSurvive, TypeOK
<1>13. Own(w)'
  BY <1>7, <1>8, <1>9, <1>10, <1>11 DEF Own
<1>14. r.at # "agent" /\ wrapper[w].at # "link"
  BY <1>4, <1>5
<1> QED
  BY <1>1, <1>2, <1>3, <1>5, <1>12, <1>13, <1>14, QuietStep

LEMMA LookKeeps ==
  ASSUME HomeInv, NEW w \in Wrappers, NEW e \in Entries, Look(w, e)
  PROVE  HomeInv'
<1> DEFINE next == IF managed[e].kind \in {"link", "foreign"} THEN "resolve" ELSE "exists"
           todo == wrapper[w].todo \ {e}
           r == [wrapper[w] EXCEPT !.todo = todo, !.entry = e, !.looked = writes, !.at = next]
<1>1. /\ wrapper \in [Wrappers -> WrapperState] /\ wrapper[w].at = "sync"
      /\ e \in wrapper[w].todo /\ e \in Linkable /\ todo \in SUBSET Linkable
      /\ writes \in Int /\ writes <= writes
  BY DEF HomeInv, TypeOK, Look, WrapperState
<1>2. /\ next \in {"sync"} \cup AtEntry
      /\ next = "sync" => managed[e].kind = "link"
      /\ next \in {"resolve", "unlink"} /\ managed[e].kind = "file" => managed[e].content >= writes
  BY DEF AtEntry
<1>3. /\ wrapper' = [wrapper EXCEPT ![w] = r]
      /\ UNCHANGED <<native, managed, backups, preferences, writes, history>>
  BY <1>1 DEF Look
<1>4. /\ wrapper[w].at \in {"sync", "resolve", "exists"}
      /\ \/ wrapper[w].at = "sync" /\ e \in wrapper[w].todo /\ todo = wrapper[w].todo \ {e}
         \/ wrapper[w].at \in AtEntry /\ e = wrapper[w].entry /\ todo = wrapper[w].todo
  BY <1>1
<1>5. r = [wrapper[w] EXCEPT !.todo = todo, !.entry = e, !.looked = writes, !.at = next]
  OBVIOUS
<1> HIDE DEF next, todo, r
<1> QED
  BY <1>1, <1>2, <1>3, <1>4, <1>5, SeesStep

LEMMA ResolveKeeps ==
  ASSUME HomeInv, NEW w \in Wrappers, Resolve(w) \/ Exists(w)
  PROVE  HomeInv'
<1> DEFINE e == wrapper[w].entry
           next == IF wrapper[w].at = "resolve"
                   THEN IF managed[e].kind = "link" THEN "sync" ELSE "unlink"
                   ELSE IF managed[e].kind = "none" THEN "link" ELSE "rename"
           todo == wrapper[w].todo
           looked == wrapper[w].looked
           r == [wrapper[w] EXCEPT !.at = next]
<1>1. /\ wrapper \in [Wrappers -> WrapperState] /\ wrapper[w].at \in {"resolve", "exists"}
      /\ Syncing(w) /\ Unlinking(w)
  BY DEF HomeInv, TypeOK, Resolve, Exists
<1>2. /\ e \in Linkable /\ todo \in SUBSET Linkable /\ looked \in Int /\ looked <= writes
      /\ wrapper[w].at \in AtEntry
  BY <1>1 DEF Syncing, AtEntry, WrapperState, Unlinking
<1>3. /\ next \in {"sync"} \cup AtEntry
      /\ next = "sync" => managed[e].kind = "link"
      /\ next # "resolve" /\ (next = "unlink" => wrapper[w].at = "resolve")
  BY DEF AtEntry
<1>4. next \in {"resolve", "unlink"} /\ managed[e].kind = "file" => managed[e].content >= looked
  BY <1>1, <1>3 DEF Unlinking
<1>5. /\ wrapper' = [wrapper EXCEPT ![w] = r]
      /\ UNCHANGED <<native, managed, backups, preferences, writes, history>>
  BY <1>1 DEF Resolve, Exists
<1>6. r = [wrapper[w] EXCEPT !.todo = todo, !.entry = e, !.looked = looked, !.at = next]
  <2>1. wrapper[w] \in WrapperState
    BY <1>1
  <2> HIDE DEF next
  <2> QED
    BY <2>1 DEF WrapperState
<1>7. /\ wrapper[w].at \in {"sync", "resolve", "exists"}
      /\ \/ wrapper[w].at = "sync" /\ e \in wrapper[w].todo /\ todo = wrapper[w].todo \ {e}
         \/ wrapper[w].at \in AtEntry /\ e = wrapper[w].entry /\ todo = wrapper[w].todo
  BY <1>1, <1>2
<1> HIDE DEF e, next, todo, looked, r
<1> QED
  BY <1>2, <1>3, <1>4, <1>5, <1>6, <1>7, SeesStep

\* A launch that ends holds nothing any more.
LEMMA IdleOwn ==
  ASSUME HomeInv, NEW w \in Wrappers, wrapper' = [wrapper EXCEPT ![w] = Idle], writes' = writes
  PROVE  Own(w)' /\ Idle \in WrapperState
<1>1. wrapper'[w] = Idle
  BY DEF HomeInv, TypeOK
<1>2. writes' \in Int
  BY DEF HomeInv, TypeOK
<1>3. Idle \in WrapperState
  BY DEF Idle, WrapperState, Settled
<1>4. Idle.since <= writes' /\ Idle.looked <= writes'
  <2>1. 0 <= writes
    BY DEF HomeInv, TypeOK
  <2> QED
    BY <2>1, <1>2 DEF Idle
<1> QED
  BY <1>1, <1>3, <1>4
  DEF Own, Sole, Loaded, Wrote, Syncing, Passed, Unlinking, Launching, Idle, AtEntry

LEMMA SyncFailsKeeps ==
  ASSUME HomeInv, NEW w \in Wrappers, SyncFails(w)
  PROVE  HomeInv'
<1>1. /\ Launching(w)
      /\ wrapper' = [wrapper EXCEPT ![w] = Idle]
      /\ wrapper[w].at # "link" \/ managed[wrapper[w].entry].kind # "none"
  BY DEF SyncFails, Launching
<1>2. UNCHANGED <<native, managed, backups, preferences, writes, kept, discarded,
                  present, torn, chosen, lost>>
  BY DEF SyncFails, history
<1>3. Own(w)' /\ Idle \in WrapperState
  BY <1>1, <1>2, IdleOwn
<1>4. Idle.at # "agent"
  BY DEF Idle
<1>5. ChoicesSurvive'
  BY <1>2 DEF HomeInv, ChoicesSurvive
<1>6. preferences' \in [Keys -> Values]
  BY <1>2 DEF HomeInv, TypeOK
<1> QED
  BY <1>1, <1>2, <1>3, <1>4, <1>5, <1>6, QuietStep

LEMMA CrashKeeps ==
  ASSUME HomeInv, NEW w \in Wrappers, Crash(w)
  PROVE  HomeInv'
<1>1. Launching(w) /\ wrapper' = [wrapper EXCEPT ![w] = Idle]
  BY DEF Crash
<1>2. UNCHANGED <<native, managed, backups, preferences, writes, kept, discarded, present,
                  chosen, lost>>
  BY DEF Crash
<1>3. /\ torn \subseteq torn'
      /\ \/ wrapper[w].at # "link"
         \/ managed[wrapper[w].entry].kind # "none"
         \/ wrapper[w].entry \in torn'
  BY DEF Crash
<1>4. Own(w)' /\ Idle \in WrapperState
  BY <1>1, <1>2, IdleOwn
<1>5. Idle.at # "agent"
  BY DEF Idle
<1>6. ChoicesSurvive'
  BY <1>2 DEF HomeInv, ChoicesSurvive
<1>7. preferences' \in [Keys -> Values]
  BY <1>2 DEF HomeInv, TypeOK
<1> QED
  BY <1>1, <1>2, <1>3, <1>4, <1>5, <1>6, <1>7, QuietStep

LEMMA CutOffKeeps ==
  ASSUME HomeInv, NEW w \in Wrappers, CutOff(w)
  PROVE  HomeInv'
<1> DEFINE e == IF wrapper[w].at = "config" THEN CONFIG ELSE PROFILE
<1>1. /\ wrapper[w].at \in {"config", "profile"} /\ Generate(e, None)
      /\ wrapper' = [wrapper EXCEPT ![w] = Idle]
  BY DEF CutOff
<1>2. writes' = writes
  BY <1>1 DEF Generate
<1>3. Own(w)' /\ Idle \in WrapperState
  BY <1>1, <1>2, IdleOwn
<1>4. Idle.at # "agent" /\ None \in Settled /\ e \in {CONFIG, PROFILE}
  BY DEF Idle, Settled
<1> HIDE DEF e
<1> QED
  BY <1>1, <1>3, <1>4, GenerateStep

LEMMA ExecKeeps ==
  ASSUME HomeInv, NEW w \in Wrappers, Exec(w)
  PROVE  HomeInv'
<1> DEFINE file == IF wrapper[w].launch.profile = "litellm" THEN PROFILE ELSE CONFIG
           read == Behind(file)
           r == [wrapper[w] EXCEPT !.at = "agent", !.runs = read]
<1>1. /\ wrapper[w] \in WrapperState /\ wrapper[w].at = "sync" /\ Launching(w)
      /\ Wrote(w) /\ Unlinking(w)
  BY DEF HomeInv, TypeOK, Exec, Launching
<1>0. read = managed[file] /\ read \in Files
  <2>1. file \in Entries \cap Excluded
    BY HomesAssumption
  <2> QED
    BY <2>1 DEF HomeInv, TypeOK, OwnFiles, Behind
<1>2. wrapper' = [wrapper EXCEPT ![w] = r]
  BY DEF Exec
<1>3. UNCHANGED <<native, managed, backups, preferences, writes, kept, discarded,
                  present, torn, chosen, lost>>
  BY DEF Exec, history
<1>4. wrapper[w].alone => Configures(read, wrapper[w])
  BY <1>0, <1>1 DEF Wrote
<1> HIDE DEF read
<1>5. /\ r \in WrapperState /\ r.at = "agent" /\ r.runs = read
      /\ r.resolved = wrapper[w].resolved /\ r.alone = wrapper[w].alone
      /\ r.since = wrapper[w].since /\ r.looked = wrapper[w].looked
  BY <1>0, <1>1 DEF WrapperState
<1>6. wrapper'[w] = r
  BY <1>2 DEF HomeInv, TypeOK
<1> HIDE DEF r
<1>7. Own(w)'
  BY <1>1, <1>3, <1>5, <1>6
  DEF Own, Sole, Loaded, Wrote, Syncing, Passed, Unlinking, Launching, AtEntry
<1>8. ChoicesSurvive'
  BY <1>3 DEF HomeInv, ChoicesSurvive
<1>9. preferences' \in [Keys -> Values]
  BY <1>3 DEF HomeInv, TypeOK
<1>10. r.alone => Configures(r.runs, r)
  BY <1>4, <1>5 DEF Configures
<1> QED
  BY <1>10, <1>1, <1>2, <1>3, <1>4, <1>5, <1>7, <1>8, <1>9, QuietStep

\* Unlink and Rename free the name the launch holds.
LEMMA MakeRoomKeeps ==
  ASSUME HomeInv, NEW w \in Wrappers, Unlink(w) \/ Rename(w)
  PROVE  HomeInv'
<1> DEFINE e == wrapper[w].entry
           r == [wrapper[w] EXCEPT !.at = "link"]
<1>1. /\ wrapper[w] \in WrapperState /\ wrapper[w].at \in {"unlink", "rename"} /\ Launching(w)
      /\ Sole(w) /\ Wrote(w) /\ Syncing(w) /\ Passed(w) /\ Unlinking(w)
  BY DEF HomeInv, TypeOK, Unlink, Rename, Launching
<1>2. e \in Linkable /\ e \in Entries /\ managed \in [Entries -> Files]
  BY <1>1 DEF Syncing, AtEntry, Linkable, HomeInv, TypeOK
<1>3. /\ wrapper' = [wrapper EXCEPT ![w] = r]
      /\ managed' = [managed EXCEPT ![e] = Absent]
      /\ UNCHANGED <<native, preferences, writes, kept, present, torn, chosen, lost>>
  BY DEF Unlink, Rename, history
<1>4. \/ /\ wrapper[w].at = "unlink"
         /\ discarded' = [discarded EXCEPT ![e] =
                            @ \cup {c \in Contents(managed[e]) : c >= wrapper[w].looked}]
         /\ backups' = backups
      \/ /\ backups' = [backups EXCEPT ![e] = @ \cup Contents(managed[e])]
         /\ discarded' = discarded
  BY DEF Unlink, Rename, history
<1>5. /\ r \in WrapperState /\ r.at = "link" /\ r.launch = wrapper[w].launch
      /\ r.resolved = wrapper[w].resolved /\ r.alone = wrapper[w].alone /\ r.entry = e
      /\ r.since = wrapper[w].since /\ r.looked = wrapper[w].looked /\ r.todo = wrapper[w].todo
  BY <1>1 DEF WrapperState, AtEntry
<1>6. wrapper'[w] = r /\ \A v \in Wrappers \ {w} : wrapper'[v] = wrapper[v]
  BY <1>3 DEF HomeInv, TypeOK
<1> HIDE DEF r
<1>7. /\ managed' \in [Entries -> Files] /\ managed'[e].kind = "none"
      /\ \A f \in Entries \ {e} : managed'[f] = managed[f]
      /\ Contents(managed'[e]) = {}
  BY <1>2, <1>3 DEF Files, Items, Absent, Contents
<1>8. Contents(managed[e]) \subseteq Int /\ Contents(managed[e]) \in SUBSET Int
  BY <1>2 DEF Contents, Files, Items, Absent, Link
<1>9. backups' \in [Entries -> SUBSET Int] /\ discarded' \in [Entries -> SUBSET Int]
  BY <1>2, <1>4, <1>8 DEF HomeInv, TypeOK
<1>10. Sole(w)' /\ Loaded(w)' /\ Syncing(w)'
  BY <1>1, <1>2, <1>3, <1>5, <1>6 DEF Sole, Loaded, Syncing, Launching
<1>20. Wrote(w)'
  <2>1. managed'[CONFIG] = managed[CONFIG] /\ managed'[PROFILE] = managed[PROFILE]
    BY <1>2, <1>7, HomesAssumption DEF Linkable
  <2> QED
    BY <1>1, <1>5, <1>6, <2>1 DEF Wrote, Configures, AtEntry
<1>11. Passed(w)'
  <2> SUFFICES ASSUME wrapper[w].alone, wrapper[w].launch.links,
                      NEW f \in Linkable, f \notin wrapper[w].todo, f # e
               PROVE  Linked(w, f)'
    BY <1>5, <1>6 DEF Passed
  <2>1. Linked(w, f)
    BY <1>1 DEF Passed, AtEntry
  <2> QED
    BY <1>5, <1>6, <1>7, <2>1 DEF Linked, Linkable
<1>12. Unlinking(w)'
  BY <1>1, <1>3, <1>5, <1>6 DEF Unlinking
<1>13. ASSUME NEW f \in Entries
       PROVE  kept'[f] \subseteq Contents(native'[f]) \cup Contents(managed'[f]) \cup backups'[f] \cup discarded'[f]
  <2>1. kept'[f] \subseteq Contents(native'[f]) \cup Contents(managed[f]) \cup backups[f] \cup discarded[f]
    BY <1>3 DEF HomeInv, NothingIsLost
  <2>2. backups[f] \subseteq backups'[f] /\ discarded[f] \subseteq discarded'[f]
    BY <1>2, <1>4 DEF HomeInv, TypeOK
  <2>3. CASE f # e
    BY <1>7, <2>1, <2>2, <2>3
  <2>4. CASE f = e
    <3>1. CASE /\ wrapper[w].at = "unlink"
               /\ discarded' = [discarded EXCEPT ![e] =
                                  @ \cup {c \in Contents(managed[e]) : c >= wrapper[w].looked}]
      <4>1. \A c \in Contents(managed[e]) : c >= wrapper[w].looked
        BY <1>1, <3>1 DEF Unlinking, Contents
      <4>2. discarded'[e] = discarded[e] \cup {c \in Contents(managed[e]) : c >= wrapper[w].looked}
        BY <1>2, <3>1 DEF HomeInv, TypeOK
      <4> QED
        BY <2>1, <2>2, <2>4, <4>1, <4>2
    <3>2. CASE backups' = [backups EXCEPT ![e] = @ \cup Contents(managed[e])]
      <4>1. backups'[e] = backups[e] \cup Contents(managed[e])
        BY <1>2, <3>2 DEF HomeInv, TypeOK
      <4> QED
        BY <2>1, <2>2, <2>4, <4>1
    <3> QED
      BY <1>4, <3>1, <3>2
  <2> QED
    BY <2>3, <2>4
<1>14. NothingIsLost'
  BY <1>13 DEF NothingIsLost
<1>15. EntriesStay'
  <2> SUFFICES ASSUME NEW f \in present, managed'[f].kind = "none", f \notin torn
               PROVE  \E v \in Wrappers : wrapper'[v].at = "link" /\ wrapper'[v].entry = f
    BY <1>3 DEF EntriesStay
  <2>1. CASE f = e
    BY <1>5, <1>6, <2>1
  <2>2. CASE f # e
    <3>1. f \in Entries /\ managed[f].kind = "none"
      BY <1>7, <2>2 DEF HomeInv, TypeOK
    <3>2. PICK v \in Wrappers : wrapper[v].at = "link" /\ wrapper[v].entry = f
      BY <3>1 DEF HomeInv, EntriesStay
    <3> QED
      BY <1>1, <1>6, <3>2
  <2> QED
    BY <2>1, <2>2
<1>16. OwnFiles' /\ ChoicesSurvive'
  BY <1>2, <1>3, <1>7 DEF HomeInv, OwnFiles, ChoicesSurvive
<1>17. Own(w)'
  BY <1>10, <1>11, <1>12, <1>20 DEF Own
<1>18. \A f \in Entries : managed'[f] = managed[f] \/ managed'[f].kind # "file"
  BY <1>7
<1>19. preferences' \in [Keys -> Values]
       /\ present' \subseteq Entries
  BY <1>3 DEF HomeInv, TypeOK
<1> HIDE DEF e
<1> QED
  BY <1>1, <1>3, <1>5, <1>7, <1>9, <1>14, <1>15, <1>16, <1>17, <1>18, <1>19, LaunchStep

LEMMA SymlinkKeeps ==
  ASSUME HomeInv, NEW w \in Wrappers, SymlinkTo(w)
  PROVE  HomeInv'
<1> DEFINE e == wrapper[w].entry
           r == [wrapper[w] EXCEPT !.at = "sync"]
<1>1. /\ wrapper[w] \in WrapperState /\ wrapper[w].at = "link" /\ Launching(w)
      /\ Sole(w) /\ Wrote(w) /\ Syncing(w) /\ Passed(w) /\ Unlinking(w)
  BY DEF HomeInv, TypeOK, SymlinkTo, Launching
<1>2. e \in Linkable /\ e \in Entries /\ managed \in [Entries -> Files]
  BY <1>1 DEF Syncing, AtEntry, Linkable, HomeInv, TypeOK
<1>3. /\ wrapper' = [wrapper EXCEPT ![w] = r]
      /\ managed[e].kind = "none"
      /\ managed' = [managed EXCEPT ![e] = Link]
      /\ present' = present \cup {e} /\ torn' = torn \ {e}
      /\ UNCHANGED <<native, backups, preferences, writes, kept, discarded, chosen, lost>>
  BY DEF SymlinkTo, Appears
<1>4. /\ r \in WrapperState /\ r.at = "sync" /\ r.launch = wrapper[w].launch
      /\ r.resolved = wrapper[w].resolved /\ r.alone = wrapper[w].alone
      /\ r.since = wrapper[w].since /\ r.looked = wrapper[w].looked /\ r.todo = wrapper[w].todo
  BY <1>1 DEF WrapperState
<1>5. wrapper'[w] = r /\ \A v \in Wrappers \ {w} : wrapper'[v] = wrapper[v]
  BY <1>3 DEF HomeInv, TypeOK
<1> HIDE DEF r
<1>6. /\ managed' \in [Entries -> Files] /\ managed'[e].kind = "link"
      /\ \A f \in Entries \ {e} : managed'[f] = managed[f]
      /\ Contents(managed[e]) = {}
  BY <1>2, <1>3 DEF Files, Items, Link, Contents
<1>7. Sole(w)' /\ Loaded(w)' /\ Syncing(w)'
  BY <1>1, <1>3, <1>4, <1>5 DEF Sole, Loaded, Syncing, Launching, AtEntry
<1>16. Wrote(w)'
  <2>1. managed'[CONFIG] = managed[CONFIG] /\ managed'[PROFILE] = managed[PROFILE]
    BY <1>2, <1>6, HomesAssumption DEF Linkable
  <2> QED
    BY <1>1, <1>4, <1>5, <2>1 DEF Wrote, Configures, AtEntry
<1>8. Passed(w)'
  <2> SUFFICES ASSUME wrapper[w].alone, wrapper[w].launch.links,
                      NEW f \in Linkable, f \notin wrapper[w].todo
               PROVE  Linked(w, f)'
    BY <1>4, <1>5 DEF Passed
  <2>1. CASE f = e
    BY <1>6, <2>1 DEF Linked
  <2>2. CASE f # e
    <3>1. Linked(w, f)
      BY <1>1, <2>2 DEF Passed, AtEntry
    <3> QED
      BY <1>4, <1>5, <1>6, <2>2, <3>1 DEF Linked, Linkable
  <2> QED
    BY <2>1, <2>2
<1>9. Unlinking(w)'
  BY <1>1, <1>3, <1>4, <1>5 DEF Unlinking
<1>10. NothingIsLost'
  <2> SUFFICES ASSUME NEW f \in Entries
               PROVE  kept'[f] \subseteq Contents(native'[f]) \cup Contents(managed'[f]) \cup backups'[f] \cup discarded'[f]
    BY DEF NothingIsLost
  <2>1. kept[f] \subseteq Contents(native[f]) \cup Contents(managed[f]) \cup backups[f] \cup discarded[f]
    BY DEF HomeInv, NothingIsLost
  <2>2. Contents(managed[f]) \subseteq Contents(managed'[f])
    BY <1>6
  <2> QED
    BY <1>3, <2>1, <2>2
<1>11. EntriesStay'
  <2> SUFFICES ASSUME NEW f \in present \cup {e}, managed'[f].kind = "none", f \notin torn \ {e}
               PROVE  \E v \in Wrappers : wrapper'[v].at = "link" /\ wrapper'[v].entry = f
    BY <1>3 DEF EntriesStay
  <2>1. f # e
    BY <1>6
  <2>2. f \in Entries /\ managed[f].kind = "none"
    BY <1>6, <2>1 DEF HomeInv, TypeOK
  <2>3. PICK v \in Wrappers : wrapper[v].at = "link" /\ wrapper[v].entry = f
    BY <2>1, <2>2 DEF HomeInv, EntriesStay
  <2>4. v # w
    BY <2>1, <2>3
  <2> QED
    BY <1>5, <2>3, <2>4
<1>12. OwnFiles' /\ ChoicesSurvive'
  BY <1>2, <1>3, <1>6 DEF HomeInv, OwnFiles, ChoicesSurvive, Linkable
<1>13. Own(w)'
  BY <1>7, <1>8, <1>9, <1>16 DEF Own
<1>14. \A f \in Entries : managed'[f] = managed[f] \/ managed'[f].kind # "file"
  BY <1>6
<1>15. preferences' \in [Keys -> Values]
       /\ present' \subseteq Entries /\ backups' \in [Entries -> SUBSET Int]
       /\ discarded' \in [Entries -> SUBSET Int]
  BY <1>2, <1>3 DEF HomeInv, TypeOK
<1> HIDE DEF e
<1> QED
  BY <1>1, <1>3, <1>4, <1>6, <1>10, <1>11, <1>12, <1>13, <1>14, <1>15, LaunchStep

\* What an agent's write may do to the files.
LEMMA WriteKeeps ==
  ASSUME HomeInv, NEW w \in Wrappers, NEW e \in Entries, WriteInPlace(w, e) \/ Replace(w, e)
  PROVE  HomeInv'
<1>1. /\ UNCHANGED <<backups, preferences, wrapper, discarded, chosen, lost>>
      /\ writes' = writes + 1
  BY DEF WriteInPlace, Replace
<1>2. writes \in Nat /\ writes \in Int /\ managed \in [Entries -> Files]
      /\ native \in [Entries -> Files]
      /\ kept \in [Entries -> SUBSET Int] /\ File(writes) \in Files /\ present \subseteq Entries
  BY DEF HomeInv, TypeOK, File, Files, Items
<1>3. \/ /\ managed[e].kind = "link"
         /\ native' = [native EXCEPT ![e] = File(writes)]
         /\ kept' = [kept EXCEPT ![e] = (@ \ Contents(native[e])) \cup {writes}]
         /\ UNCHANGED <<managed, present, torn>>
      \/ /\ managed' = [managed EXCEPT ![e] = File(writes)]
         /\ kept' = [kept EXCEPT ![e] = (@ \ Contents(managed[e])) \cup {writes}]
         /\ native' = native
         /\ \/ present' = present \cup {e} /\ torn' = torn \ {e}
            \/ managed[e].kind # "none" /\ UNCHANGED <<present, torn>>
  BY DEF WriteInPlace, Replace, Through, Behind, Appears
<1>4. \A f \in Entries : managed'[f] = managed[f] \/ managed'[f] = File(writes)
  BY <1>2, <1>3
<1>5. \A f \in Entries : managed'[f].kind = "none" => managed[f].kind = "none" /\ f \notin present' \ present
  BY <1>2, <1>3 DEF File
<1>6. /\ native' \in [Entries -> Files] /\ managed' \in [Entries -> Files]
      /\ kept' \in [Entries -> SUBSET Int] /\ present' \subseteq Entries
  <2>1. writes \in Int /\ (kept[e] \ Contents(native[e])) \cup {writes} \in SUBSET Int
        /\ (kept[e] \ Contents(managed[e])) \cup {writes} \in SUBSET Int
    BY <1>2
  <2> QED
    BY <1>2, <1>3, <2>1
<1>7. TypeOK'
  BY <1>1, <1>2, <1>6 DEF HomeInv, TypeOK
<1>8. \A v \in Wrappers : Own(v)'
  BY <1>1, <1>4, AgentStep
<1>9. NothingIsLost'
  <2> SUFFICES ASSUME NEW f \in Entries
               PROVE  kept'[f] \subseteq Contents(native'[f]) \cup Contents(managed'[f]) \cup backups[f] \cup discarded[f]
    BY <1>1 DEF NothingIsLost
  <2>1. kept[f] \subseteq Contents(native[f]) \cup Contents(managed[f]) \cup backups[f] \cup discarded[f]
    BY DEF HomeInv, NothingIsLost
  <2>2. CASE f # e
    BY <1>2, <1>3, <2>1, <2>2
  <2>3. CASE f = e /\ native' = [native EXCEPT ![e] = File(writes)]
                   /\ kept' = [kept EXCEPT ![e] = (@ \ Contents(native[e])) \cup {writes}]
                   /\ managed' = managed
    <3>1. native'[e] = File(writes) /\ kept'[e] = (kept[e] \ Contents(native[e])) \cup {writes}
      BY <1>2, <2>3
    <3>2. Contents(File(writes)) = {writes}
      BY DEF Contents, File
    <3> QED
      BY <2>1, <2>3, <3>1, <3>2
  <2>4. CASE f = e /\ managed' = [managed EXCEPT ![e] = File(writes)]
                   /\ kept' = [kept EXCEPT ![e] = (@ \ Contents(managed[e])) \cup {writes}]
                   /\ native' = native
    <3>1. managed'[e] = File(writes) /\ kept'[e] = (kept[e] \ Contents(managed[e])) \cup {writes}
      BY <1>2, <2>4
    <3>2. Contents(File(writes)) = {writes}
      BY DEF Contents, File
    <3> QED
      BY <2>1, <2>4, <3>1, <3>2
  <2> QED
    BY <1>3, <2>2, <2>3, <2>4
<1>10. EntriesStay'
  <2> SUFFICES ASSUME NEW f \in present', managed'[f].kind = "none", f \notin torn'
               PROVE  \E v \in Wrappers : wrapper[v].at = "link" /\ wrapper[v].entry = f
    BY <1>1 DEF EntriesStay
  <2>1. f \in Entries /\ f \in present /\ managed[f].kind = "none"
    BY <1>5, <1>6
  <2>2. f \notin torn
    <3>1. f # e \/ managed' = managed
      BY <1>2, <1>3 DEF File
    <3> QED
      BY <1>2, <1>3, <2>1, <3>1 DEF File
  <2> QED
    BY <2>1, <2>2 DEF HomeInv, EntriesStay
<1>11. ChoicesSurvive' /\ RunsResolved'
  BY <1>1 DEF HomeInv, ChoicesSurvive, RunsResolved
<1>12. OwnFiles'
  <2> SUFFICES ASSUME NEW f \in Entries \cap Excluded
               PROVE  managed'[f].kind # "link" /\ Contents(native'[f]) = {0}
    BY DEF OwnFiles
  <2>1. managed[f].kind # "link" /\ Contents(native[f]) = {0}
    BY DEF HomeInv, OwnFiles
  <2>2. managed'[f].kind # "link"
    BY <1>4, <2>1 DEF File
  <2>3. native'[f] = native[f]
    BY <1>2, <1>3, <2>1
  <2> QED
    BY <2>1, <2>2, <2>3
<1> QED
  BY <1>7, <1>8, <1>9, <1>10, <1>11, <1>12 DEF HomeInv, Own

LEMMA ExitKeeps ==
  ASSUME HomeInv, NEW w \in Wrappers, Exit(w)
  PROVE  HomeInv'
<1>1. /\ wrapper[w].at = "agent" /\ wrapper' = [wrapper EXCEPT ![w] = Idle]
      /\ UNCHANGED <<native, managed, backups, preferences, writes, kept,
                     discarded, present, torn, chosen, lost>>
  BY DEF Exit, history
<1>2. Own(w)' /\ Idle \in WrapperState
  BY <1>1, IdleOwn
<1>3. wrapper'[w] = Idle /\ \A v \in Wrappers \ {w} : wrapper'[v] = wrapper[v]
  BY <1>1 DEF HomeInv, TypeOK
<1>4. TypeOK'
  BY <1>1, <1>2 DEF HomeInv, TypeOK
<1>5. ~Launching(w) /\ ~Launching(w)'
  BY <1>1, <1>3 DEF Launching, Idle
<1>6. ASSUME NEW v \in Wrappers \ {w}
      PROVE  Own(v)'
  <2>1. Sole(v) /\ Loaded(v) /\ Wrote(v) /\ Syncing(v) /\ Passed(v) /\ Unlinking(v)
    BY DEF HomeInv
  <2>2. \A u \in Wrappers : Launching(u)' => Launching(u)
    BY <1>3, <1>5 DEF Launching
  <2>3. Sole(v)'
    BY <1>3, <2>1, <2>2 DEF Sole
  <2>4. Loaded(v)' /\ Wrote(v)' /\ Syncing(v)' /\ Unlinking(v)'
    BY <1>1, <1>3, <2>1 DEF Loaded, Wrote, Syncing, Unlinking
  <2>5. Passed(v)'
    BY <1>1, <1>3, <2>1 DEF Passed, Linked
  <2> QED
    BY <2>3, <2>4, <2>5 DEF Own
<1>7. NothingIsLost' /\ OwnFiles' /\ ChoicesSurvive'
  BY <1>1 DEF HomeInv, NothingIsLost, OwnFiles, ChoicesSurvive
<1>8. EntriesStay'
  <2>1. \A v \in Wrappers : wrapper[v].at = "link" => wrapper'[v] = wrapper[v]
    BY <1>1, <1>3
  <2>2. EntriesStay
    BY DEF HomeInv
  <2> QED
    BY <1>1, <2>1, <2>2 DEF EntriesStay
<1>9. RunsResolved'
  BY <1>3 DEF HomeInv, RunsResolved, Idle
<1> QED
  BY <1>2, <1>4, <1>6, <1>7, <1>8, <1>9 DEF HomeInv, Own

LEMMA HomeInvUnchanged == HomeInv /\ UNCHANGED home => HomeInv'
<1> SUFFICES ASSUME HomeInv, UNCHANGED home PROVE HomeInv'
  OBVIOUS
<1>1. UNCHANGED <<native, managed, backups, preferences, wrapper, writes, kept,
                  discarded, present, torn, chosen, lost>>
  BY DEF home
<1>2. TypeOK' /\ NothingIsLost' /\ EntriesStay' /\ OwnFiles' /\ ChoicesSurvive' /\ RunsResolved'
  BY <1>1 DEF HomeInv, TypeOK, NothingIsLost, EntriesStay, OwnFiles, ChoicesSurvive, RunsResolved
<1>3. \A v \in Wrappers : Sole(v)' /\ Loaded(v)' /\ Wrote(v)' /\ Syncing(v)'
  BY <1>1 DEF HomeInv, Sole, Loaded, Wrote, Syncing, Launching
<1>4. \A v \in Wrappers : Passed(v)' /\ Unlinking(v)'
  BY <1>1 DEF HomeInv, Passed, Linked, Unlinking
<1> QED
  BY <1>2, <1>3, <1>4 DEF HomeInv

-----------------------------------------------------------------------------

\* However many launches overlap, are killed and run beside agents that write or
\* replace entries: no content is lost but what launches write over in their config files
\* or unlink where a link was a moment before, no entry goes missing, excluded names are
\* never linked, explicit choices survive and a launch that met no other one starts its
\* agent with what it resolved, or what an agent has made of that.
THEOREM HomeStaysWhole == HomeSpec => []HomeIsWhole
<1>1. HomeInit => HomeInv
  BY HomeInvInit
<1>2. HomeInv /\ [HomeNext]_home => HomeInv'
  <2> SUFFICES ASSUME HomeInv, [HomeNext]_home PROVE HomeInv'
    OBVIOUS
  <2>1. CASE UNCHANGED home
    BY <2>1, HomeInvUnchanged
  <2>2. CASE HomeNext
    <3>1. PICK w \in Wrappers :
            \/ Begin(w) \/ WriteConfig(w) \/ WriteProfile(w) \/ SavePreferences(w)
            \/ Resolve(w) \/ Exists(w) \/ Unlink(w) \/ Rename(w) \/ SymlinkTo(w) \/ SyncFails(w)
            \/ Exec(w) \/ Crash(w) \/ CutOff(w) \/ Exit(w)
            \/ \E e \in Entries : Look(w, e) \/ WriteInPlace(w, e) \/ Replace(w, e)
      BY <2>2 DEF HomeNext
    <3>2. CASE Begin(w)
      BY <3>2, BeginKeeps
    <3>3. CASE WriteConfig(w) \/ WriteProfile(w)
      BY <3>3, ConfigKeeps
    <3>4. CASE SavePreferences(w)
      BY <3>4, SaveKeeps
    <3>5. CASE Unlink(w) \/ Rename(w)
      BY <3>5, MakeRoomKeeps
    <3>6. CASE SymlinkTo(w)
      BY <3>6, SymlinkKeeps
    <3>7. CASE SyncFails(w)
      BY <3>7, SyncFailsKeeps
    <3>8. CASE Exec(w)
      BY <3>8, ExecKeeps
    <3>9. CASE Crash(w)
      BY <3>9, CrashKeeps
    <3>10. CASE Exit(w)
      BY <3>10, ExitKeeps
    <3>11. CASE \E e \in Entries : Look(w, e)
      BY <3>11, LookKeeps
    <3>12. CASE \E e \in Entries : WriteInPlace(w, e) \/ Replace(w, e)
      BY <3>12, WriteKeeps
    <3>13. CASE Resolve(w) \/ Exists(w)
      BY <3>13, ResolveKeeps
    <3>14. CASE CutOff(w)
      BY <3>14, CutOffKeeps
    <3> QED
      BY <3>1, <3>2, <3>3, <3>4, <3>5, <3>6, <3>7, <3>8, <3>9, <3>10, <3>11, <3>12, <3>13, <3>14
  <2> QED
    BY <2>1, <2>2
<1>3. HomeInv => HomeIsWhole
  BY HomeInvImplies
<1> QED
  BY <1>1, <1>2, <1>3, PTL DEF HomeSpec

-----------------------------------------------------------------------------
(* The usefulness harness: the invariant *)

\* A summary that no free text had to fill in tells what the session used.
Truthful(summary, used) ==
  summary.fromText = {} => /\ summary.tokens["input_tokens"] \in {None, used.input}
                           /\ summary.tokens["cached_input_tokens"] \in {None, used.cached}

\* A snapshot tells the counters of the account, or nothing.
Told(snapshot, primary, daily) ==
  /\ snapshot.status = "observed" =>
       snapshot.metrics["primary_used_percent"] = primary \div Unit
  /\ snapshot.metrics["latest_daily_bucket_tokens"] \in {None, daily}

Spent == [input : Nat, cached : Nat, commands : Nat]

\* A lane is under way from its first snapshot to its last.
Inside == at \in {"before", "turn", "after"}

RunTypes ==
  /\ plan \in Plans
  /\ at \in {"start", "preflight", "lane", "before", "turn", "after", "ended", "died"}
  /\ DOMAIN disk = {"plan", "summary", "verdict", "normalized"}
  /\ DOMAIN lane = {"name", "turn", "session", "summaries", "lines", "code", "attempt", "before"}
  /\ DOMAIN account = {"primary", "daily", "unposted", "rolls"}
  /\ account.primary \in Nat /\ account.daily \in Nat /\ account.unposted \in Nat
  /\ sessions \in [Lanes -> Spent]
  /\ clean \in [Lanes -> BOOLEAN]
  /\ Len(done) \in 0..2 /\ done = [i \in 1..Len(done) |-> done[i]]

StageInv ==
  /\ at \in {"start", "preflight"} => sessions = [l \in Lanes |-> Nothing] /\ done = <<>>
  /\ at \notin {"ended", "died"} => exit = None
  /\ at = "died" => exit = 1
  /\ (at = "lane" \/ Inside) /\ plan.preflight => PreflightOk
  /\ \A l \in Lanes : sessions[l] # Nothing /\ plan.preflight => PreflightOk

DiskInv ==
  /\ at = "start" => disk.plan = disk.summary
  /\ at \in {"preflight", "lane"} \/ Inside =>
       disk.plan = "mine" /\ (disk.summary = None \/ plan.force)
  /\ disk.summary # None => disk.summary = disk.plan \/ (plan.force /\ exit \notin {0, 2})
  /\ at # "ended" => ~disk.normalized
  /\ disk.normalized => Len(done) = 2 /\ Normalized(done)

\* What a lane that is under way has printed and spent.
LaneInv ==
  Inside =>
    LET used == sessions[lane.name]
    IN /\ Len(done) < 2 /\ lane.name = plan.order[Len(done) + 1]
       /\ lane.turn \in 0..plan.turns
       /\ at \in {"before", "turn"} => lane.turn < plan.turns /\ lane.code = 0
       /\ at = "before" => lane.turn = 0 /\ plan.snapshots
       /\ at = "after" => lane.turn > 0 /\ (lane.code # 0 \/ lane.turn = plan.turns)
       /\ lane.turn = 0 => used = Nothing
       /\ lane.turn > 1 => lane.session # None
       /\ lane.summaries = [i \in 1..lane.turn |-> lane.summaries[i]]
       /\ Len(lane.summaries) = lane.turn
       /\ lane.turn > 0 => Truthful(lane.summaries[lane.turn], used)
       /\ Len(lane.lines) \in Nat
       /\ lane.lines = [i \in 1..Len(lane.lines) |-> lane.lines[i]]
       /\ Cardinality(Completed(lane.lines, "command_execution")) = used.commands
       /\ ~plan.snapshots => lane.before = NoSnapshot
       /\ at # "before" /\ clean[lane.name] =>
            Told(lane.before, account.primary + account.unposted - used.input,
                 account.daily + account.unposted - used.input)

\* A lane that has not begun has spent nothing.
Unbegun ==
  at = "lane" \/ Inside =>
    \A i \in Len(done) + (IF Inside THEN 2 ELSE 1) .. 2 : sessions[plan.order[i]] = Nothing

DoneInv ==
  \A i \in 1..Len(done) :
    LET used == sessions[plan.order[i]]
    IN /\ done[i].lane = plan.order[i]
       /\ Truthful(done[i].tokens, used)
       /\ done[i].trajectory.command_completed = used.commands
       /\ clean[plan.order[i]] =>
            \E primary, daily \in Int :
              /\ Told(done[i].before, primary, daily)
              /\ Told(done[i].after, primary + used.input, daily + used.input)
       /\ at # "ended" \/ exit = 0 =>
            /\ done[i].code = 0 /\ done[i].turns = plan.turns
            /\ plan.turns > 1 => done[i].session # None

EarnedInv ==
  exit = 0 => /\ at = "ended" /\ Len(done) = 2 /\ disk.summary = "mine"
              /\ disk.verdict = Verdict(done) /\ disk.verdict.status = "pass"
              /\ plan.preflight => PreflightOk

RunInv == RunTypes /\ StageInv /\ DiskInv /\ LaneInv /\ Unbegun /\ DoneInv /\ EarnedInv

-----------------------------------------------------------------------------
(* What is made of the lines of a run *)

\* The greatest of some positions.
LEMMA GreatestOf ==
  ASSUME NEW n \in Nat, NEW S \in SUBSET (1..n), S # {}
  PROVE  Max(S) \in S
<1> DEFINE Less == {p \in Nat \X Nat : p[1] < p[2]}
           below == {n - i : i \in S}
<1>1. IsWellFoundedOn(Less, Nat)
  BY NatLessThanWellFounded DEF OpToRel
<1>2. \A j, k \in Nat : j < k => <<j, k>> \in Less
  OBVIOUS
<1> HIDE DEF Less
<1>3. below # {} /\ below \in SUBSET Nat
  <2>1. \A i \in S : n - i \in Nat
    OBVIOUS
  <2>2. QED
    BY <2>1
<1>4. PICK b \in below : \A c \in below : <<c, b>> \notin Less
  BY <1>1, <1>3, WFMin
<1>5. PICK i \in S : b = n - i
  OBVIOUS
<1>6. \A j \in S : ~(n - j < n - i)
  BY <1>2, <1>3, <1>4, <1>5
<1>7. \A j \in S : i >= j
  <2>1. S \subseteq Int
    OBVIOUS
  <2>2. QED
    BY <1>6, <2>1
<1>8. \E x \in S : \A y \in S : x >= y
  BY <1>7
<1>9. QED
  BY <1>8 DEF Max

\* What Codex shows of a field is what the session used.
LEMMA UsageShown ==
  ASSUME NEW line, DOMAIN line = LineFields, NEW used
  PROVE  LET shown == Usage(Cumulative(line, used))
         IN /\ "input_tokens" \in DOMAIN shown => shown["input_tokens"] = used.input
            /\ "cached_input_tokens" \in DOMAIN shown =>
                 shown["cached_input_tokens"] = used.cached
<1> DEFINE counted == Cumulative(line, used)
           u == counted.usage
<1>1. /\ "input_tokens" \in DOMAIN u => u["input_tokens"] = used.input
      /\ "cached_input_tokens" \in DOMAIN u => u["cached_input_tokens"] = used.cached
  BY DEF Cumulative, LineFields
<1> DEFINE both == Put(u, "total_tokens", u.input_tokens + u.output_tokens)
<1>2. {"input_tokens", "output_tokens"} \subseteq DOMAIN u =>
        /\ both["input_tokens"] = u["input_tokens"]
        /\ "cached_input_tokens" \in DOMAIN both =>
             /\ "cached_input_tokens" \in DOMAIN u
             /\ both["cached_input_tokens"] = u["cached_input_tokens"]
  BY DEF Put
<1>3. \/ Usage(counted) = <<>>
      \/ Usage(counted) = both /\ {"input_tokens", "output_tokens"} \subseteq DOMAIN u
      \/ Usage(counted) = u
  BY DEF Usage
<1>4. DOMAIN <<>> = {}
  OBVIOUS
<1> HIDE DEF counted, u, both
<1>5. QED
  BY <1>1, <1>2, <1>3, <1>4 DEF counted

\* So does a summary of lines that all show the same use.
LEMMA TokensAreTruthful ==
  ASSUME NEW n \in Nat, NEW lines, DOMAIN lines = 1..n, NEW used,
         \A i \in 1..n : \E line : DOMAIN line = LineFields /\ lines[i] = Cumulative(line, used)
  PROVE  Truthful(ParseTokens(lines), used)
<1> DEFINE events == {i \in DOMAIN lines : DOMAIN Usage(lines[i]) # {}}
           Reported(f) == {i \in events : f \in DOMAIN Usage(lines[i])}
           Mentioned(f) == {i \in DOMAIN lines \ events : f \in DOMAIN lines[i].text}
           summary == ParseTokens(lines)
<1>1. ASSUME NEW f \in TOKEN_FIELDS, Reported(f) # {}
      PROVE  Max(Reported(f)) \in Reported(f)
  <2>1. Reported(f) \in SUBSET (1..n)
    OBVIOUS
  <2>2. QED
    BY <1>1, <2>1, GreatestOf
<1>2. ASSUME NEW f \in TOKEN_FIELDS, summary.fromText = {}
      PROVE  \/ summary.tokens[f] = None
             \/ \E i \in 1..n : f \in DOMAIN Usage(lines[i]) /\ summary.tokens[f] = Usage(lines[i])[f]
  <2>1. Reported(f) # {} \/ Mentioned(f) = {}
    BY <1>2 DEF ParseTokens
  <2>2. CASE Reported(f) = {}
    BY <2>1, <2>2 DEF ParseTokens
  <2>3. CASE Reported(f) # {}
    <3>1. summary.tokens[f] = Usage(lines[Max(Reported(f))])[f]
      BY <2>3 DEF ParseTokens
    <3>2. QED
      BY <1>1, <2>3, <3>1
  <2>4. QED
    BY <2>2, <2>3
<1>3. "input_tokens" \in TOKEN_FIELDS /\ "cached_input_tokens" \in TOKEN_FIELDS
  BY DEF TOKEN_FIELDS
<1> HIDE DEF summary
<1>4. ASSUME NEW i \in 1..n
      PROVE  /\ "input_tokens" \in DOMAIN Usage(lines[i]) =>
                  Usage(lines[i])["input_tokens"] = used.input
             /\ "cached_input_tokens" \in DOMAIN Usage(lines[i]) =>
                  Usage(lines[i])["cached_input_tokens"] = used.cached
  <2>1. PICK line : DOMAIN line = LineFields /\ lines[i] = Cumulative(line, used)
    OBVIOUS
  <2>2. QED
    BY <2>1, UsageShown
<1>5. ASSUME summary.fromText = {}
      PROVE  /\ summary.tokens["input_tokens"] \in {None, used.input}
             /\ summary.tokens["cached_input_tokens"] \in {None, used.cached}
  BY <1>2, <1>3, <1>4, <1>5
<1>6. QED
  BY <1>5 DEF Truthful, summary

\* A trajectory counts the completed commands.
LEMMA CommandsCounted ==
  ASSUME NEW lines
  PROVE  ParseTrajectory(lines).command_completed
           = Cardinality(Completed(lines, "command_execution"))
  BY DEF ParseTrajectory

\* Codex completes the items its lines name, whatever it has counted.
LEMMA CountsLeaveItems ==
  ASSUME NEW lines, NEW used, \A i \in DOMAIN lines : DOMAIN lines[i] = LineFields, NEW type
  PROVE  Completed([i \in DOMAIN lines |-> Cumulative(lines[i], used)], type)
           = Completed(lines, type)
<1>1. \A i \in DOMAIN lines :
        /\ Cumulative(lines[i], used).json = lines[i].json
        /\ Cumulative(lines[i], used).event = lines[i].event
        /\ Cumulative(lines[i], used).item = lines[i].item
  BY DEF Cumulative, LineFields
<1>2. QED
  BY <1>1 DEF Completed

\* Of lines and more lines after them, as many are completed as of both.
LEMMA CompletedOfBoth ==
  ASSUME NEW m \in Nat, NEW k \in Nat, NEW a, NEW b, NEW both,
         DOMAIN a = 1..m, DOMAIN b = 1..k, DOMAIN both = 1..(m + k),
         \A i \in 1..(m + k) : both[i] = IF i <= m THEN a[i] ELSE b[i - m],
         NEW type
  PROVE  Cardinality(Completed(both, type))
           = Cardinality(Completed(a, type)) + Cardinality(Completed(b, type))
<1> DEFINE here == Completed(a, type)
           there == Completed(b, type)
           moved == {m + i : i \in there}
           Names(l) == l.json /\ l.event = "item.completed" /\ l.item # None /\ l.item.type = type
<1>1. \A i \in 1..(m + k) : both[i] = IF i <= m THEN a[i] ELSE b[i - m]
  OBVIOUS
<1>2. /\ here = {i \in 1..m : Names(a[i])}
      /\ there = {i \in 1..k : Names(b[i])}
      /\ Completed(both, type) = {i \in 1..(m + k) : Names(both[i])}
  BY DEF Completed
<1> HIDE DEF here, there, Names
<1>3. Completed(both, type) = here \cup moved
  <2>1. ASSUME NEW i \in 1..(m + k), Names(both[i]) PROVE i \in here \cup moved
    <3>1. CASE i <= m
      BY <1>1, <1>2, <2>1, <3>1
    <3>2. CASE ~(i <= m)
      <4>1. i - m \in 1..k /\ i = m + (i - m)
        BY <3>2
      <4>2. Names(b[i - m])
        BY <1>1, <2>1, <3>2
      <4>3. i - m \in there
        BY <1>2, <4>1, <4>2
      <4>4. QED
        BY <4>1, <4>3
    <3>3. QED
      BY <3>1, <3>2
  <2>2. ASSUME NEW i \in here PROVE i \in 1..(m + k) /\ Names(both[i])
    <3>1. i \in 1..m /\ Names(a[i])
      BY <1>2
    <3>2. QED
      BY <1>1, <3>1
  <2>3. ASSUME NEW i \in there PROVE m + i \in 1..(m + k) /\ Names(both[m + i])
    <3>1. i \in 1..k /\ Names(b[i])
      BY <1>2
    <3>2. m + i \in 1..(m + k) /\ ~(m + i <= m) /\ (m + i) - m = i
      BY <3>1
    <3>3. QED
      BY <1>1, <3>1, <3>2
  <2>4. \A i \in moved : i \in 1..(m + k) /\ Names(both[i])
    BY <2>3
  <2> HIDE DEF moved
  <2>5. QED
    BY <1>2, <2>1, <2>2, <2>4
<1>4. IsFiniteSet(here) /\ IsFiniteSet(there)
  <2>1. IsFiniteSet(1..m) /\ IsFiniteSet(1..k)
    BY FS_Interval
  <2>2. here \in SUBSET (1..m) /\ there \in SUBSET (1..k)
    BY <1>2
  <2>3. QED
    BY <2>1, <2>2, FS_Subset
<1>5. IsFiniteSet(moved) /\ Cardinality(moved) = Cardinality(there)
  <2> DEFINE f == [i \in there |-> m + i]
  <2>1. there \subseteq Int
    BY <1>2
  <2>2. f \in Bijection(there, moved)
    BY <2>1 DEF Bijection, Injection, IsInjective, Surjection
  <2> HIDE DEF f, moved
  <2>3. QED
    BY <1>4, <2>2, FS_Bijection DEF ExistsBijection
<1>6. here \cap moved = {}
  <2>1. \A i \in here : i <= m
    BY <1>2
  <2>2. \A i \in there : ~(m + i <= m)
    BY <1>2
  <2>3. QED
    BY <2>1, <2>2
<1> HIDE DEF moved
<1>7. Cardinality(here \cup moved) = Cardinality(here) + Cardinality(moved)
  <2>1. Cardinality(here \cup moved)
          = Cardinality(here) + Cardinality(moved) - Cardinality(here \cap moved)
    BY <1>4, <1>5, FS_Union
  <2>2. Cardinality(here \cap moved) = 0
    BY <1>6, FS_EmptySet
  <2>3. Cardinality(here) \in Nat /\ Cardinality(moved) \in Nat
    BY <1>4, <1>5, FS_CardinalityType
  <2>4. QED
    BY <2>1, <2>2, <2>3
<1>8. QED
  BY <1>3, <1>5, <1>7 DEF here, there

-----------------------------------------------------------------------------
(* The figures of the account *)

\* A difference of whole percents tells a difference of tokens up to two units.
LEMMA WholePercents ==
  ASSUME NEW a \in Int, NEW s \in Int, NEW b \in Int, NEW t \in Int, NEW u \in Nat \ {0},
         (b + t) \div u - b \div u <= (a + s) \div u - a \div u
  PROVE  t < s + 2 * u
<1>1. \A x \in Int : /\ x \div u \in Int /\ u * (x \div u) \in Int
                     /\ u * (x \div u) <= x /\ x < u * (x \div u) + u
  OBVIOUS
<1> DEFINE q1 == (a + s) \div u
           q2 == a \div u
           p1 == (b + t) \div u
           p2 == b \div u
<1>2. q1 \in Int /\ q2 \in Int /\ p1 \in Int /\ p2 \in Int /\ p1 - p2 <= q1 - q2
  BY <1>1
<1>3. /\ u * q1 <= a + s /\ a < u * q2 + u
      /\ b + t < u * p1 + u /\ u * p2 <= b
  BY <1>1
<1> HIDE DEF q1, q2, p1, p2
<1>4. u * (p1 - p2) <= u * (q1 - q2)
  BY <1>2
<1>5. u * (p1 - p2) = u * p1 - u * p2 /\ u * (q1 - q2) = u * q1 - u * q2
  BY <1>2
<1>6. u * q1 \in Int /\ u * q2 \in Int /\ u * p1 \in Int /\ u * p2 \in Int /\ 2 * u = u + u
  BY <1>2
<1>7. QED
  BY <1>3, <1>4, <1>5, <1>6

\* A sequence with one more.
LEMMA AppendOne ==
  ASSUME NEW s, NEW n \in Nat, s = [i \in 1..n |-> s[i]], NEW e
  PROVE  LET t == Append(s, e)
         IN /\ Len(t) = n + 1
            /\ t = [i \in 1..(n + 1) |-> t[i]]
            /\ t[n + 1] = e
            /\ \A i \in 1..n : t[i] = s[i]
<1> DEFINE S == {s[i] : i \in 1..n} \cup {e}
           t == Append(s, e)
<1>1. s \in [1..n -> S] /\ e \in S
  OBVIOUS
<1> HIDE DEF S
<1>2. s \in Seq(S) /\ Len(s) = n
  BY <1>1
<1>3. /\ t \in Seq(S) /\ Len(t) = n + 1 /\ t[n + 1] = e
      /\ \A i \in 1..n : t[i] = s[i]
  BY <1>1, <1>2, AppendProperties
<1>4. t \in [1..(n + 1) -> S]
  BY <1>3, LenProperties
<1> HIDE DEF t
<1>5. QED
  BY <1>3, <1>4 DEF t

\* The two lanes in the order of the plan.
LEMMA Orders ==
  RunTypes =>
    /\ plan.order[1] # plan.order[2] /\ Lanes = {plan.order[1], plan.order[2]}
    /\ Len(plan.order) = 2
    /\ plan.turns \in Nat \ {0} /\ plan.floor \in Int
    /\ None \notin Int /\ Unit \in Nat \ {0}
<1> SUFFICES ASSUME RunTypes
             PROVE  /\ plan.order[1] # plan.order[2] /\ Lanes = {plan.order[1], plan.order[2]}
                    /\ Len(plan.order) = 2
  BY RunAssumption DEF RunTypes
<1>1. CASE plan.order = <<"direct", "proxy">>
  BY <1>1 DEF Lanes
<1>2. CASE plan.order = <<"proxy", "direct">>
  BY <1>2 DEF Lanes
<1>3. QED
  BY <1>1, <1>2, RunAssumption DEF RunTypes

\* What the probe reports are the counters as they are.
LEMMA SnapshotsTell ==
  /\ \A s \in Snapshots : Told(s, account.primary, account.daily)
  /\ \A primary, daily : Told(NoSnapshot, primary, daily)
<1>1. ASSUME NEW probe \in Probes(plan)
      PROVE  LET limits == [primary_used_percent |-> account.primary \div Unit,
                            weekly_used_percent |-> None, credits_balance |-> None,
                            reset_credits_available |-> 2]
                 Day == [latest_daily_bucket_tokens |-> IF probe.daily THEN account.daily ELSE None]
             IN Told(BuildSnapshot(IF probe.limits THEN limits ELSE None,
                                   IF probe.usage THEN Day ELSE None),
                     account.primary, account.daily)
  BY DEF Told, BuildSnapshot, DepletionKeys, BalanceKeys
<1>2. \A primary, daily : Told(NoSnapshot, primary, daily)
  BY DEF Told, NoSnapshot, BuildSnapshot, DepletionKeys, BalanceKeys
<1>3. QED
  BY <1>1, <1>2 DEF Snapshots

\* Without the results of both lanes nothing is called normalized.
LEMMA NormalizedNeedsBoth ==
  ASSUME NEW results, Normalized(results)
  PROVE  \A l \in Lanes : \E i \in DOMAIN results : results[i].lane = l
<1> SUFFICES ASSUME NEW l \in Lanes, \A i \in DOMAIN results : results[i].lane # l
             PROVE  FALSE
  OBVIOUS
<1>1. ResultOf(results, l) = None
  BY DEF ResultOf
<1>2. QED
  BY <1>1 DEF Normalized, CompareTrajectories, Lanes

\* With both, a lane's result is the one it has at its place.
LEMMA ResultIs ==
  ASSUME RunTypes, DoneInv, Len(done) = 2, NEW i \in 1..2
  PROVE  ResultOf(done, plan.order[i]) = done[i]
<1> DEFINE of == {j \in DOMAIN done : done[j].lane = plan.order[i]}
<1>1. of = {i}
  BY Orders DEF DoneInv, RunTypes
<1>2. Max({i}) = i
  BY DEF Max
<1> HIDE DEF of
<1>3. QED
  BY <1>1, <1>2 DEF ResultOf, of

\* The greater of a number and zero.
LEMMA MaxWithZero == \A x \in Int : Max({x, 0}) = IF x >= 0 THEN x ELSE 0
<1> SUFFICES ASSUME NEW x \in Int PROVE Max({x, 0}) = IF x >= 0 THEN x ELSE 0
  OBVIOUS
<1> DEFINE greatest == IF x >= 0 THEN x ELSE 0
<1>1. greatest \in {x, 0} /\ \A y \in {x, 0} : greatest >= y
  OBVIOUS
<1>2. \A y \in {x, 0} : (\A z \in {x, 0} : y >= z) => y = greatest
  OBVIOUS
<1>3. Max({x, 0}) = greatest
  BY <1>1, <1>2 DEF Max
<1>4. QED
  BY <1>3

-----------------------------------------------------------------------------
(* What the invariant says of a run that has ended *)

\* What a summary gives for a field.
LEMMA FieldsAreTruthful ==
  ASSUME NEW result, NEW used, Truthful(result.tokens, used), result.tokens.fromText = {}
  PROVE  /\ Field(TokensOf(result), "input_tokens") \in {None, used.input}
         /\ Field(TokensOf(result), "cached_input_tokens") \in {None, used.cached}
  BY DEF Truthful, Field, TokensOf

\* Figures that meet the floor are those of the sessions.
LEMMA FloorIsMet ==
  ASSUME RunInv, exit = 0, plan.floor > 0, \A i \in DOMAIN done : done[i].tokens.fromText = {}
  PROVE  sessions["direct"].input + sessions["proxy"].input >= plan.floor
<1>1. Len(done) = 2 /\ OverallUsefulness(CompareAccounts(
                           AccountOf(ResultOf(done, "direct")), AccountOf(ResultOf(done, "proxy"))),
                         Comparison(done), plan.floor).status = "pass"
  BY DEF RunInv, EarnedInv, Verdict
<1>2. FloorMet(Comparison(done), plan.floor)
  BY <1>1 DEF OverallUsefulness
<1>3. \A l \in Lanes : Field(TokensOf(ResultOf(done, l)), "input_tokens") \in {None, sessions[l].input}
  <2>1. \A i \in 1..2 : Field(TokensOf(done[i]), "input_tokens")
                          \in {None, sessions[plan.order[i]].input}
    BY <1>1, FieldsAreTruthful DEF RunInv, DoneInv, RunTypes
  <2>2. QED
    BY <1>1, <2>1, ResultIs, Orders DEF RunInv
<1>4. Comparison(done).input # None /\ Comparison(done).input >= plan.floor
  BY <1>2, Orders DEF FloorMet, RunInv
<1>5. Comparison(done).input = Field(TokensOf(ResultOf(done, "direct")), "input_tokens")
                               + Field(TokensOf(ResultOf(done, "proxy")), "input_tokens")
      /\ Field(TokensOf(ResultOf(done, "direct")), "input_tokens") # None
      /\ Field(TokensOf(ResultOf(done, "proxy")), "input_tokens") # None
  BY <1>4 DEF Comparison, CompareTokens
<1>6. QED
  BY <1>3, <1>4, <1>5 DEF Lanes

\* The invariant says that success is earned.
LEMMA EarnedImplies == RunInv => SuccessIsEarned
<1> SUFFICES ASSUME RunInv PROVE SuccessIsEarned
  OBVIOUS
<1>1. \A l \in Lanes : sessions[l] # Nothing /\ plan.preflight => PreflightOk
  BY DEF RunInv, StageInv
<1>2. disk.summary # None => disk.summary = disk.plan \/ (plan.force /\ exit \notin {0, 2})
  BY DEF RunInv, DiskInv
<1>3. ASSUME exit = 0
      PROVE  /\ disk.summary = "mine" /\ disk.verdict.status = "pass"
             /\ plan.preflight => PreflightOk
             /\ \A l \in Lanes :
                  /\ \E i \in DOMAIN done : done[i].lane = l
                  /\ ResultOf(done, l).turns = plan.turns
                  /\ ResultOf(done, l).code = 0
                  /\ plan.turns > 1 => ResultOf(done, l).session # None
  <2>1. /\ Len(done) = 2 /\ disk.summary = "mine" /\ disk.verdict.status = "pass"
        /\ plan.preflight => PreflightOk
    BY <1>3 DEF RunInv, EarnedInv
  <2>2. \A i \in 1..2 : /\ i \in DOMAIN done /\ done[i].lane = plan.order[i]
                        /\ done[i].code = 0 /\ done[i].turns = plan.turns
                        /\ plan.turns > 1 => done[i].session # None
    BY <1>3, <2>1 DEF RunInv, DoneInv, RunTypes
  <2>3. \A l \in Lanes : \E i \in 1..2 : plan.order[i] = l
    BY Orders DEF RunInv
  <2>4. \A i \in 1..2 : ResultOf(done, plan.order[i]) = done[i]
    BY <2>1, ResultIs DEF RunInv
  <2>5. QED
    BY <2>1, <2>2, <2>3, <2>4
<1>4. QED
  BY <1>1, <1>2, <1>3, FloorIsMet DEF SuccessIsEarned

\* What a summary without free text is charged for is what the session is.
LEMMA ChargedForUse ==
  ASSUME None \notin Int, NEW result, NEW used \in Spent, Truthful(result.tokens, used),
         result.tokens.fromText = {}
  PROVE  BillingEquivalent(TokensOf(result))
           \in {None, 10 * Max({used.input - used.cached, 0}) + used.cached}
<1> DEFINE input == Field(TokensOf(result), "input_tokens")
           cached == Field(TokensOf(result), "cached_input_tokens")
<1>1. input \in {None, used.input} /\ cached \in {None, used.cached}
  BY FieldsAreTruthful
<1>2. NewlyProcessed(TokensOf(result))
        = IF Minus(input, cached) = None THEN None ELSE Max({Minus(input, cached), 0})
  BY DEF NewlyProcessed
<1>3. BillingEquivalent(TokensOf(result))
        = IF NewlyProcessed(TokensOf(result)) = None THEN None
          ELSE 10 * NewlyProcessed(TokensOf(result)) + cached
  BY DEF BillingEquivalent
<1> HIDE DEF input, cached
<1>4. Minus(input, cached) # None => /\ Minus(input, cached) = used.input - used.cached
                                     /\ cached = used.cached
  BY <1>1 DEF Minus
<1>5. QED
  BY <1>2, <1>3, <1>4

\* A verdict on the provider's figures passes only if the proxied session cost no more.
LEMMA FiguresAreTrue ==
  ASSUME RunInv, exit = 0, disk.verdict.scope # "account_capacity",
         \A i \in DOMAIN done : done[i].tokens.fromText = {}
  PROVE  LET Priced(used) == 10 * Max({used.input - used.cached, 0}) + used.cached
         IN Priced(sessions["proxy"]) <= Priced(sessions["direct"])
<1> DEFINE Priced(used) == 10 * Max({used.input - used.cached, 0}) + used.cached
           c == Comparison(done)
<1>1. /\ Len(done) = 2
      /\ disk.verdict = OverallUsefulness(CompareAccounts(AccountOf(ResultOf(done, "direct")),
                                      AccountOf(ResultOf(done, "proxy"))), Comparison(done), plan.floor)
      /\ disk.verdict.status = "pass"
  BY DEF RunInv, EarnedInv, Verdict
<1>2. CompletionContract(c).status = "pass"
  BY <1>1 DEF OverallUsefulness
<1>3. FailReasons(c) = {} /\ c.complete
  BY <1>2 DEF CompletionContract
<1>4. c.billing # None /\ c.billing <= 0
  BY <1>3 DEF FailReasons
<1>5. c.billing = Minus(BillingEquivalent(TokensOf(ResultOf(done, "proxy"))),
                        BillingEquivalent(TokensOf(ResultOf(done, "direct"))))
  BY DEF Comparison, CompareTokens
<1>6. \A l \in Lanes : BillingEquivalent(TokensOf(ResultOf(done, l))) \in {None, Priced(sessions[l])}
  <2>1. \A i \in 1..2 : BillingEquivalent(TokensOf(done[i]))
                          \in {None, Priced(sessions[plan.order[i]])}
    <3>1. \A i \in 1..2 : /\ Truthful(done[i].tokens, sessions[plan.order[i]])
                          /\ done[i].tokens.fromText = {}
      BY <1>1 DEF RunInv, DoneInv, RunTypes
    <3>2. \A i \in 1..2 : sessions[plan.order[i]] \in Spent
      BY Orders DEF RunInv, RunTypes
    <3>3. QED
      BY <3>1, <3>2, ChargedForUse, Orders DEF RunInv
  <2>2. \A i \in 1..2 : ResultOf(done, plan.order[i]) = done[i]
    BY <1>1, ResultIs DEF RunInv
  <2>3. \A l \in Lanes : \E i \in 1..2 : plan.order[i] = l
    BY Orders DEF RunInv
  <2> HIDE DEF Priced
  <2>4. QED
    BY <2>1, <2>2, <2>3
<1>7. \A l \in Lanes : Priced(sessions[l]) \in Int
  <2>1. \A l \in Lanes : sessions[l].input \in Nat /\ sessions[l].cached \in Nat
    BY DEF RunInv, RunTypes, Spent
  <2>2. \A l \in Lanes : sessions[l].input - sessions[l].cached \in Int
    BY <2>1
  <2>3. \A l \in Lanes : Max({sessions[l].input - sessions[l].cached, 0}) \in Int
    BY <2>2, MaxWithZero
  <2>4. QED
    BY <2>1, <2>3
<1> HIDE DEF Priced, c
<1>8. "direct" \in Lanes /\ "proxy" \in Lanes
  BY DEF Lanes
<1>9. Priced(sessions["proxy"]) - Priced(sessions["direct"]) <= 0
  BY <1>4, <1>5, <1>6, <1>8 DEF Minus
<1>10. QED
  BY <1>7, <1>8, <1>9 DEF Priced

\* What the account shows of a lane that its counters could tell.
LEMMA LaneIsShown ==
  ASSUME RunInv, Len(done) = 2, clean = [l \in Lanes |-> TRUE], NEW l \in Lanes,
         AccountOf(ResultOf(done, l)) # None,
         AccountOf(ResultOf(done, l)).status = "observed"
  PROVE  \E primary \in Int :
           LET delta == AccountOf(ResultOf(done, l)).delta
           IN /\ delta["primary_used_percent"]
                   = (primary + sessions[l].input) \div Unit - primary \div Unit
              /\ delta["primary_used_percent"] \in Int
              /\ delta["latest_daily_bucket_tokens"] \in {None, sessions[l].input}
<1>1. PICK i \in 1..2 : plan.order[i] = l
  BY Orders DEF RunInv
<1>2. ResultOf(done, l) = done[i]
  BY <1>1, ResultIs DEF RunInv
<1> DEFINE before == done[i].before
           after == done[i].after
           used == sessions[l].input
<1>3. AccountOf(ResultOf(done, l)) = AccountLane(before, after)
  BY <1>2 DEF AccountOf
<1>4. before.status = "observed" /\ after.status = "observed"
  BY <1>3 DEF AccountLane
<1>5. PICK primary \in Int, daily \in Int :
        Told(before, primary, daily) /\ Told(after, primary + used, daily + used)
  BY <1>1 DEF RunInv, DoneInv
<1>6. used \in Nat /\ None \notin Int /\ Unit \in Nat \ {0}
  BY Orders DEF RunInv, RunTypes, Spent
<1> DEFINE p == primary \div Unit
           q == (primary + used) \div Unit
<1>7. p \in Int /\ q \in Int
  BY <1>6
<1>8. /\ before.metrics["primary_used_percent"] = p
      /\ after.metrics["primary_used_percent"] = q
      /\ before.metrics["latest_daily_bucket_tokens"] \in {None, daily}
      /\ after.metrics["latest_daily_bucket_tokens"] \in {None, daily + used}
  BY <1>4, <1>5 DEF Told
<1>9. \A k \in {"primary_used_percent", "latest_daily_bucket_tokens"} :
        AccountLane(before, after).delta[k] = Minus(after.metrics[k], before.metrics[k])
  BY DEF AccountLane, DepletionKeys, BalanceKeys
<1> HIDE DEF before, after, used, p, q
<1>10. AccountLane(before, after).delta["primary_used_percent"] = q - p
  BY <1>6, <1>7, <1>8, <1>9 DEF Minus
<1>11. AccountLane(before, after).delta["latest_daily_bucket_tokens"] \in {None, used}
  <2> DEFINE z == daily + used
  <2>1. z - daily = used
    BY <1>6
  <2> DEFINE k == "latest_daily_bucket_tokens"
  <2>2. AccountLane(before, after).delta[k] = Minus(after.metrics[k], before.metrics[k])
    BY <1>9
  <2> DEFINE x == after.metrics[k]
             y == before.metrics[k]
  <2>3. x \in {None, z} /\ y \in {None, daily}
    BY <1>8
  <2> HIDE DEF x, y, z
  <2>4. Minus(x, y) \in {None, used}
    BY <2>1, <2>3 DEF Minus
  <2>5. QED
    BY <2>2, <2>4 DEF x, y
<1>12. QED
  BY <1>3, <1>7, <1>10, <1>11 DEF p, q, used

\* A verdict on the account passes only if the proxied session used hardly more.
LEMMA AccountIsTrue ==
  ASSUME RunInv, exit = 0, disk.verdict.scope = "account_capacity",
         clean = [l \in Lanes |-> TRUE]
  PROVE  LET exact == \A l \in Lanes :
               AccountOf(ResultOf(done, l)).delta["latest_daily_bucket_tokens"] # None
         IN sessions["proxy"].input < sessions["direct"].input + (IF exact THEN 1 ELSE 2 * Unit)
<1> DEFINE direct == AccountOf(ResultOf(done, "direct"))
           proxy == AccountOf(ResultOf(done, "proxy"))
<1>1. /\ Len(done) = 2 /\ disk.verdict.status = "pass"
      /\ disk.verdict = OverallUsefulness(CompareAccounts(direct, proxy), Comparison(done), plan.floor)
  BY DEF RunInv, EarnedInv, Verdict
<1>2. CompareAccounts(direct, proxy) = "pass"
  BY <1>1 DEF OverallUsefulness, CompletionContract
<1> DEFINE shown == {k \in DepletionKeys \cup BalanceKeys :
                       direct.delta[k] # None /\ proxy.delta[k] # None}
<1>3. /\ direct # None /\ proxy # None
      /\ direct.status = "observed" /\ proxy.status = "observed"
      /\ \A k \in shown \cap DepletionKeys : ~(proxy.delta[k] > direct.delta[k])
  BY <1>2 DEF CompareAccounts
<1>4. "direct" \in Lanes /\ "proxy" \in Lanes
  BY DEF Lanes
<1>5. PICK b \in Int :
        /\ direct.delta["primary_used_percent"]
             = (b + sessions["direct"].input) \div Unit - b \div Unit
        /\ direct.delta["primary_used_percent"] \in Int
        /\ direct.delta["latest_daily_bucket_tokens"] \in {None, sessions["direct"].input}
  BY <1>1, <1>3, <1>4, LaneIsShown
<1>6. PICK a \in Int :
        /\ proxy.delta["primary_used_percent"]
             = (a + sessions["proxy"].input) \div Unit - a \div Unit
        /\ proxy.delta["primary_used_percent"] \in Int
        /\ proxy.delta["latest_daily_bucket_tokens"] \in {None, sessions["proxy"].input}
  BY <1>1, <1>3, <1>4, LaneIsShown
<1>7. /\ sessions["direct"].input \in Nat /\ sessions["proxy"].input \in Nat
      /\ None \notin Int /\ Unit \in Nat \ {0}
  BY <1>4, Orders DEF RunInv, RunTypes, Spent
<1>8. "primary_used_percent" \in shown \cap DepletionKeys
  BY <1>5, <1>6, <1>7 DEF DepletionKeys
<1>9. ~(proxy.delta["primary_used_percent"] > direct.delta["primary_used_percent"])
  BY <1>3, <1>8
<1>10. sessions["proxy"].input < sessions["direct"].input + 2 * Unit
  <2> DEFINE s == sessions["direct"].input
             t == sessions["proxy"].input
  <2>1. (a + t) \div Unit - a \div Unit <= (b + s) \div Unit - b \div Unit
    BY <1>5, <1>6, <1>9
  <2>2. s \in Int /\ t \in Int
    BY <1>7
  <2> HIDE DEF s, t
  <2>3. t < s + 2 * Unit
    BY <1>7, <2>1, <2>2, WholePercents
  <2>4. QED
    BY <2>3 DEF s, t
<1>11. ASSUME \A l \in Lanes :
                AccountOf(ResultOf(done, l)).delta["latest_daily_bucket_tokens"] # None
       PROVE  sessions["proxy"].input < sessions["direct"].input + 1
  <2>1. /\ direct.delta["latest_daily_bucket_tokens"] = sessions["direct"].input
        /\ proxy.delta["latest_daily_bucket_tokens"] = sessions["proxy"].input
    BY <1>4, <1>5, <1>6, <1>11
  <2>2. "latest_daily_bucket_tokens" \in shown \cap DepletionKeys
    BY <1>4, <1>11 DEF DepletionKeys
  <2>3. QED
    BY <1>3, <1>7, <2>1, <2>2
<1>12. QED
  BY <1>10, <1>11

\* Normalized figures come from sessions that ran as many commands.
LEMMA NormalizedIsTrue ==
  ASSUME RunInv, disk.normalized
  PROVE  sessions["direct"].commands = sessions["proxy"].commands
<1>1. Len(done) = 2 /\ Normalized(done)
  BY DEF RunInv, DiskInv
<1>2. /\ ResultOf(done, "direct").trajectory.command_completed
           = ResultOf(done, "proxy").trajectory.command_completed
  BY <1>1 DEF Normalized, CompareTrajectories
<1>3. \A l \in Lanes : ResultOf(done, l).trajectory.command_completed = sessions[l].commands
  <2>1. \A i \in 1..2 : ResultOf(done, plan.order[i]).trajectory.command_completed
                          = sessions[plan.order[i]].commands
    BY <1>1, ResultIs DEF RunInv, DoneInv
  <2>2. QED
    BY <2>1, Orders DEF RunInv
<1>4. QED
  BY <1>2, <1>3 DEF Lanes

\* The invariant says that verdicts are true.
LEMMA VerdictsImplied == RunInv => VerdictsAreTrue
  BY NormalizedIsTrue, AccountIsTrue, FiguresAreTrue DEF VerdictsAreTrue

-----------------------------------------------------------------------------
(* The first state and the steps up to the lanes *)

\* The empty sequence as a function.
LEMMA NoneYet == Len(<<>>) = 0 /\ <<>> = [i \in 1..0 |-> <<>>[i]]
<1>1. <<>> \in Seq({}) /\ Len(<<>>) = 0
  OBVIOUS
<1>2. <<>> \in [1..0 -> {}]
  BY <1>1, LenProperties
<1>3. QED
  BY <1>1, <1>2

\* It holds initially ...
LEMMA RunInvInit == RunInit => RunInv
<1> SUFFICES ASSUME RunInit PROVE RunInv
  OBVIOUS
<1>1. None \notin Int
  BY RunAssumption
<1>2. RunTypes
  BY NoneYet DEF RunInit, RunTypes, NoLane, Nothing, Spent
<1>3. StageInv /\ DiskInv /\ LaneInv /\ Unbegun /\ EarnedInv
  BY <1>1 DEF RunInit, StageInv, DiskInv, LaneInv, Unbegun, EarnedInv, Inside
<1>4. DoneInv
  BY NoneYet DEF RunInit, DoneInv
<1>5. QED
  BY <1>2, <1>3, <1>4 DEF RunInv

\* No lane has begun before the directory is there.
LEMMA StartKeeps == RunInv /\ Start => RunInv'
<1> SUFFICES ASSUME RunInv, Start PROVE RunInv'
  OBVIOUS
<1>1. at = "start" /\ done = <<>> /\ sessions = [l \in Lanes |-> Nothing] /\ exit = None
      /\ disk.plan = disk.summary /\ ~disk.normalized /\ None \notin Int
  BY RunAssumption DEF RunInv, StageInv, DiskInv, Start
<1>2. UNCHANGED <<plan, preflight, lane, done, account, sessions, clean>>
  BY DEF Start
<1>3. Len(done) = 0
  BY <1>1, NoneYet
<1>4. DoneInv' /\ LaneInv' /\ Unbegun'
  <2>1. at' \in {"ended", "preflight", "lane"}
    BY DEF Start, Return
  <2>2. DoneInv'
    BY <1>2, <1>3 DEF DoneInv
  <2>3. LaneInv'
    BY <2>1 DEF LaneInv, Inside
  <2>4. Unbegun'
    BY <1>1, <1>2, <1>3, <2>1, Orders DEF Unbegun, Inside, RunInv
  <2>5. QED
    BY <2>2, <2>3, <2>4
<1>5. CASE disk.plan # None /\ ~plan.force
  <2>1. at' = "ended" /\ exit' = 1 /\ disk' = disk
    BY <1>5 DEF Start, Return
  <2>2. RunTypes' /\ StageInv' /\ DiskInv' /\ EarnedInv'
    BY <1>1, <1>2, <2>1 DEF RunInv, RunTypes, StageInv, DiskInv, EarnedInv, Inside, PreflightOk
  <2>3. QED
    BY <1>4, <2>2 DEF RunInv
<1>6. CASE ~(disk.plan # None /\ ~plan.force)
  <2>1. /\ at' = IF plan.preflight THEN "preflight" ELSE "lane"
        /\ exit' = exit /\ disk' = [disk EXCEPT !.plan = "mine"]
    BY <1>6 DEF Start
  <2>2. /\ disk'.plan = "mine" /\ disk'.summary = disk.summary
        /\ disk'.normalized = disk.normalized /\ DOMAIN disk' = DOMAIN disk
    BY <2>1 DEF RunInv, RunTypes
  <2>3. RunTypes' /\ StageInv' /\ EarnedInv'
    BY <1>1, <1>2, <2>1, <2>2
    DEF RunInv, RunTypes, StageInv, EarnedInv, Inside, PreflightOk
  <2>4. DiskInv'
    BY <1>1, <1>2, <1>6, <2>1, <2>2 DEF DiskInv, Inside
  <2>5. QED
    BY <1>4, <2>3, <2>4 DEF RunInv
<1>7. QED
  BY <1>5, <1>6

\* A preflight that fails ends the execution before a token is spent.
LEMMA PreflightKeeps == RunInv /\ Preflight => RunInv'
<1> SUFFICES ASSUME RunInv, Preflight PROVE RunInv'
  OBVIOUS
<1>1. at = "preflight" /\ done = <<>> /\ sessions = [l \in Lanes |-> Nothing] /\ exit = None
      /\ disk.plan = "mine" /\ (disk.summary = None \/ plan.force)
      /\ ~disk.normalized /\ None \notin Int
  BY RunAssumption DEF RunInv, StageInv, DiskInv, Preflight
<1>2. UNCHANGED <<plan, lane, done, account, sessions, clean>>
  BY DEF Preflight
<1>3. Len(done) = 0
  BY <1>1, NoneYet
<1>4. DoneInv' /\ LaneInv' /\ Unbegun'
  <2>1. at' \in {"ended", "lane"}
    BY DEF Preflight, Return
  <2>2. DoneInv'
    BY <1>2, <1>3 DEF DoneInv
  <2>3. LaneInv'
    BY <2>1 DEF LaneInv, Inside
  <2>4. Unbegun'
    BY <1>1, <1>2, <1>3, <2>1, Orders DEF Unbegun, Inside, RunInv
  <2>5. QED
    BY <2>2, <2>3, <2>4
<1>5. CASE PreflightOk'
  <2>1. at' = "lane" /\ UNCHANGED <<disk, exit>>
    BY <1>5 DEF Preflight
  <2>2. RunTypes' /\ DiskInv' /\ EarnedInv'
    BY <1>1, <1>2, <2>1 DEF RunInv, RunTypes, DiskInv, EarnedInv, Inside
  <2>3. StageInv'
    BY <1>1, <1>2, <1>5, <2>1 DEF StageInv, Inside
  <2>4. QED
    BY <1>4, <2>2, <2>3 DEF RunInv
<1>6. CASE ~PreflightOk'
  <2>1. at' = "ended" /\ exit' = 1 /\ WriteSummary(None, <<>>)
    BY <1>6 DEF Preflight, Return
  <2>2. ~Normalized(<<>>)
    BY NormalizedNeedsBoth DEF Lanes
  <2>3. /\ disk'.plan = "mine" /\ disk'.summary = "mine" /\ ~disk'.normalized
        /\ DOMAIN disk' = DOMAIN disk
    BY <1>1, <2>1, <2>2 DEF WriteSummary, RunInv, RunTypes
  <2>4. RunTypes' /\ DiskInv' /\ EarnedInv'
    BY <1>1, <1>2, <2>1, <2>3 DEF RunInv, RunTypes, DiskInv, EarnedInv, Inside
  <2>5. StageInv'
    BY <1>1, <1>2, <2>1 DEF StageInv, Inside
  <2>6. QED
    BY <1>4, <2>4, <2>5 DEF RunInv
<1>7. QED
  BY <1>5, <1>6

\* A lane starts with a session of its own.
LEMMA StartLaneKeeps == RunInv /\ StartLane => RunInv'
<1> SUFFICES ASSUME RunInv, StartLane PROVE RunInv'
  OBVIOUS
<1>1. /\ at = "lane" /\ Len(done) < 2
      /\ lane' = [NoLane EXCEPT !.name = plan.order[Len(done) + 1]]
      /\ at' = IF plan.snapshots THEN "before" ELSE "turn"
      /\ UNCHANGED <<plan, disk, preflight, done, exit, account, sessions, clean>>
  BY Orders DEF StartLane, RunInv
<1>2. Len(done) \in Nat
  BY DEF RunInv, RunTypes
<1>3. /\ lane'.name = plan.order[Len(done) + 1] /\ lane'.turn = 0 /\ lane'.code = 0
      /\ lane'.summaries = <<>> /\ lane'.lines = <<>> /\ lane'.before = NoSnapshot
      /\ DOMAIN lane' = DOMAIN lane
  BY <1>1 DEF NoLane, RunInv, RunTypes
<1>4. sessions[plan.order[Len(done) + 1]] = Nothing
  BY <1>1, <1>2 DEF RunInv, Unbegun, Inside
<1>5. RunTypes'
  BY <1>1, <1>3 DEF RunInv, RunTypes
<1>6. StageInv' /\ DiskInv'
  BY <1>1 DEF RunInv, StageInv, DiskInv, Inside, PreflightOk
<1>7. EarnedInv'
  BY <1>1, RunAssumption DEF RunInv, StageInv, EarnedInv
<1>8. Unbegun'
  BY <1>1, <1>2 DEF RunInv, Unbegun, Inside
<1>9. DoneInv'
  BY <1>1 DEF RunInv, DoneInv
<1>10. LaneInv'
  <2>1. Cardinality(Completed(lane'.lines, "command_execution")) = 0
    <3>1. Completed(<<>>, "command_execution") = {}
      BY NoneYet DEF Completed
    <3>2. QED
      BY <1>3, <3>1, FS_EmptySet
  <2>2. plan.turns \in Nat \ {0}
    BY Orders DEF RunInv
  <2>3. \A primary, daily : Told(lane'.before, primary, daily)
    BY <1>3, SnapshotsTell
  <2>4. Len(lane'.summaries) = 0 /\ lane'.summaries = [i \in 1..0 |-> lane'.summaries[i]]
        /\ Len(lane'.lines) = 0 /\ lane'.lines = [i \in 1..0 |-> lane'.lines[i]]
    BY <1>3, NoneYet
  <2>5. sessions'[lane'.name] = Nothing /\ Nothing.commands = 0
    BY <1>1, <1>3, <1>4 DEF Nothing
  <2>6. /\ at' \in {"before", "turn"} /\ (at' = "before" => plan'.snapshots)
        /\ Len(done') < 2 /\ lane'.name = plan'.order[Len(done') + 1]
        /\ plan'.turns = plan.turns
    BY <1>1, <1>3
  <2> SUFFICES ASSUME TRUE
               PROVE  LET used == sessions'[lane'.name]
                      IN /\ lane'.turn \in 0..plan'.turns /\ lane'.turn < plan'.turns
                         /\ Cardinality(Completed(lane'.lines, "command_execution")) = used.commands
                         /\ Told(lane'.before, account'.primary + account'.unposted - used.input,
                                 account'.daily + account'.unposted - used.input)
    BY <1>3, <2>4, <2>5, <2>6 DEF LaneInv
  <2>7. QED
    BY <1>3, <2>1, <2>2, <2>3, <2>5, <2>6
<1>11. QED
  BY <1>5, <1>6, <1>7, <1>8, <1>9, <1>10 DEF RunInv

-----------------------------------------------------------------------------
(* A snapshot before the turns *)

\* An attempt that is to be repeated changes nothing the invariant speaks of.
LEMMA AgainKeeps ==
  ASSUME RunInv, Inside, lane' = [lane EXCEPT !.attempt = @ + 1],
         UNCHANGED <<plan, preflight, account, sessions, at, done, disk, exit, clean>>
  PROVE  RunInv'
<1>1. /\ lane'.name = lane.name /\ lane'.turn = lane.turn /\ lane'.code = lane.code
      /\ lane'.session = lane.session /\ lane'.summaries = lane.summaries
      /\ lane'.lines = lane.lines /\ lane'.before = lane.before /\ DOMAIN lane' = DOMAIN lane
  BY DEF RunInv, RunTypes
<1>2. RunTypes'
  BY <1>1 DEF RunInv, RunTypes
<1>3. StageInv' /\ DiskInv' /\ Unbegun' /\ DoneInv'
  BY DEF RunInv, StageInv, DiskInv, Unbegun, DoneInv, Inside, PreflightOk
<1>4. LaneInv'
  BY <1>1 DEF RunInv, LaneInv, Inside
<1>5. EarnedInv'
  BY RunAssumption DEF RunInv, StageInv, EarnedInv, Inside
<1>6. QED
  BY <1>2, <1>3, <1>4, <1>5 DEF RunInv

\* The first snapshot tells of the account before the lane's use.
LEMMA SnapshotBeforeKeeps == RunInv /\ SnapshotBefore => RunInv'
<1> SUFFICES ASSUME RunInv, SnapshotBefore PROVE RunInv'
  OBVIOUS
<1>1. at = "before" /\ UNCHANGED <<plan, preflight, account, sessions>>
  BY DEF SnapshotBefore
<1>2. PICK s \in Snapshots :
        \/ /\ lane' = [lane EXCEPT !.before = s, !.attempt = 0]
           /\ at' = "turn" /\ UNCHANGED <<done, disk, exit>>
           /\ clean' = [clean EXCEPT ![lane.name] = @ /\ account.unposted = 0]
        \/ /\ lane' = [lane EXCEPT !.attempt = @ + 1]
           /\ UNCHANGED <<at, done, disk, exit, clean>>
  BY DEF SnapshotBefore, Attempt
<1>3. CASE /\ lane' = [lane EXCEPT !.attempt = @ + 1]
           /\ UNCHANGED <<at, done, disk, exit, clean>>
  BY <1>1, <1>3, AgainKeeps DEF Inside
<1>4. CASE /\ lane' = [lane EXCEPT !.before = s, !.attempt = 0]
           /\ at' = "turn" /\ UNCHANGED <<done, disk, exit>>
           /\ clean' = [clean EXCEPT ![lane.name] = @ /\ account.unposted = 0]
  <2>1. /\ lane'.name = lane.name /\ lane'.turn = lane.turn /\ lane'.code = lane.code
        /\ lane'.session = lane.session /\ lane'.summaries = lane.summaries
        /\ lane'.lines = lane.lines /\ lane'.before = s /\ DOMAIN lane' = DOMAIN lane
    BY <1>4 DEF RunInv, RunTypes
  <2>2. lane.name \in Lanes /\ Len(done) < 2 /\ lane.name = plan.order[Len(done) + 1]
    BY <1>1, Orders DEF RunInv, RunTypes, LaneInv, Inside
  <2>3. /\ clean' \in [Lanes -> BOOLEAN]
        /\ \A l \in Lanes : clean'[l] => clean[l]
        /\ clean'[lane.name] => account.unposted = 0
    BY <1>4, <2>2 DEF RunInv, RunTypes
  <2>4. RunTypes'
    BY <1>1, <1>4, <2>1, <2>3 DEF RunInv, RunTypes
  <2>5. StageInv' /\ DiskInv' /\ Unbegun'
    BY <1>1, <1>4 DEF RunInv, StageInv, DiskInv, Unbegun, Inside, PreflightOk
  <2>6. EarnedInv'
    BY <1>1, <1>4, RunAssumption DEF RunInv, StageInv, EarnedInv
  <2>7. DoneInv'
    <3>1. \A i \in 1..Len(done) : plan.order[i] \in Lanes
      BY Orders DEF RunInv, RunTypes
    <3>2. QED
      BY <1>1, <1>4, <2>3, <3>1 DEF RunInv, DoneInv
  <2>8. LaneInv'
    <3>1. sessions[lane.name] = Nothing /\ Nothing.input = 0
      BY <1>1 DEF RunInv, LaneInv, Inside, Nothing
    <3>2. account.primary \in Nat /\ account.daily \in Nat
      BY DEF RunInv, RunTypes
    <3>3. account.unposted = 0 =>
            /\ account.primary + account.unposted - sessions[lane.name].input = account.primary
            /\ account.daily + account.unposted - sessions[lane.name].input = account.daily
      BY <3>1, <3>2
    <3>4. clean'[lane.name] =>
            Told(s, account.primary + account.unposted - sessions[lane.name].input,
                 account.daily + account.unposted - sessions[lane.name].input)
      BY <2>3, <3>3, SnapshotsTell
    <3>5. plan.snapshots
      BY <1>1 DEF RunInv, LaneInv, Inside
    <3>6. QED
      BY <1>1, <1>4, <2>1, <3>4, <3>5 DEF RunInv, LaneInv, Inside
  <2>9. QED
    BY <2>4, <2>5, <2>6, <2>7, <2>8 DEF RunInv
<1>5. QED
  BY <1>2, <1>3, <1>4

-----------------------------------------------------------------------------
(* A turn *)

\* An execution that dies leaves the results it has.
LEMMA DyingKeeps ==
  ASSUME RunInv, Inside \/ at = "lane", Die,
         UNCHANGED <<plan, disk, preflight, lane, done, clean>>,
         account' = account \/ (\E n \in Nat : account' = [account EXCEPT !.unposted = n]),
         sessions' \in [Lanes -> Spent],
         \A i \in 1..Len(done) : sessions'[plan.order[i]] = sessions[plan.order[i]]
  PROVE  RunInv'
<1>1. at' = "died" /\ exit' = 1 /\ None \notin Int
  BY RunAssumption DEF Die
<1>2. RunTypes'
  BY <1>1 DEF RunInv, RunTypes
<1>3. StageInv'
  BY <1>1 DEF RunInv, StageInv, PreflightOk, Inside
<1>4. DiskInv'
  BY <1>1 DEF RunInv, DiskInv, StageInv, Inside
<1>5. LaneInv' /\ Unbegun' /\ EarnedInv'
  BY <1>1 DEF LaneInv, Unbegun, EarnedInv, Inside
<1>6. DoneInv'
  BY <1>1 DEF RunInv, DoneInv, Inside
<1>7. QED
  BY <1>2, <1>3, <1>4, <1>5, <1>6 DEF RunInv

\* What a session has used after a run of its agent.
UsedBy(r) ==
  [input |-> sessions[lane.name].input + r.input, cached |-> sessions[lane.name].cached + r.cached,
   commands |-> sessions[lane.name].commands + r.commands]

PrintedBy(r) == [i \in DOMAIN Printed(r) |-> Cumulative(Printed(r)[i], UsedBy(r))]

LEMMA RunIsSpent ==
  ASSUME RunInv, Inside, NEW r \in AgentRuns(plan),
         sessions' = [sessions EXCEPT ![lane.name] = UsedBy(r)]
  PROVE  /\ lane.name \in Lanes /\ UsedBy(r) \in Spent
         /\ sessions' \in [Lanes -> Spent]
         /\ sessions'[lane.name] = UsedBy(r)
         /\ \A i \in 1..2 : i # Len(done) + 1 => sessions'[plan.order[i]] = sessions[plan.order[i]]
         /\ r.input \in Nat /\ r.commands \in Nat
<1>1. Len(done) \in Nat /\ Len(done) < 2 /\ lane.name = plan.order[Len(done) + 1]
  BY DEF RunInv, RunTypes, LaneInv
<1>2. lane.name \in Lanes /\ \A i \in 1..2 : i # Len(done) + 1 => plan.order[i] # lane.name
  <2>1. Len(done) + 1 \in {1, 2} /\ 1..2 = {1, 2}
    BY <1>1
  <2>2. QED
    BY <1>1, <2>1, Orders DEF RunInv
<1>3. {r.input, r.cached, r.commands} \subseteq Nat
  BY RunAssumption DEF RunInv, RunTypes
<1>4. sessions \in [Lanes -> Spent] /\ sessions[lane.name] \in Spent
  BY <1>2 DEF RunInv, RunTypes
<1>5. UsedBy(r) \in Spent
  BY <1>3, <1>4 DEF UsedBy, Spent
<1>6. \A i \in 1..2 : plan.order[i] \in Lanes
  BY Orders DEF RunInv
<1>7. QED
  BY <1>2, <1>3, <1>4, <1>5, <1>6

\* The lines of a run tell what its session has used and done.
LEMMA RunIsPrinted ==
  ASSUME RunInv, Inside, NEW r \in AgentRuns(plan)
  PROVE  /\ Truthful(ParseTokens(PrintedBy(r)), UsedBy(r))
         /\ LET both == lane.lines \o PrintedBy(r)
            IN /\ Len(both) \in Nat /\ both = [i \in 1..Len(both) |-> both[i]]
               /\ Cardinality(Completed(both, "command_execution"))
                    = sessions[lane.name].commands + r.commands
<1> DEFINE k == Len(Printed(r))
           m == Len(lane.lines)
           b == PrintedBy(r)
           a == lane.lines
           S == {a[i] : i \in 1..m} \cup {b[i] : i \in 1..k}
<1>1. /\ k \in Nat /\ DOMAIN Printed(r) = 1..k
      /\ \A i \in DOMAIN Printed(r) : DOMAIN Printed(r)[i] = LineFields
      /\ Cardinality(Completed(Printed(r), "command_execution")) = r.commands
  BY RunAssumption DEF RunInv, RunTypes
<1>2. m \in Nat /\ a = [i \in 1..m |-> a[i]]
      /\ Cardinality(Completed(a, "command_execution")) = sessions[lane.name].commands
  BY DEF RunInv, LaneInv
<1>3. DOMAIN b = 1..k /\ b = [i \in 1..k |-> b[i]]
      /\ \A i \in 1..k : b[i] = Cumulative(Printed(r)[i], UsedBy(r))
  BY <1>1 DEF PrintedBy
<1>4. Truthful(ParseTokens(b), UsedBy(r))
  BY <1>1, <1>3, TokensAreTruthful
<1>5. Cardinality(Completed(b, "command_execution")) = r.commands
  BY <1>1, CountsLeaveItems DEF PrintedBy
<1> HIDE DEF k, m, a, b
<1>6. a \in [1..m -> S] /\ b \in [1..k -> S]
  BY <1>2, <1>3
<1> HIDE DEF S
<1>7. /\ a \o b \in [1..(m + k) -> S] /\ Len(a \o b) = m + k
      /\ Cardinality(Completed(a \o b, "command_execution"))
           = sessions[lane.name].commands + r.commands
  <2>1. m \in Nat /\ k \in Nat
    BY <1>1, <1>2
  <2> DEFINE both == a \o b
  <2>2. a \in Seq(S) /\ b \in Seq(S) /\ Len(a) = m /\ Len(b) = k
    BY <1>6, <2>1
  <2>3. /\ both \in Seq(S) /\ Len(both) = m + k
        /\ \A i \in 1..(m + k) : both[i] = IF i <= m THEN a[i] ELSE b[i - m]
    BY <2>1, <2>2
  <2>4. both \in [1..(m + k) -> S]
    BY <2>3, LenProperties
  <2> HIDE DEF both
  <2>5. /\ DOMAIN a = 1..m /\ DOMAIN b = 1..k /\ DOMAIN both = 1..(m + k)
        /\ \A i \in 1..(m + k) : both[i] = IF i <= m THEN a[i] ELSE b[i - m]
    BY <1>6, <2>3, <2>4
  <2>6. Cardinality(Completed(both, "command_execution"))
          = Cardinality(Completed(a, "command_execution"))
            + Cardinality(Completed(b, "command_execution"))
    BY <2>1, <2>5, CompletedOfBoth
  <2>7. QED
    BY <1>2, <1>5, <2>3, <2>4, <2>6 DEF both
<1>8. m + k \in Nat
  BY <1>1, <1>2
<1>9. QED
  BY <1>4, <1>7, <1>8 DEF a, b

\* A run adds to its own lane's session and to the account what its lines tell.
LEMMA TurnKeeps == RunInv /\ Turn => RunInv'
<1> SUFFICES ASSUME RunInv, Turn PROVE RunInv'
  OBVIOUS
<1>1. at = "turn" /\ Inside /\ UNCHANGED <<plan, disk, preflight, done, clean>>
  BY DEF Turn, Inside
<1>2. CASE lane.turn > 0 /\ lane.session = None
  <2>1. Die /\ UNCHANGED <<lane, account, sessions>>
    BY <1>2 DEF Turn
  <2>2. QED
    BY <1>1, <2>1, DyingKeeps DEF RunInv, RunTypes
<1>3. CASE ~(lane.turn > 0 /\ lane.session = None)
  <2>1. PICK r \in AgentRuns(plan) :
          /\ sessions' = [sessions EXCEPT ![lane.name] = UsedBy(r)]
          /\ account' = [account EXCEPT !.unposted = @ + r.input]
          /\ IF r.timeout THEN Die /\ UNCHANGED lane
             ELSE /\ lane' = [lane EXCEPT
                       !.turn = @ + 1, !.code = r.code,
                       !.summaries = Append(@, ParseTokens(PrintedBy(r))),
                       !.lines = @ \o PrintedBy(r),
                       !.session = IF @ = None THEN LatestThread(ParseTrajectory(PrintedBy(r)))
                                   ELSE @]
                  /\ at' = IF r.code # 0 \/ lane.turn + 1 = plan.turns THEN "after" ELSE "turn"
                  /\ UNCHANGED exit
    BY <1>3 DEF Turn, UsedBy, PrintedBy
  <2>2. /\ lane.name \in Lanes /\ UsedBy(r) \in Spent /\ sessions' \in [Lanes -> Spent]
        /\ sessions'[lane.name] = UsedBy(r)
        /\ \A i \in 1..2 : i # Len(done) + 1 => sessions'[plan.order[i]] = sessions[plan.order[i]]
        /\ r.input \in Nat /\ r.commands \in Nat
    BY <1>1, <2>1, RunIsSpent
  <2>3. /\ Len(done) \in Nat /\ Len(done) < 2 /\ lane.name = plan.order[Len(done) + 1]
        /\ account.unposted + r.input \in Nat
    BY <1>1, <2>2 DEF RunInv, RunTypes, LaneInv
  <2>4. CASE r.timeout
    <3>1. Die /\ UNCHANGED lane
      BY <2>1, <2>4
    <3>2. account' = [account EXCEPT !.unposted = account.unposted + r.input]
      BY <2>1
    <3>3. \A i \in 1..Len(done) : sessions'[plan.order[i]] = sessions[plan.order[i]]
      BY <2>2, <2>3
    <3>4. QED
      BY <1>1, <2>2, <2>3, <3>1, <3>2, <3>3, DyingKeeps
  <2>5. CASE ~r.timeout
    <3>1. /\ lane'.name = lane.name /\ lane'.turn = lane.turn + 1 /\ lane'.code = r.code
          /\ lane'.summaries = Append(lane.summaries, ParseTokens(PrintedBy(r)))
          /\ lane'.lines = lane.lines \o PrintedBy(r)
          /\ lane.session # None => lane'.session = lane.session
          /\ lane'.before = lane.before /\ DOMAIN lane' = DOMAIN lane
      BY <2>1, <2>5 DEF RunInv, RunTypes
    <3>2. /\ account'.primary = account.primary /\ account'.daily = account.daily
          /\ account'.unposted = account.unposted + r.input /\ DOMAIN account' = DOMAIN account
      BY <2>1 DEF RunInv, RunTypes
    <3>3. /\ at' = (IF r.code # 0 \/ lane.turn + 1 = plan.turns THEN "after" ELSE "turn")
          /\ exit' = exit /\ Inside'
      BY <2>1, <2>5 DEF Inside
    <3>4. RunTypes'
      BY <1>1, <2>2, <2>3, <3>1, <3>2, <3>3 DEF RunInv, RunTypes
    <3>5. StageInv' /\ DiskInv'
      BY <1>1, <3>3 DEF RunInv, StageInv, DiskInv, Inside, PreflightOk
    <3>6. EarnedInv'
      BY <1>1, <3>3, RunAssumption DEF RunInv, StageInv, EarnedInv
    <3>7. Unbegun'
      BY <1>1, <2>2, <2>3, <3>3 DEF RunInv, Unbegun
    <3>8. DoneInv'
      BY <1>1, <2>2, <2>3, <3>3 DEF RunInv, DoneInv
    <3>9. LaneInv'
      <4>1. /\ lane.turn \in Nat /\ plan.turns \in Nat /\ lane.turn < plan.turns /\ r.code \in Int
            /\ lane.turn > 0 => lane.session # None
        BY <1>1, <1>3, Orders, RunAssumption DEF RunInv, RunTypes, LaneInv
      <4>2. /\ Len(lane'.summaries) = lane'.turn
            /\ lane'.summaries = [i \in 1..lane'.turn |-> lane'.summaries[i]]
            /\ lane'.summaries[lane'.turn] = ParseTokens(PrintedBy(r))
        <5>1. lane.summaries = [i \in 1..lane.turn |-> lane.summaries[i]]
          BY <1>1 DEF RunInv, LaneInv
        <5>2. QED
          BY <3>1, <4>1, <5>1, AppendOne
      <4>3. /\ Truthful(lane'.summaries[lane'.turn], UsedBy(r))
            /\ Len(lane'.lines) \in Nat
            /\ lane'.lines = [i \in 1..Len(lane'.lines) |-> lane'.lines[i]]
            /\ Cardinality(Completed(lane'.lines, "command_execution")) = UsedBy(r).commands
        BY <1>1, <3>1, <4>2, RunIsPrinted DEF UsedBy
      <4>4. /\ account'.primary + account'.unposted - UsedBy(r).input
                 = account.primary + account.unposted - sessions[lane.name].input
            /\ account'.daily + account'.unposted - UsedBy(r).input
                 = account.daily + account.unposted - sessions[lane.name].input
        <5>1. sessions[lane.name].input \in Nat /\ account.primary \in Nat /\ account.daily \in Nat
              /\ account.unposted \in Nat
          BY <2>2 DEF RunInv, RunTypes, Spent
        <5>2. UsedBy(r).input = sessions[lane.name].input + r.input
          BY DEF UsedBy
        <5>3. QED
          BY <2>2, <3>2, <5>1, <5>2
      <4>5. /\ ~plan.snapshots => lane.before = NoSnapshot
            /\ clean[lane.name] =>
                 Told(lane.before, account.primary + account.unposted - sessions[lane.name].input,
                      account.daily + account.unposted - sessions[lane.name].input)
        BY <1>1 DEF RunInv, LaneInv
      <4>6. /\ lane'.turn \in 0..plan'.turns /\ lane'.turn > 0
            /\ at' = "turn" => lane'.turn < plan'.turns /\ lane'.code = 0
            /\ at' = "after" => lane'.code # 0 \/ lane'.turn = plan'.turns
            /\ lane'.turn > 1 => lane'.session # None
            /\ at' \in {"turn", "after"}
        BY <1>1, <3>1, <3>3, <4>1
      <4>7. Len(done') < 2 /\ lane'.name = plan'.order[Len(done') + 1]
            /\ sessions'[lane'.name] = UsedBy(r) /\ clean'[lane'.name] = clean[lane.name]
            /\ plan' = plan
        <5>1. lane'.name = lane.name /\ Len(done) < 2
          BY <2>3, <3>1
        <5>2. QED
          BY <1>1, <2>2, <2>3, <5>1
      <4>8. clean'[lane'.name] =>
              Told(lane'.before, account'.primary + account'.unposted - sessions'[lane'.name].input,
                   account'.daily + account'.unposted - sessions'[lane'.name].input)
        BY <3>1, <4>4, <4>5, <4>7
      <4>9. /\ ~plan'.snapshots => lane'.before = NoSnapshot
            /\ Truthful(lane'.summaries[lane'.turn], sessions'[lane'.name])
            /\ Cardinality(Completed(lane'.lines, "command_execution"))
                 = sessions'[lane'.name].commands
        BY <3>1, <4>3, <4>5, <4>7
      <4>10. lane'.turn # 0 /\ at' # "before"
        BY <4>1, <4>6
      <4> HIDE DEF Told, Truthful
      <4>11. QED
        BY <4>2, <4>3, <4>6, <4>7, <4>8, <4>9, <4>10 DEF LaneInv
    <3>10. QED
      BY <3>4, <3>5, <3>6, <3>7, <3>8, <3>9 DEF RunInv
  <2>6. QED
    BY <2>4, <2>5
<1>4. QED
  BY <1>2, <1>3

-----------------------------------------------------------------------------
(* The end of a lane *)

\* The result of a lane that is over.
LaneResult(after) ==
  [lane |-> lane.name, code |-> lane.code, turns |-> lane.turn, session |-> lane.session,
   before |-> lane.before, after |-> after,
   tokens |-> Aggregate(lane.summaries, plan.turns > 1),
   trajectory |-> ParseTrajectory(lane.lines)]

\* What is known of a lane before its last snapshot.
LEMMA LaneIsOver ==
  ASSUME RunInv, at = "after"
  PROVE  /\ Len(done) \in Nat /\ Len(done) < 2 /\ lane.name = plan.order[Len(done) + 1]
         /\ lane.name \in Lanes /\ lane.turn \in Nat \ {0}
         /\ lane.code # 0 \/ lane.turn = plan.turns
         /\ lane.turn > 1 => lane.session # None
         /\ Aggregate(lane.summaries, plan.turns > 1) = lane.summaries[lane.turn]
         /\ Truthful(lane.summaries[lane.turn], sessions[lane.name])
         /\ ParseTrajectory(lane.lines).command_completed = sessions[lane.name].commands
<1>1. /\ Len(done) \in Nat /\ Len(done) < 2 /\ lane.name = plan.order[Len(done) + 1]
      /\ lane.turn \in 0..plan.turns /\ lane.turn > 0
      /\ lane.code # 0 \/ lane.turn = plan.turns
      /\ lane.turn > 1 => lane.session # None
      /\ Len(lane.summaries) = lane.turn
      /\ Truthful(lane.summaries[lane.turn], sessions[lane.name])
      /\ Cardinality(Completed(lane.lines, "command_execution")) = sessions[lane.name].commands
  BY DEF RunInv, RunTypes, LaneInv, Inside
<1>2. lane.name \in Lanes /\ plan.turns \in Nat
  <2>1. Len(done) + 1 \in {1, 2} /\ 1..2 = {1, 2}
    BY <1>1
  <2>2. QED
    BY <1>1, <2>1, Orders DEF RunInv
<1>3. Aggregate(lane.summaries, plan.turns > 1) = lane.summaries[lane.turn]
  <2>1. lane.turn = 1 \/ plan.turns > 1
    BY <1>1, <1>2
  <2>2. QED
    BY <1>1, <2>1 DEF Aggregate, Last
<1>4. QED
  BY <1>1, <1>2, <1>3, CommandsCounted

\* The lane's result joins the others, or ends the execution.
LEMMA FinishKeeps ==
  ASSUME RunInv, at = "after", NEW after, FinishLane(after),
         UNCHANGED <<plan, preflight, account, sessions>>,
         clean' \in [Lanes -> BOOLEAN], \A l \in Lanes : clean'[l] => clean[l],
         clean'[lane.name] =>
           \E primary, daily \in Int :
             /\ Told(lane.before, primary, daily)
             /\ Told(after, primary + sessions[lane.name].input, daily + sessions[lane.name].input)
  PROVE  RunInv'
<1> DEFINE n == Len(done)
           result == LaneResult(after)
           used == sessions[lane.name]
<1>1. /\ n \in Nat /\ n < 2 /\ lane.name = plan.order[n + 1] /\ lane.name \in Lanes
      /\ lane.turn \in Nat \ {0}
      /\ lane.code # 0 \/ lane.turn = plan.turns
      /\ lane.turn > 1 => lane.session # None
  BY LaneIsOver
<1>2. /\ done' = Append(done, result) /\ lane' = NoLane
      /\ IF lane.code # 0 THEN WriteSummary(None, Append(done, result)) /\ Return(lane.code)
         ELSE at' = "lane" /\ UNCHANGED <<disk, exit>>
  BY DEF FinishLane, LaneResult
<1>3. /\ result.lane = lane.name /\ result.code = lane.code /\ result.turns = lane.turn
      /\ result.session = lane.session /\ result.before = lane.before /\ result.after = after
      /\ Truthful(result.tokens, used) /\ result.trajectory.command_completed = used.commands
  BY LaneIsOver DEF LaneResult
<1>4. /\ Len(done') = n + 1 /\ done'[n + 1] = result
      /\ done' = [i \in 1..(n + 1) |-> done'[i]] /\ \A i \in 1..n : done'[i] = done[i]
  <2>1. n \in Nat /\ done = [i \in 1..n |-> done[i]] /\ done' = Append(done, result)
    BY <1>1, <1>2 DEF RunInv, RunTypes
  <2> HIDE DEF n, result
  <2>2. QED
    BY <2>1, AppendOne
<1>5. /\ at' \in {"lane", "ended"}
      /\ at' = "lane" => lane.code = 0 /\ UNCHANGED <<disk, exit>>
      /\ at' = "ended" => exit' = lane.code /\ exit' # 0 /\ WriteSummary(None, Append(done, result))
  BY <1>2 DEF Return
<1>6. at = "after" /\ Inside /\ exit = None /\ None \notin Int
      /\ disk.plan = "mine" /\ (disk.summary = None \/ plan.force) /\ ~disk.normalized
      /\ DOMAIN disk = {"plan", "summary", "verdict", "normalized"}
  BY RunAssumption DEF RunInv, RunTypes, StageInv, DiskInv, Inside
<1>7. exit' # 0
  BY <1>5, <1>6
<1> HIDE DEF n, result, used
<1>8. RunTypes'
  <2>1. DOMAIN disk' = DOMAIN disk
    BY <1>5, <1>6 DEF WriteSummary
  <2>2. DOMAIN lane' = DOMAIN lane
    BY <1>2 DEF NoLane, RunInv, RunTypes
  <2>3. Len(done') \in 0..2 /\ done' = [i \in 1..Len(done') |-> done'[i]]
    BY <1>1, <1>4
  <2>4. QED
    BY <1>5, <2>1, <2>2, <2>3 DEF RunInv, RunTypes
<1>9. StageInv'
  BY <1>5, <1>6 DEF RunInv, StageInv, Inside, PreflightOk
<1>10. DiskInv'
  <2>1. CASE at' = "lane"
    BY <1>5, <1>6, <2>1 DEF RunInv, DiskInv, Inside
  <2>2. CASE at' = "ended"
    <3>1. /\ disk'.plan = "mine" /\ disk'.summary = "mine"
          /\ disk'.normalized = Normalized(done')
      BY <1>2, <1>5, <1>6, <2>2 DEF WriteSummary
    <3>2. Normalized(done') => Len(done') = 2
      <4>1. SUFFICES ASSUME Normalized(done'), n = 0 PROVE FALSE
        BY <1>1, <1>4
      <4>2. DOMAIN done' = 1..1
        BY <1>4, <4>1
      <4>3. \A i \in DOMAIN done' : done'[i].lane = lane.name
        BY <1>3, <1>4, <4>1, <4>2
      <4>4. \A l \in Lanes : l = lane.name
        BY <4>1, <4>3, NormalizedNeedsBoth
      <4>5. QED
        BY <4>4 DEF Lanes
    <3>3. QED
      BY <2>2, <3>1, <3>2 DEF DiskInv, Inside
  <2>3. QED
    BY <1>5, <2>1, <2>2
<1>11. LaneInv' /\ EarnedInv'
  BY <1>5, <1>7 DEF LaneInv, EarnedInv, Inside
<1>12. Unbegun'
  BY <1>1, <1>4, <1>5, <1>6 DEF RunInv, Unbegun, Inside, n
<1>13. DoneInv'
  <2>1. ASSUME NEW i \in 1..n
        PROVE  LET u == sessions'[plan'.order[i]]
               IN /\ done'[i].lane = plan'.order[i]
                  /\ Truthful(done'[i].tokens, u)
                  /\ done'[i].trajectory.command_completed = u.commands
                  /\ clean'[plan'.order[i]] =>
                       \E primary, daily \in Int :
                         /\ Told(done'[i].before, primary, daily)
                         /\ Told(done'[i].after, primary + u.input, daily + u.input)
                  /\ at' # "ended" \/ exit' = 0 =>
                       /\ done'[i].code = 0 /\ done'[i].turns = plan'.turns
                       /\ plan'.turns > 1 => done'[i].session # None
    <3>1. done'[i] = done[i] /\ plan'.order[i] = plan.order[i]
          /\ sessions'[plan'.order[i]] = sessions[plan.order[i]]
          /\ plan'.turns = plan.turns
      BY <1>4
    <3>2. clean'[plan.order[i]] => clean[plan.order[i]]
      <4>1. i \in 1..2
        BY <1>1
      <4>2. plan.order[i] \in Lanes
        BY <4>1, Orders DEF RunInv
      <4>3. QED
        BY <4>2
    <3>3. QED
      BY <1>6, <3>1, <3>2 DEF RunInv, DoneInv, n
  <2>2. LET i == n + 1
            u == sessions'[plan'.order[i]]
        IN /\ done'[i].lane = plan'.order[i]
           /\ Truthful(done'[i].tokens, u)
           /\ done'[i].trajectory.command_completed = u.commands
           /\ clean'[plan'.order[i]] =>
                \E primary, daily \in Int :
                  /\ Told(done'[i].before, primary, daily)
                  /\ Told(done'[i].after, primary + u.input, daily + u.input)
           /\ at' # "ended" \/ exit' = 0 =>
                /\ done'[i].code = 0 /\ done'[i].turns = plan'.turns
                /\ plan'.turns > 1 => done'[i].session # None
    <3>1. done'[n + 1] = result /\ plan'.order[n + 1] = lane.name
          /\ sessions'[plan'.order[n + 1]] = used /\ plan'.turns = plan.turns
      BY <1>1, <1>4 DEF used
    <3>2. clean'[lane.name] =>
            \E primary, daily \in Int :
              Told(result.before, primary, daily)
              /\ Told(result.after, primary + used.input, daily + used.input)
      BY <1>3 DEF used
    <3>3. at' # "ended" \/ exit' = 0 =>
            /\ result.code = 0 /\ result.turns = plan.turns
            /\ plan.turns > 1 => result.session # None
      BY <1>1, <1>3, <1>5, <1>7
    <3>4. QED
      BY <1>3, <3>1, <3>2, <3>3
  <2>3. \A i \in 1..Len(done') : i \in 1..n \/ i = n + 1
    BY <1>1, <1>4
  <2>4. QED
    BY <2>1, <2>2, <2>3 DEF DoneInv
<1>14. QED
  BY <1>8, <1>9, <1>10, <1>11, <1>12, <1>13 DEF RunInv

\* A lane under way is one of the two.
LEMMA LaneHasUsed == RunInv /\ Inside => lane.name \in Lanes /\ sessions[lane.name].input \in Nat
<1> SUFFICES ASSUME RunInv, Inside
             PROVE  lane.name \in Lanes /\ sessions[lane.name].input \in Nat
  OBVIOUS
<1>1. Len(done) \in Nat /\ Len(done) < 2 /\ lane.name = plan.order[Len(done) + 1]
  BY DEF RunInv, RunTypes, LaneInv
<1>2. Len(done) + 1 \in {1, 2}
  BY <1>1
<1>3. lane.name \in Lanes
  BY <1>1, <1>2, Orders DEF RunInv
<1>4. QED
  BY <1>3 DEF RunInv, RunTypes, Spent

\* The last snapshot tells of the account after it, when all of it is posted.
LEMMA SnapshotAfterKeeps == RunInv /\ SnapshotAfter => RunInv'
<1> SUFFICES ASSUME RunInv, SnapshotAfter PROVE RunInv'
  OBVIOUS
<1>1. at = "after" /\ UNCHANGED <<plan, preflight, account, sessions>>
  BY DEF SnapshotAfter
<1>2. clean \in [Lanes -> BOOLEAN] /\ lane.name \in Lanes
  BY <1>1, LaneIsOver DEF RunInv, RunTypes
<1>3. CASE ~plan.snapshots
  <2>1. FinishLane(NoSnapshot) /\ UNCHANGED clean
    BY <1>3 DEF SnapshotAfter
  <2>2. lane.before = NoSnapshot
    BY <1>1, <1>3 DEF RunInv, LaneInv, Inside
  <2>3. \E primary, daily \in Int :
          /\ Told(lane.before, primary, daily)
          /\ Told(NoSnapshot, primary + sessions[lane.name].input, daily + sessions[lane.name].input)
    <3>1. /\ Told(NoSnapshot, 0, 0)
          /\ Told(NoSnapshot, 0 + sessions[lane.name].input, 0 + sessions[lane.name].input)
      BY SnapshotsTell
    <3>2. QED
      BY <2>2, <3>1
  <2>4. QED
    BY <1>1, <1>2, <2>1, <2>3, FinishKeeps
<1>4. CASE plan.snapshots
  <2>1. PICK s \in Snapshots :
          \/ FinishLane(s) /\ clean' = [clean EXCEPT ![lane.name] = @ /\ account.unposted = 0]
          \/ /\ lane' = [lane EXCEPT !.attempt = @ + 1]
             /\ UNCHANGED <<at, done, disk, exit, clean>>
    BY <1>4 DEF SnapshotAfter, Attempt
  <2>2. CASE /\ lane' = [lane EXCEPT !.attempt = @ + 1]
             /\ UNCHANGED <<at, done, disk, exit, clean>>
    BY <1>1, <2>2, AgainKeeps DEF Inside
  <2>3. CASE FinishLane(s) /\ clean' = [clean EXCEPT ![lane.name] = @ /\ account.unposted = 0]
    <3>1. /\ clean' \in [Lanes -> BOOLEAN]
          /\ \A l \in Lanes : clean'[l] => clean[l]
          /\ clean'[lane.name] => clean[lane.name] /\ account.unposted = 0
      BY <1>2, <2>3
    <3>2. ASSUME clean'[lane.name]
          PROVE  \E primary, daily \in Int :
                   /\ Told(lane.before, primary, daily)
                   /\ Told(s, primary + sessions[lane.name].input, daily + sessions[lane.name].input)
      <4> DEFINE used == sessions[lane.name].input
                 primary == account.primary - used
                 daily == account.daily - used
      <4>1. used \in Nat /\ account.primary \in Nat /\ account.daily \in Nat
        BY <1>2 DEF RunInv, RunTypes, Spent
      <4>2. /\ account.primary + account.unposted - used = primary
            /\ account.daily + account.unposted - used = daily
        BY <3>1, <3>2, <4>1
      <4>3. Told(lane.before, account.primary + account.unposted - used,
                 account.daily + account.unposted - used)
        BY <1>1, <3>1, <3>2 DEF RunInv, LaneInv, Inside
      <4>4. primary + used = account.primary /\ daily + used = account.daily
            /\ primary \in Int /\ daily \in Int
        BY <4>1
      <4>5. Told(s, account.primary, account.daily)
        BY SnapshotsTell
      <4> HIDE DEF primary, daily
      <4>6. QED
        BY <4>2, <4>3, <4>4, <4>5
    <3>3. QED
      BY <1>1, <2>3, <3>1, <3>2, FinishKeeps
  <2>4. QED
    BY <2>1, <2>2, <2>3
<1>5. QED
  BY <1>3, <1>4

-----------------------------------------------------------------------------
(* The verdict and the account *)

\* The verdict is on the results of both lanes.
LEMMA ConcludeKeeps == RunInv /\ Conclude => RunInv'
<1> SUFFICES ASSUME RunInv, Conclude PROVE RunInv'
  OBVIOUS
<1>1. /\ at = "lane" /\ Len(done) = 2
      /\ UNCHANGED <<plan, preflight, lane, done, account, sessions, clean>>
      /\ exit = None /\ None \notin Int
      /\ disk.plan = "mine" /\ (disk.summary = None \/ plan.force) /\ ~disk.normalized
      /\ DOMAIN disk = {"plan", "summary", "verdict", "normalized"}
  BY Orders, RunAssumption DEF Conclude, RunInv, RunTypes, StageInv, DiskInv
<1>2. CASE Die /\ UNCHANGED disk
  BY <1>1, <1>2, DyingKeeps DEF RunInv, RunTypes
<1>3. ASSUME NEW text \in {0, 3}, NEW aggregate \in {0, 3}, NEW rows \in {0, 3},
             LET db == IF plan.queryDb THEN DbCode(text, aggregate, rows) ELSE 0
                 verdict == Verdict(done)
             IN /\ WriteSummary(verdict, done)
                /\ Return(IF db # 0 THEN db ELSE IF verdict.status = "pass" THEN 0 ELSE 2)
      PROVE  RunInv'
  <2>1. /\ at' = "ended" /\ WriteSummary(Verdict(done), done) /\ exit' \in Int
        /\ exit' = 0 => Verdict(done).status = "pass"
    BY <1>3 DEF Return, DbCode
  <2>2. /\ disk'.plan = "mine" /\ disk'.summary = "mine" /\ disk'.verdict = Verdict(done)
        /\ disk'.normalized = Normalized(done) /\ DOMAIN disk' = DOMAIN disk
    BY <1>1, <2>1 DEF WriteSummary
  <2>3. RunTypes'
    BY <1>1, <2>1, <2>2 DEF RunInv, RunTypes
  <2>4. StageInv' /\ LaneInv' /\ Unbegun'
    BY <1>1, <2>1 DEF RunInv, StageInv, LaneInv, Unbegun, Inside, PreflightOk
  <2>5. DiskInv'
    BY <1>1, <2>1, <2>2 DEF DiskInv, Inside
  <2>6. DoneInv'
    BY <1>1, <2>1 DEF RunInv, DoneInv
  <2>7. EarnedInv'
    <3>1. Verdict(done)' = Verdict(done)
      BY <1>1 DEF Verdict
    <3>2. plan.preflight => PreflightOk
      BY <1>1 DEF RunInv, StageInv
    <3>3. QED
      BY <1>1, <2>1, <2>2, <3>1, <3>2 DEF EarnedInv, PreflightOk
  <2>8. QED
    BY <2>3, <2>4, <2>5, <2>6, <2>7 DEF RunInv
<1>4. QED
  BY <1>2, <1>3 DEF Conclude

\* Posting moves use from what the account owes to what it shows.
LEMMA PostKeeps == RunInv /\ Post => RunInv'
<1> SUFFICES ASSUME RunInv, Post PROVE RunInv'
  OBVIOUS
<1>1. UNCHANGED <<plan, at, disk, preflight, lane, done, exit, sessions, clean>>
  BY DEF Post
<1>2. /\ account'.primary = account.primary + account.unposted
      /\ account'.daily = account.daily + account.unposted
      /\ account'.unposted = 0 /\ DOMAIN account' = DOMAIN account
      /\ account.primary \in Nat /\ account.daily \in Nat /\ account.unposted \in Nat
  BY DEF Post, RunInv, RunTypes
<1>3. RunTypes'
  BY <1>1, <1>2 DEF RunInv, RunTypes
<1>4. StageInv' /\ DiskInv' /\ Unbegun' /\ DoneInv'
  BY <1>1 DEF RunInv, StageInv, DiskInv, Unbegun, DoneInv, Inside, PreflightOk
<1>5. EarnedInv'
  BY <1>1 DEF RunInv, EarnedInv, Verdict, PreflightOk
<1>6. /\ account'.primary + account'.unposted = account.primary + account.unposted
      /\ account'.daily + account'.unposted = account.daily + account.unposted
  BY <1>2
<1>7. LaneInv'
  <2>1. ASSUME Inside
        PROVE  /\ account'.primary + account'.unposted - sessions[lane.name].input
                    = account.primary + account.unposted - sessions[lane.name].input
               /\ account'.daily + account'.unposted - sessions[lane.name].input
                    = account.daily + account.unposted - sessions[lane.name].input
    <3>1. sessions[lane.name].input \in Nat
      BY <2>1, LaneHasUsed
    <3>2. QED
      BY <1>2, <3>1
  <2>2. QED
    BY <1>1, <2>1 DEF RunInv, LaneInv, Inside
<1>8. QED
  BY <1>3, <1>4, <1>5, <1>7 DEF RunInv

\* A counter that starts over inside a lane is all the lane is told of.
LEMMA RollKeeps == RunInv /\ Roll => RunInv'
<1> SUFFICES ASSUME RunInv, Roll PROVE RunInv'
  OBVIOUS
<1>1. UNCHANGED <<plan, at, disk, preflight, lane, done, exit, sessions>>
  BY DEF Roll
<1>2. /\ account'.primary \in Nat /\ account'.daily \in Nat
      /\ account'.unposted \in Nat /\ DOMAIN account' = DOMAIN account
  <2>1. PICK counter \in {"primary", "daily"} :
          account' = [account EXCEPT ![counter] = 0, !.rolls = @ + 1]
    BY DEF Roll
  <2>2. counter = "primary" \/ counter = "daily"
    BY <2>1
  <2>3. QED
    BY <2>1, <2>2 DEF RunInv, RunTypes
<1>3. /\ clean' \in [Lanes -> BOOLEAN]
      /\ \A l \in Lanes : clean'[l] => clean[l] /\ ~(l = lane.name /\ Inside)
  BY DEF Roll, Inside, RunInv, RunTypes
<1>4. RunTypes'
  BY <1>1, <1>2, <1>3 DEF RunInv, RunTypes
<1>5. StageInv' /\ DiskInv' /\ Unbegun'
  BY <1>1 DEF RunInv, StageInv, DiskInv, Unbegun, Inside, PreflightOk
<1>6. EarnedInv'
  BY <1>1 DEF RunInv, EarnedInv, Verdict, PreflightOk
<1>7. DoneInv'
  <2>1. \A i \in 1..Len(done) : plan.order[i] \in Lanes
    BY Orders DEF RunInv, RunTypes
  <2>2. QED
    BY <1>1, <1>3, <2>1 DEF RunInv, DoneInv
<1>8. LaneInv'
  <2>1. ASSUME Inside PROVE ~clean'[lane.name]
    BY <1>3, <2>1, LaneHasUsed
  <2>2. QED
    BY <1>1, <2>1 DEF RunInv, LaneInv, Inside
<1>9. QED
  BY <1>4, <1>5, <1>6, <1>7, <1>8 DEF RunInv

-----------------------------------------------------------------------------

\* ... and every step keeps it.
LEMMA RunInvStep == RunInv /\ [RunNext]_run => RunInv'
<1> SUFFICES ASSUME RunInv, [RunNext]_run PROVE RunInv'
  OBVIOUS
<1>1. CASE UNCHANGED run
  <2>1. UNCHANGED <<plan, at, disk, preflight, lane, done, exit, account, sessions, clean>>
    BY <1>1 DEF run
  <2>2. RunTypes' /\ StageInv' /\ DiskInv' /\ Unbegun' /\ DoneInv'
    BY <2>1 DEF RunInv, RunTypes, StageInv, DiskInv, Unbegun, DoneInv, Inside, PreflightOk
  <2>3. LaneInv' /\ EarnedInv'
    BY <2>1 DEF RunInv, LaneInv, EarnedInv, Inside, Verdict, PreflightOk
  <2>4. QED
    BY <2>2, <2>3 DEF RunInv
<1>2. QED
  BY <1>1, StartKeeps, PreflightKeeps, StartLaneKeeps, SnapshotBeforeKeeps, TurnKeeps,
     SnapshotAfterKeeps, ConcludeKeeps, PostKeeps, RollKeeps DEF RunNext

\* However the environment answers, fails and spends, an execution that exits with
\* success has checked what the plan asked to be checked, run every turn of both
\* lanes and met the floor, and the summary on disk is its own.
THEOREM SuccessIsAlwaysEarned == RunSpec => []SuccessIsEarned
  BY RunInvInit, RunInvStep, EarnedImplies, PTL DEF RunSpec

\* However the account's counters and the lanes' runs interleave, what a summary says
\* of the lanes is true of their sessions: comparable work, no dearer input, and no
\* more of the account than its whole percents or its daily bucket can tell.
THEOREM VerdictsAreAlwaysTrue == RunSpec => []VerdictsAreTrue
  BY RunInvInit, RunInvStep, VerdictsImplied, PTL DEF RunSpec

-----------------------------------------------------------------------------
(* The preparation of a request: dictionaries *)

\* None is no dictionary, and no sequence either.
NoneIsNoDictionary == None # [key \in DOMAIN None |-> None[key]]

\* e has what d has, but for some keys.
AllBut(keys, d, e) ==
  \A k : k \notin keys => /\ k \in DOMAIN e <=> k \in DOMAIN d
                          /\ k \in DOMAIN d => e[k] = d[k]

\* Whoever looks up another key finds the same, also where there is no dictionary.
Alike(keys, d, e) == \A k : k \notin keys => Get(e, k) = Get(d, k)

LEMMA FunctionIsNotNone ==
  ASSUME NoneIsNoDictionary, NEW f, f = [k \in DOMAIN f |-> f[k]]
  PROVE  f # None
  BY DEF NoneIsNoDictionary

LEMMA PutGives ==
  ASSUME NoneIsNoDictionary, NEW d, NEW key, NEW value
  PROVE  /\ Put(d, key, value) # None
         /\ key \in DOMAIN Put(d, key, value)
         /\ Put(d, key, value)[key] = value
         /\ Get(Put(d, key, value), key) = value
         /\ AllBut({key}, d, Put(d, key, value))
<1>1. Put(d, key, value) # None
  BY FunctionIsNotNone DEF Put
<1>2. QED
  BY <1>1 DEF Put, Get, AllBut

LEMMA SetDefaultGives ==
  ASSUME NoneIsNoDictionary, NEW d, d # None, NEW key, NEW value
  PROVE  /\ SetDefault(d, key, value) # None
         /\ key \in DOMAIN SetDefault(d, key, value)
         /\ SetDefault(d, key, value)[key] = IF key \in DOMAIN d THEN d[key] ELSE value
         /\ AllBut({key}, d, SetDefault(d, key, value))
<1>1. CASE key \in DOMAIN d
  BY <1>1 DEF SetDefault, AllBut
<1>2. CASE key \notin DOMAIN d
  BY <1>2, PutGives DEF SetDefault
<1>3. QED
  BY <1>1, <1>2

\* A key is taken out.
LEMMA RemovedGives ==
  ASSUME NoneIsNoDictionary, NEW d, NEW key
  PROVE  LET e == [k \in DOMAIN d \ {key} |-> d[k]]
         IN e # None /\ key \notin DOMAIN e /\ AllBut({key}, d, e)
<1> DEFINE e == [k \in DOMAIN d \ {key} |-> d[k]]
<1>1. e # None
  BY FunctionIsNotNone
<1>2. QED
  BY <1>1 DEF AllBut

LEMMA EmptyHasNothing ==
  ASSUME NoneIsNoDictionary PROVE <<>> # None /\ \A k : Get(<<>>, k) = None
<1>1. <<>> = [k \in DOMAIN <<>> |-> <<>>[k]]
  OBVIOUS
<1>2. <<>> # None
  BY <1>1, FunctionIsNotNone
<1>3. DOMAIN <<>> = {}
  <2>1. <<>> \in Seq({}) /\ Len(<<>>) = 0
    OBVIOUS
  <2>2. DOMAIN <<>> = 1 .. 0
    BY <2>1
  <2>3. QED
    BY <2>2
<1>4. QED
  BY <1>2, <1>3 DEF Get

LEMMA SessionIsNotNone ==
  ASSUME NoneIsNoDictionary, NEW model, NEW key PROVE AffinityOf(model, key) # None
<1>1. AffinityOf(model, key)
        = [k \in DOMAIN AffinityOf(model, key) |-> AffinityOf(model, key)[k]]
  BY DEF AffinityOf
<1>2. QED
  BY <1>1, FunctionIsNotNone

LEMMA AllButIsTransitive ==
  ASSUME NEW A, NEW B, NEW d, NEW e, NEW f, AllBut(A, d, e), AllBut(B, e, f)
  PROVE  AllBut(A \cup B, d, f)
  BY DEF AllBut

LEMMA AllButIsAlike ==
  ASSUME NEW keys, NEW d, NEW e, d # None, e # None, AllBut(keys, d, e)
  PROVE  Alike(keys, d, e)
  BY DEF AllBut, Alike, Get

-----------------------------------------------------------------------------
(* The preparation of a request: its key *)

\* The request carries a key.
Keyed(d) ==
  /\ d # None /\ "metadata" \in DOMAIN d /\ d.metadata # None /\ KEY \in DOMAIN d.metadata

LEMMA OwnMetadataIs ==
  ASSUME NoneIsNoDictionary, NEW d
  PROVE  /\ OwnMetadata(d) # None
         /\ Get(d, "metadata") # None => OwnMetadata(d) = Get(d, "metadata")
         /\ Alike({}, Get(d, "metadata"), OwnMetadata(d))
<1>1. CASE Get(d, "metadata") = None
  <2>1. OwnMetadata(d) = <<>>
    BY <1>1 DEF OwnMetadata
  <2>2. \A k : Get(None, k) = None
    BY DEF Get
  <2>3. QED
    BY <1>1, <2>1, <2>2, EmptyHasNothing DEF Alike
<1>2. CASE Get(d, "metadata") # None
  <2>1. OwnMetadata(d) = Get(d, "metadata")
    BY <1>2 DEF OwnMetadata, Get
  <2>2. QED
    BY <1>2, <2>1 DEF Alike
<1>3. QED
  BY <1>1, <1>2

LEMMA CarryKeyGives ==
  ASSUME NoneIsNoDictionary, NEW d, NEW key
  PROVE  LET e == CarryKey(d, key)
         IN /\ Keyed(e) /\ e.metadata[KEY] = key
            /\ AllBut({"metadata"}, d, e)
            /\ Alike({KEY}, Get(d, "metadata"), e.metadata)
<1> DEFINE own == OwnMetadata(d)
           with == Put(own, KEY, key)
           e == CarryKey(d, key)
<1>1. own # None /\ Alike({}, Get(d, "metadata"), own)
  BY OwnMetadataIs
<1>2. with # None /\ KEY \in DOMAIN with /\ with[KEY] = key /\ AllBut({KEY}, own, with)
  BY PutGives
<1>3. /\ e # None /\ "metadata" \in DOMAIN e /\ e["metadata"] = with
      /\ AllBut({"metadata"}, d, e)
  BY PutGives DEF CarryKey
<1>4. Alike({KEY}, own, with)
  BY <1>1, <1>2, AllButIsAlike
<1>5. QED
  BY <1>1, <1>2, <1>3, <1>4 DEF Keyed, Alike

LEMMA EnsureRequestKeyGives ==
  ASSUME NoneIsNoDictionary, NEW d
  PROVE  LET e == EnsureRequestKey(d)
         IN /\ Keyed(e)
            /\ AllBut({"metadata"}, d, e)
            /\ Alike({KEY}, Get(d, "metadata"), e.metadata)
  BY CarryKeyGives DEF EnsureRequestKey

LEMMA NoteKeyGives ==
  ASSUME NoneIsNoDictionary, NEW p, p # None, NEW key
  PROVE  LET q == NoteKey(p, key)
         IN /\ q # None
            /\ "metadata" \in DOMAIN q
            /\ q.metadata # None => KEY \in DOMAIN q.metadata /\ q.metadata[KEY] = key
            /\ AllBut({"metadata"}, p, q)
<1> DEFINE r == SetDefault(p, "metadata", <<>>)
           m == Put(r.metadata, KEY, key)
           q == Put(r, "metadata", m)
<1>1. r # None /\ "metadata" \in DOMAIN r /\ AllBut({"metadata"}, p, r)
  BY SetDefaultGives
<1>2. CASE r.metadata = None
  BY <1>1, <1>2 DEF NoteKey
<1>3. CASE r.metadata # None
  <2>1. NoteKey(p, key) = q
    BY <1>3 DEF NoteKey
  <2> HIDE DEF r
  <2>2. KEY \in DOMAIN m /\ m[KEY] = key
    BY DEF Put
  <2>3. q # None /\ "metadata" \in DOMAIN q /\ q["metadata"] = m /\ AllBut({"metadata"}, r, q)
    BY PutGives
  <2>4. AllBut({"metadata"}, p, q)
    BY <1>1, <2>3 DEF AllBut
  <2>5. QED
    BY <2>2, <2>3, <2>1, <2>4
<1>4. QED
  BY <1>2, <1>3

LEMMA LinkSessionGives ==
  ASSUME NoneIsNoDictionary, NEW p, p # None, NEW id
  PROVE  LET q == LinkSession(p, id)
         IN /\ q # None
            /\ "litellm_session_id" \notin DOMAIN p =>
                 "litellm_session_id" \in DOMAIN q /\ q.litellm_session_id = id
            /\ "metadata" \in DOMAIN q
            /\ AllBut({"litellm_session_id", "metadata"}, p, q)
            /\ Alike({"session_id"}, Get(p, "metadata"), Get(q, "metadata"))
            /\ "metadata" \in DOMAIN p /\ q.metadata # None =>
                 p.metadata # None /\ AllBut({"session_id"}, p.metadata, q.metadata)
<1> DEFINE o == SetDefault(p, "litellm_session_id", id)
           r == SetDefault(o, "metadata", <<>>)
           m == SetDefault(r.metadata, "session_id", id)
           q == Put(r, "metadata", m)
<1>1. /\ o # None /\ "litellm_session_id" \in DOMAIN o
      /\ "litellm_session_id" \notin DOMAIN p => o["litellm_session_id"] = id
      /\ AllBut({"litellm_session_id"}, p, o)
  BY SetDefaultGives
<1>2. /\ r # None /\ "metadata" \in DOMAIN r /\ AllBut({"metadata"}, o, r)
      /\ r["metadata"] = IF "metadata" \in DOMAIN o THEN o["metadata"] ELSE <<>>
  <2> HIDE DEF o
  <2>1. QED
    BY <1>1, SetDefaultGives
<1>3. AllBut({"litellm_session_id", "metadata"}, p, r)
  BY <1>1, <1>2 DEF AllBut
<1>4. Alike({}, Get(p, "metadata"), Get(r, "metadata"))
  <2>1. "metadata" \in DOMAIN o <=> "metadata" \in DOMAIN p
    BY <1>1 DEF AllBut
  <2>2. CASE "metadata" \in DOMAIN p
    <3>1. r["metadata"] = p["metadata"]
      BY <1>1, <1>2, <2>1, <2>2 DEF AllBut
    <3>2. QED
      BY <1>2, <2>2, <3>1 DEF Get, Alike
  <2>3. CASE "metadata" \notin DOMAIN p
    <3>1. Get(p, "metadata") = None /\ Get(r, "metadata") = <<>>
      BY <1>2, <2>1, <2>3 DEF Get
    <3>2. \A k : Get(None, k) = None
      BY DEF Get
    <3>3. QED
      BY <3>1, <3>2, EmptyHasNothing DEF Alike
  <2>4. QED
    BY <2>2, <2>3
<1>5. "litellm_session_id" \notin DOMAIN p =>
        "litellm_session_id" \in DOMAIN r /\ r["litellm_session_id"] = id
  BY <1>1, <1>2 DEF AllBut
<1>6. "metadata" \in DOMAIN p => r["metadata"] = p["metadata"]
  BY <1>1, <1>2 DEF AllBut
<1>7. CASE r.metadata = None
  <2>1. LinkSession(p, id) = r
    BY <1>7 DEF LinkSession
  <2> HIDE DEF r
  <2>2. QED
    BY <1>2, <1>3, <1>4, <1>5, <1>7, <2>1 DEF Alike
<1>8. CASE r.metadata # None
  <2>1. LinkSession(p, id) = q
    BY <1>8 DEF LinkSession
  <2> HIDE DEF r
  <2>2. m # None /\ AllBut({"session_id"}, r.metadata, m)
    BY <1>8, SetDefaultGives
  <2> HIDE DEF m
  <2>3. q # None /\ "metadata" \in DOMAIN q /\ q["metadata"] = m /\ AllBut({"metadata"}, r, q)
    BY PutGives
  <2> HIDE DEF q
  <2>4. AllBut({"litellm_session_id", "metadata"}, p, q)
    BY <1>3, <2>3 DEF AllBut
  <2>5. Get(q, "metadata") = m /\ Get(r, "metadata") = r.metadata
    BY <1>2, <2>3 DEF Get
  <2>6. Alike({"session_id"}, r.metadata, m)
    BY <1>8, <2>2, AllButIsAlike
  <2>7. Alike({"session_id"}, Get(p, "metadata"), m)
    BY <1>4, <2>5, <2>6 DEF Alike
  <2>8. "litellm_session_id" \notin DOMAIN p =>
          "litellm_session_id" \in DOMAIN q /\ q["litellm_session_id"] = id
    BY <1>5, <2>3 DEF AllBut
  <2>9. QED
    BY <1>8, <1>6, <2>1, <2>2, <2>3, <2>4, <2>5, <2>7, <2>8
<1>9. QED
  BY <1>7, <1>8

-----------------------------------------------------------------------------
(* The preparation of a request: what it says of its client *)

\* Two states of a request with a key say the same of its client and its headers.
SameClient(d, e) ==
  /\ Keyed(d) /\ Keyed(e)
  /\ Get(e, "proxy_server_request") = Get(d, "proxy_server_request")
  /\ Get(e, "litellm_metadata") = Get(d, "litellm_metadata")
  /\ Alike({"session_id", KEY}, Get(d, "metadata"), Get(e, "metadata"))
  /\ Alike({"litellm_session_id", "metadata"}, Get(d, "litellm_params"), Get(e, "litellm_params"))
  /\ Alike({"session_id", KEY}, Get(Get(d, "litellm_params"), "metadata"),
                                Get(Get(e, "litellm_params"), "metadata"))

LEMMA SameClientIsTransitive ==
  ASSUME NEW d, NEW e, NEW f, SameClient(d, e), SameClient(e, f)
  PROVE  SameClient(d, f)
  BY DEF SameClient, Alike

LEMMA SameClientOfSame == ASSUME NEW d, Keyed(d) PROVE SameClient(d, d)
  BY DEF SameClient, Alike

\* The first dictionary of three is the request's own metadata.
LEMMA MetadataOfKeyed ==
  ASSUME NEW d, Keyed(d)
  PROVE  MetadataOf(d) = d.metadata /\ Get(d, "metadata") = d.metadata
<1> DEFINE three == <<Get(d, "metadata"), Get(d, "litellm_metadata"),
                      Get(Get(d, "litellm_params"), "metadata")>>
           there == {i \in DOMAIN three : three[i] # None}
<1>1. Get(d, "metadata") = d.metadata /\ d.metadata # None
  BY DEF Keyed, Get
<1>2. 1 \in there /\ \A j \in there : 1 <= j
  <2>1. three[1] = Get(d, "metadata") /\ DOMAIN three = 1 .. 3
    OBVIOUS
  <2>2. QED
    BY <1>1, <2>1
<1>3. (CHOOSE i \in there : \A j \in there : i <= j) = 1
  <2>1. \A i \in there : i \in 1 .. 3
    OBVIOUS
  <2>2. \A i \in there : (\A j \in there : i <= j) => i = 1
    BY <1>2, <2>1
  <2> HIDE DEF there
  <2>3. QED
    BY <1>2, <2>2
<1>4. Or(three) = three[1]
  BY <1>2, <1>3 DEF Or
<1>5. QED
  BY <1>1, <1>4 DEF MetadataOf

LEMMA ClientIsSame ==
  ASSUME NEW d, NEW e, SameClient(d, e)
  PROVE  /\ ProxyHeaders(e) = ProxyHeaders(d)
         /\ Client(e) = Client(d)
         /\ PassthroughMode(e) = PassthroughMode(d)
         /\ ShouldPassThrough(e) = ShouldPassThrough(d)
         /\ CompressionDisabled(e) = CompressionDisabled(d)
<1> DEFINE held(x) == [i \in 1 .. 3 |-> Get(CandidateMaps(x)[i], "headers")]
<1>1. \A x : /\ CandidateMaps(x)[1] = Get(x, "metadata")
             /\ CandidateMaps(x)[2] = Get(x, "litellm_metadata")
             /\ CandidateMaps(x)[3] = Get(Get(x, "litellm_params"), "metadata")
  BY DEF CandidateMaps
<1>2. "headers" \notin {"session_id", KEY} /\ "litellm_proxy_client" \notin {"session_id", KEY}
      /\ "proxy_server_request" \notin {"litellm_session_id", "metadata"}
  BY DEF KEY
<1>3. \A i \in 1 .. 3 : Get(CandidateMaps(e)[i], "headers") = Get(CandidateMaps(d)[i], "headers")
  <2>1. \A i \in 1 .. 3 : i = 1 \/ i = 2 \/ i = 3
    OBVIOUS
  <2>2. QED
    BY <1>1, <1>2, <2>1 DEF SameClient, Alike
<1>4. held(e) = held(d)
  BY <1>3
<1>5. Get(Get(e, "litellm_params"), "proxy_server_request")
        = Get(Get(d, "litellm_params"), "proxy_server_request")
  BY <1>2 DEF SameClient, Alike
<1>6. ProxyHeaders(e) = ProxyHeaders(d)
  BY <1>4, <1>5 DEF ProxyHeaders, SameClient
<1>7. Get(MetadataOf(e), "litellm_proxy_client") = Get(MetadataOf(d), "litellm_proxy_client")
  BY <1>2, MetadataOfKeyed DEF SameClient, Alike
<1>8. Client(e) = Client(d)
  BY <1>6, <1>7 DEF Client
<1>9. PassthroughMode(e) = PassthroughMode(d)
  BY <1>6 DEF PassthroughMode
<1>10. QED
  BY <1>6, <1>8, <1>9 DEF ShouldPassThrough, CompressionDisabled

\* What touches other parts of the request leaves the client alone.
LEMMA SameClientElsewhere ==
  ASSUME NEW keys, NEW d, NEW e, Keyed(d), e # None, AllBut(keys, d, e),
         "metadata" \notin keys, "litellm_params" \notin keys, "litellm_metadata" \notin keys,
         "proxy_server_request" \notin keys
  PROVE  SameClient(d, e) /\ e.metadata = d.metadata
<1>1. d # None
  BY DEF Keyed
<1>2. Alike(keys, d, e)
  BY <1>1, AllButIsAlike
<1>3. "metadata" \in DOMAIN e /\ e["metadata"] = d["metadata"]
  BY DEF Keyed, AllBut
<1>4. Keyed(e)
  BY <1>3 DEF Keyed
<1>5. QED
  BY <1>2, <1>3, <1>4 DEF SameClient, Alike

\* A key that is ensured a second time changes nothing of the client.
LEMMA EnsuredAgain ==
  ASSUME NoneIsNoDictionary, NEW d, Keyed(d)
  PROVE  SameClient(d, EnsureRequestKey(d))
<1> DEFINE e == EnsureRequestKey(d)
<1>1. /\ Keyed(e) /\ AllBut({"metadata"}, d, e) /\ Alike({KEY}, Get(d, "metadata"), e.metadata)
  BY EnsureRequestKeyGives
<1> HIDE DEF e
<1>2. Alike({"metadata"}, d, e)
  BY <1>1, AllButIsAlike DEF Keyed
<1>3. Get(e, "metadata") = e.metadata
  BY <1>1, MetadataOfKeyed
<1>4. Alike({"session_id", KEY}, Get(d, "metadata"), Get(e, "metadata"))
  BY <1>1, <1>3 DEF Alike
<1>5. SameClient(d, e)
  BY <1>1, <1>2, <1>4 DEF SameClient, Alike
<1>6. QED
  BY <1>5 DEF e

-----------------------------------------------------------------------------
(* The preparation of a request: the Responses route, step by step *)

LEMMA AffinityGives ==
  ASSUME NoneIsNoDictionary, NEW d, Keyed(d), NEW model
  PROVE  LET e == ApplyAffinity(d, model)
         IN /\ SameClient(d, e)
            /\ e.metadata[KEY] = d.metadata[KEY]
            /\ AllBut({"litellm_session_id", "metadata", "litellm_params"}, d, e)
            /\ HasAffinity(d) =>
                 /\ "litellm_session_id" \in DOMAIN e
                 /\ e.litellm_session_id = AffinityOf(model, d.prompt_cache_key)
            /\ ~HasAffinity(d) => e = d
<1> DEFINE id == AffinityOf(model, d.prompt_cache_key)
           p == Get(d, "litellm_params")
           own == SetDefault(OwnMetadata(d), "session_id", id)
           first == Put(d, "litellm_session_id", id)
           linked == Put(first, "metadata", own)
           q == LinkSession(p, id)
           e == Put(linked, "litellm_params", q)
<1>1. CASE ~HasAffinity(d)
  <2>1. ApplyAffinity(d, model) = d
    BY <1>1 DEF ApplyAffinity
  <2>2. AllBut({"litellm_session_id", "metadata", "litellm_params"}, d, d)
    BY DEF AllBut
  <2>3. QED
    BY <1>1, <2>1, <2>2, SameClientOfSame
<1>2. CASE HasAffinity(d)
  <2>1. OwnMetadata(d) = d.metadata /\ d.metadata # None
    BY OwnMetadataIs, MetadataOfKeyed DEF Keyed
  <2>2. own # None /\ AllBut({"session_id"}, d.metadata, own)
    BY <2>1, SetDefaultGives
  <2>3. KEY \in DOMAIN own /\ own[KEY] = d.metadata[KEY]
    <3>1. KEY \notin {"session_id"}
      BY DEF KEY
    <3> HIDE DEF own
    <3>2. QED
      BY <2>2, <3>1 DEF AllBut, Keyed
  <2>4. Alike({"session_id", KEY}, d.metadata, own)
    <3> HIDE DEF own
    <3>1. Alike({"session_id"}, d.metadata, own)
      BY <2>1, <2>2, AllButIsAlike
    <3>2. QED
      BY <3>1 DEF Alike
  <2> HIDE DEF own, id
  <2>5. /\ first # None /\ "litellm_session_id" \in DOMAIN first
        /\ first["litellm_session_id"] = id /\ AllBut({"litellm_session_id"}, d, first)
    BY PutGives
  <2> HIDE DEF first
  <2>6. /\ linked # None /\ "metadata" \in DOMAIN linked
        /\ linked["metadata"] = own /\ AllBut({"metadata"}, first, linked)
    BY PutGives
  <2> HIDE DEF linked
  <2>7. /\ AllBut({"litellm_session_id", "metadata"}, d, linked)
        /\ "litellm_session_id" \in DOMAIN linked /\ linked["litellm_session_id"] = id
    BY <2>5, <2>6 DEF AllBut
  <2>8. Keyed(linked)
    BY <2>2, <2>3, <2>6 DEF Keyed
  <2>9. SameClient(d, linked)
    <3>1. Alike({"litellm_session_id", "metadata"}, d, linked)
      BY <2>6, <2>7, AllButIsAlike DEF Keyed
    <3>2. Get(linked, "metadata") = own /\ Get(d, "metadata") = d.metadata
      BY <2>6, MetadataOfKeyed DEF Get
    <3>3. QED
      BY <2>4, <2>8, <3>1, <3>2 DEF SameClient, Alike
  <2>10. CASE p = None
    <3>1. ApplyAffinity(d, model) = linked
      BY <1>2, <2>10 DEF ApplyAffinity, linked, first, own, id
    <3>2. AllBut({"litellm_session_id", "metadata", "litellm_params"}, d, linked)
      BY <2>7 DEF AllBut
    <3>3. QED
      BY <1>2, <2>3, <2>6, <2>7, <2>9, <3>1, <3>2 DEF id
  <2>11. CASE p # None
    <3>1. ApplyAffinity(d, model) = e
      BY <1>2, <2>11 DEF ApplyAffinity, linked, first, own, id
    <3>2. /\ q # None /\ AllBut({"litellm_session_id", "metadata"}, p, q)
          /\ Alike({"session_id"}, Get(p, "metadata"), Get(q, "metadata"))
      BY <2>11, LinkSessionGives
    <3> HIDE DEF q
    <3>3. Alike({"litellm_session_id", "metadata"}, p, q)
      BY <2>11, <3>2, AllButIsAlike
    <3>4. /\ e # None /\ "litellm_params" \in DOMAIN e
          /\ e["litellm_params"] = q /\ AllBut({"litellm_params"}, linked, e)
      BY PutGives
    <3> HIDE DEF e, p
    <3>5. /\ AllBut({"litellm_session_id", "metadata", "litellm_params"}, d, e)
          /\ "litellm_session_id" \in DOMAIN e /\ e["litellm_session_id"] = id
          /\ "metadata" \in DOMAIN e /\ e["metadata"] = own
      BY <2>6, <2>7, <3>4 DEF AllBut
    <3>6. Keyed(e)
      BY <2>2, <2>3, <3>4, <3>5 DEF Keyed
    <3>7. Get(e, "litellm_params") = q /\ Get(e, "metadata") = own
      BY <3>4, <3>5 DEF Get
    <3>8. Alike({"litellm_session_id", "metadata", "litellm_params"}, d, e)
      BY <3>4, <3>5, AllButIsAlike DEF Keyed
    <3>9. Alike({"session_id", KEY}, Get(Get(d, "litellm_params"), "metadata"),
                                     Get(q, "metadata"))
      BY <3>2 DEF Alike, p
    <3>10. SameClient(d, e)
      <4>1. Get(d, "metadata") = d.metadata
        BY MetadataOfKeyed
      <4>2. QED
        BY <2>4, <3>3, <3>6, <3>7, <3>8, <3>9, <4>1 DEF SameClient, Alike, p
    <3>11. QED
      BY <1>2, <2>3, <3>1, <3>5, <3>10 DEF id
  <2>12. QED
    BY <2>10, <2>11
<1>3. QED
  BY <1>1, <1>2

LEMMA GuardGives ==
  ASSUME NoneIsNoDictionary, NEW d, d # None
  PROVE  LET e == GuardCacheKey(d)
         IN /\ e # None /\ AllBut({"prompt_cache_key"}, d, e)
            /\ IF settings.dropKey /\ Client(d) = "codex"
               THEN "prompt_cache_key" \notin DOMAIN e ELSE e = d
<1>1. CASE settings.dropKey /\ Client(d) = "codex"
  BY <1>1, RemovedGives DEF GuardCacheKey
<1>2. CASE ~(settings.dropKey /\ Client(d) = "codex")
  BY <1>2 DEF GuardCacheKey, AllBut
<1>3. QED
  BY <1>1, <1>2

LEMMA HeadersGive ==
  ASSUME NoneIsNoDictionary, NEW d, d # None
  PROVE  PreserveHeaders(d) # None /\ AllBut({"extra_headers"}, d, PreserveHeaders(d))
<1>1. AllBut({"extra_headers"}, d, d)
  BY DEF AllBut
<1>2. \A value : /\ Put(d, "extra_headers", value) # None
                 /\ AllBut({"extra_headers"}, d, Put(d, "extra_headers", value))
  BY PutGives
<1> DEFINE less == [k \in DOMAIN d \ {"extra_headers"} |-> d[k]]
<1>3. less # None /\ AllBut({"extra_headers"}, d, less)
  BY RemovedGives
<1>4. \/ PreserveHeaders(d) = d
      \/ PreserveHeaders(d) = less
      \/ \E value : PreserveHeaders(d) = Put(d, "extra_headers", value)
  <2> HIDE DEF less
  <2>1. QED
    BY DEF PreserveHeaders, less
<1> HIDE DEF less
<1>5. QED
  BY <1>1, <1>2, <1>3, <1>4

LEMMA FieldsGive ==
  ASSUME NoneIsNoDictionary, NEW d, d # None
  PROVE  LET e == PreserveFields(d)
             body == Get(e, "extra_body")
         IN /\ e # None /\ AllBut({"extra_body"}, d, e)
            /\ ShouldPassThrough(d) =>
                 /\ \A f \in PASSTHROUGH_FIELDS \cap DOMAIN d :
                      body # None /\ f \in DOMAIN body /\ body[f] = d[f]
            /\ \A f : f \notin PASSTHROUGH_FIELDS \cap DOMAIN d =>
                 Get(body, f) = Get(Get(d, "extra_body"), f)
<1> DEFINE own == Get(d, "extra_body")
           extra == IF own = None THEN <<>> ELSE d.extra_body
           held == PASSTHROUGH_FIELDS \cap DOMAIN d
           less == [k \in DOMAIN d \ {"extra_body"} |-> d[k]]
           body == [f \in DOMAIN extra \cup held |-> IF f \in held THEN d[f] ELSE extra[f]]
           more == Put(d, "extra_body", body)
<1>1. \A f : Get(extra, f) = Get(own, f)
  <2>1. CASE own = None
    <3>1. \A f : Get(None, f) = None
      BY DEF Get
    <3>2. QED
      BY <2>1, <3>1, EmptyHasNothing
  <2>2. CASE own # None
    BY <2>2 DEF Get
  <2>3. QED
    BY <2>1, <2>2
<1>2. extra # None
  <2>1. CASE own = None
    BY <2>1, EmptyHasNothing
  <2>2. CASE own # None
    BY <2>2 DEF Get
  <2>3. QED
    BY <2>1, <2>2
<1>3. CASE ~ShouldPassThrough(d)
  BY <1>3 DEF PreserveFields, AllBut
<1>4. CASE ShouldPassThrough(d) /\ held = {} /\ DOMAIN extra = {}
  <2>1. PreserveFields(d) = less
    BY <1>4 DEF PreserveFields
  <2>2. less # None /\ "extra_body" \notin DOMAIN less /\ AllBut({"extra_body"}, d, less)
    BY RemovedGives
  <2>3. Get(less, "extra_body") = None
    BY <2>2 DEF Get
  <2>4. \A f : Get(extra, f) = None /\ Get(None, f) = None
    BY <1>4 DEF Get
  <2> HIDE DEF less, extra
  <2>5. QED
    BY <1>1, <1>4, <2>1, <2>2, <2>3, <2>4
<1>5. CASE ShouldPassThrough(d) /\ ~(held = {} /\ DOMAIN extra = {})
  <2>1. PreserveFields(d) = more
    BY <1>5 DEF PreserveFields
  <2> HIDE DEF extra
  <2>2. body # None
    BY FunctionIsNotNone
  <2>3. \A f \in held : f \in DOMAIN body /\ body[f] = d[f]
    OBVIOUS
  <2>4. \A f : f \notin held => Get(body, f) = Get(extra, f)
    <3>1. \A f : f \notin held => (f \in DOMAIN body <=> f \in DOMAIN extra)
                                  /\ (f \in DOMAIN extra => body[f] = extra[f])
      OBVIOUS
    <3> HIDE DEF body, held
    <3>2. QED
      BY <1>2, <2>2, <3>1 DEF Get
  <2> HIDE DEF body, held
  <2>5. more # None /\ Get(more, "extra_body") = body /\ AllBut({"extra_body"}, d, more)
    BY PutGives
  <2> HIDE DEF more
  <2>6. QED
    BY <1>1, <2>1, <2>2, <2>3, <2>4, <2>5 DEF held
<1>6. QED
  BY <1>3, <1>4, <1>5

LEMMA ToolsGive ==
  ASSUME NoneIsNoDictionary, NEW d, d # None, NEW saves
  PROVE  LET e == CompactTools(d, saves)
         IN /\ e # None /\ AllBut({"tools"}, d, e)
            /\ "tools" \in DOMAIN d =>
                 /\ "tools" \in DOMAIN e
                 /\ \A p \in d.tools : ~Annotates(p) => p \in e.tools
<1> DEFINE e == Put(d, "tools", CompactSchema(d.tools))
<1>1. CASE CompactTools(d, saves) = d
  BY <1>1 DEF AllBut
<1>2. CASE CompactTools(d, saves) # d
  <2>1. CompactTools(d, saves) = e
    BY <1>2 DEF CompactTools
  <2>2. /\ e # None /\ AllBut({"tools"}, d, e) /\ "tools" \in DOMAIN e
        /\ e["tools"] = CompactSchema(d.tools)
    BY PutGives
  <2>3. \A p \in d.tools : ~Annotates(p) => p \in CompactSchema(d.tools)
    BY DEF Annotates, CompactSchema
  <2>4. QED
    BY <2>1, <2>2, <2>3
<1>3. QED
  BY <1>1, <1>2

\* The steps together, for a request that has its key.
LEMMA PreparedGives ==
  ASSUME NoneIsNoDictionary, NEW d, Keyed(d), NEW model, NEW saves
  PROVE  LET e == PrepareResponses(d, model, saves)
             body == Get(e, "extra_body")
             others == {"prompt_cache_key", "extra_headers", "extra_body", "tools"}
             fields == PASSTHROUGH_FIELDS \cap DOMAIN e
         IN /\ SameClient(d, e) /\ e.metadata[KEY] = d.metadata[KEY]
            /\ AllBut(others \cup {"litellm_session_id", "metadata", "litellm_params"}, d, e)
            /\ HasAffinity(d) =>
                 /\ "litellm_session_id" \in DOMAIN e
                 /\ e.litellm_session_id = AffinityOf(model, d.prompt_cache_key)
            /\ ~HasAffinity(d) => AllBut(others, d, e)
            /\ IF settings.dropKey /\ Client(d) = "codex"
               THEN "prompt_cache_key" \notin DOMAIN e
               ELSE /\ "prompt_cache_key" \in DOMAIN e <=> "prompt_cache_key" \in DOMAIN d
                    /\ "prompt_cache_key" \in DOMAIN d => e.prompt_cache_key = d.prompt_cache_key
            /\ ShouldPassThrough(d) =>
                 \A f \in fields : body # None /\ f \in DOMAIN body /\ body[f] = e[f]
            /\ \A f : f \notin fields => Get(body, f) = Get(Get(d, "extra_body"), f)
            /\ "tools" \in DOMAIN d =>
                 /\ "tools" \in DOMAIN e
                 /\ \A p \in d.tools : ~Annotates(p) => p \in e.tools
<1> DEFINE a == ApplyAffinity(d, model)
           g == GuardCacheKey(a)
           h == PreserveHeaders(g)
           b == PreserveFields(h)
           c == CompactTools(b, saves)
           e == PrepareResponses(d, model, saves)
<1>1. /\ SameClient(d, a) /\ a.metadata[KEY] = d.metadata[KEY]
      /\ AllBut({"litellm_session_id", "metadata", "litellm_params"}, d, a)
      /\ HasAffinity(d) =>
           /\ "litellm_session_id" \in DOMAIN a
           /\ a.litellm_session_id = AffinityOf(model, d.prompt_cache_key)
      /\ ~HasAffinity(d) => a = d
  BY AffinityGives
<1> HIDE DEF a
<1>2. Keyed(a) /\ a # None
  BY <1>1 DEF SameClient, Keyed
<1>3. /\ g # None /\ AllBut({"prompt_cache_key"}, a, g)
      /\ IF settings.dropKey /\ Client(a) = "codex"
         THEN "prompt_cache_key" \notin DOMAIN g ELSE g = a
  BY <1>2, GuardGives
<1> HIDE DEF g
<1>4. SameClient(a, g) /\ g.metadata = a.metadata
  BY <1>2, <1>3, SameClientElsewhere
<1>5. h # None /\ AllBut({"extra_headers"}, g, h)
  BY <1>3, HeadersGive
<1> HIDE DEF h
<1>6. SameClient(g, h) /\ h.metadata = g.metadata
  BY <1>4, <1>5, SameClientElsewhere DEF SameClient
<1>7. /\ b # None /\ AllBut({"extra_body"}, h, b)
      /\ ShouldPassThrough(h) =>
           /\ \A f \in PASSTHROUGH_FIELDS \cap DOMAIN h :
                /\ Get(b, "extra_body") # None /\ f \in DOMAIN Get(b, "extra_body")
                /\ Get(b, "extra_body")[f] = h[f]
      /\ \A f : f \notin PASSTHROUGH_FIELDS \cap DOMAIN h =>
           Get(Get(b, "extra_body"), f) = Get(Get(h, "extra_body"), f)
  BY <1>5, FieldsGive
<1> HIDE DEF b
<1>8. SameClient(h, b) /\ b.metadata = h.metadata
  BY <1>6, <1>7, SameClientElsewhere DEF SameClient
<1>9. /\ c # None /\ AllBut({"tools"}, b, c)
      /\ "tools" \in DOMAIN b =>
           /\ "tools" \in DOMAIN c
           /\ \A p \in b.tools : ~Annotates(p) => p \in c.tools
  BY <1>7, ToolsGive
<1>10. e = b \/ e = c
  BY DEF e, PrepareResponses, a, b, c, g, h
<1> HIDE DEF c, e
<1>11. /\ e # None /\ AllBut({"tools"}, b, e)
       /\ "tools" \in DOMAIN b =>
            /\ "tools" \in DOMAIN e
            /\ \A p \in b.tools : ~Annotates(p) => p \in e.tools
  <2>1. AllBut({"tools"}, b, b)
    BY DEF AllBut
  <2>2. QED
    BY <1>7, <1>9, <1>10, <2>1
<1>12. SameClient(b, e) /\ e.metadata = b.metadata
  BY <1>8, <1>11, SameClientElsewhere DEF SameClient
<1>13. /\ SameClient(d, g) /\ SameClient(d, h) /\ SameClient(d, b) /\ SameClient(d, e)
       /\ e.metadata[KEY] = d.metadata[KEY]
  BY <1>1, <1>4, <1>6, <1>8, <1>12, SameClientIsTransitive
<1>14. AllBut({"prompt_cache_key", "extra_headers", "extra_body", "tools"}, a, e)
  BY <1>3, <1>5, <1>7, <1>11 DEF AllBut
<1>15. AllBut({"prompt_cache_key", "extra_headers", "extra_body", "tools",
               "litellm_session_id", "metadata", "litellm_params"}, d, e)
  BY <1>1, <1>14 DEF AllBut
<1>16. AllBut({"extra_headers", "extra_body", "tools"}, g, e)
  BY <1>5, <1>7, <1>11 DEF AllBut
<1>17. IF settings.dropKey /\ Client(d) = "codex"
       THEN "prompt_cache_key" \notin DOMAIN e
       ELSE /\ "prompt_cache_key" \in DOMAIN e <=> "prompt_cache_key" \in DOMAIN d
            /\ "prompt_cache_key" \in DOMAIN d => e["prompt_cache_key"] = d["prompt_cache_key"]
  <2>1. Client(a) = Client(d)
    BY <1>1, ClientIsSame
  <2>2. CASE settings.dropKey /\ Client(d) = "codex"
    BY <1>3, <1>16, <2>1, <2>2 DEF AllBut
  <2>3. CASE ~(settings.dropKey /\ Client(d) = "codex")
    BY <1>1, <1>3, <1>16, <2>1, <2>3 DEF AllBut
  <2>4. QED
    BY <2>2, <2>3
<1>18. PASSTHROUGH_FIELDS \cap DOMAIN h = PASSTHROUGH_FIELDS \cap DOMAIN e
       /\ \A f \in PASSTHROUGH_FIELDS \cap DOMAIN e : h[f] = e[f]
  <2>1. \A f \in PASSTHROUGH_FIELDS : f \notin {"extra_body", "tools"}
    BY DEF PASSTHROUGH_FIELDS
  <2>2. QED
    BY <1>7, <1>11, <2>1 DEF AllBut
<1>19. Get(e, "extra_body") = Get(b, "extra_body")
  BY <1>7, <1>11 DEF AllBut, Get
<1>20. Get(h, "extra_body") = Get(d, "extra_body")
  <2>1. Get(a, "extra_body") = Get(d, "extra_body")
    BY <1>1, <1>2 DEF AllBut, Get, Keyed
  <2>2. Get(g, "extra_body") = Get(a, "extra_body")
    BY <1>2, <1>3 DEF AllBut, Get
  <2>3. Get(h, "extra_body") = Get(g, "extra_body")
    BY <1>3, <1>5 DEF AllBut, Get
  <2>4. QED
    BY <2>1, <2>2, <2>3
<1>21. ShouldPassThrough(h) = ShouldPassThrough(d)
  BY <1>13, ClientIsSame
<1>22. /\ ShouldPassThrough(d) =>
            \A f \in PASSTHROUGH_FIELDS \cap DOMAIN e :
              /\ Get(e, "extra_body") # None /\ f \in DOMAIN Get(e, "extra_body")
              /\ Get(e, "extra_body")[f] = e[f]
       /\ \A f : f \notin PASSTHROUGH_FIELDS \cap DOMAIN e =>
            Get(Get(e, "extra_body"), f) = Get(Get(d, "extra_body"), f)
  BY <1>7, <1>18, <1>19, <1>20, <1>21
<1>23. "tools" \in DOMAIN d => /\ "tools" \in DOMAIN e
                               /\ \A p \in d["tools"] : ~Annotates(p) => p \in e["tools"]
  <2>1. AllBut({"litellm_session_id", "metadata", "litellm_params", "prompt_cache_key",
                "extra_headers", "extra_body"}, d, b)
    BY <1>1, <1>3, <1>5, <1>7 DEF AllBut
  <2>2. QED
    BY <1>11, <2>1 DEF AllBut
<1>24. HasAffinity(d) => /\ "litellm_session_id" \in DOMAIN e
                         /\ e["litellm_session_id"] = AffinityOf(model, d.prompt_cache_key)
  BY <1>1, <1>14 DEF AllBut
<1>25. ~HasAffinity(d) => AllBut({"prompt_cache_key", "extra_headers", "extra_body", "tools"}, d, e)
  BY <1>1, <1>14
<1>26. {"prompt_cache_key", "extra_headers", "extra_body", "tools"}
         \cup {"litellm_session_id", "metadata", "litellm_params"}
       = {"prompt_cache_key", "extra_headers", "extra_body", "tools",
          "litellm_session_id", "metadata", "litellm_params"}
  OBVIOUS
<1>27. QED
  BY <1>13, <1>15, <1>17, <1>22, <1>23, <1>24, <1>25, <1>26 DEF e

-----------------------------------------------------------------------------
(* The preparation of a request: texts, logging and deployment *)

LEMMA SystemAsUserGives ==
  ASSUME NoneIsNoDictionary, NEW d, d # None
  PROVE  LET e == SystemAsUser(d)
         IN /\ e # None /\ AllBut({"system", "messages"}, d, e)
            /\ Get(d, "messages") = None => e = d
<1> DEFINE rest == [k \in DOMAIN d \ {"system"} |-> d[k]]
<1>1. SystemAsUser(d) = d \/ \E m : SystemAsUser(d) = Put(rest, "messages", m)
  <2> HIDE DEF rest
  <2>1. QED
    BY DEF SystemAsUser, rest
<1>2. Get(d, "messages") = None => SystemAsUser(d) = d
  BY DEF SystemAsUser
<1>3. rest # None /\ AllBut({"system"}, d, rest)
  BY RemovedGives
<1> HIDE DEF rest
<1>4. \A m : Put(rest, "messages", m) # None /\ AllBut({"messages"}, rest, Put(rest, "messages", m))
  BY PutGives
<1>5. \A m : AllBut({"system", "messages"}, d, Put(rest, "messages", m))
  BY <1>3, <1>4 DEF AllBut
<1>6. AllBut({"system", "messages"}, d, d)
  BY DEF AllBut
<1>7. QED
  BY <1>1, <1>2, <1>4, <1>5, <1>6

LEMMA MoveSystemGives ==
  ASSUME NoneIsNoDictionary, NEW d, d # None
  PROVE  LET e == MoveSystem(d)
         IN /\ e # None /\ AllBut({"system", "messages"}, d, e)
            /\ Get(d, "messages") = None => e = d
<1> DEFINE rest == [k \in DOMAIN d \ {"system"} |-> d[k]]
<1>1. MoveSystem(d) = d \/ \E m : MoveSystem(d) = Put(rest, "messages", m)
  <2> HIDE DEF rest
  <2>1. QED
    BY DEF MoveSystem, rest
<1>2. Get(d, "messages") = None => MoveSystem(d) = d
  BY DEF MoveSystem
<1>3. rest # None /\ AllBut({"system"}, d, rest)
  BY RemovedGives
<1> HIDE DEF rest
<1>4. \A m : Put(rest, "messages", m) # None /\ AllBut({"messages"}, rest, Put(rest, "messages", m))
  BY PutGives
<1>5. \A m : AllBut({"system", "messages"}, d, Put(rest, "messages", m))
  BY <1>3, <1>4 DEF AllBut
<1>6. AllBut({"system", "messages"}, d, d)
  BY DEF AllBut
<1>7. QED
  BY <1>1, <1>2, <1>4, <1>5, <1>6

\* Whatever of the logging object is a dictionary carries the key.
Logged(log, key) ==
  /\ DOMAIN log = {"params", "details", "present"}
  /\ log.params # None =>
       /\ "metadata" \in DOMAIN log.params
       /\ log.params.metadata # None =>
            KEY \in DOMAIN log.params.metadata /\ log.params.metadata[KEY] = key
  /\ log.present =>
       /\ log.details # None /\ "metadata" \in DOMAIN log.details
       /\ log.details.metadata # None =>
            KEY \in DOMAIN log.details.metadata /\ log.details.metadata[KEY] = key

LEMMA SyncRequestKeyGives ==
  ASSUME NoneIsNoDictionary, NEW log, DOMAIN log = {"params", "details", "present"}, NEW key
  PROVE  LET l == SyncRequestKey(log, key)
         IN /\ Logged(l, key)
            /\ l.params # None => /\ log.params # None
                                  /\ AllBut({"metadata"}, log.params, l.params)
<1> DEFINE start == IF log.details = None THEN <<>> ELSE log.details
           l == SyncRequestKey(log, key)
<1>1. start # None
  BY EmptyHasNothing
<1> HIDE DEF start
<1>2. /\ DOMAIN l = {"params", "details", "present"}
      /\ l.params = IF log.params = None THEN None ELSE NoteKey(log.params, key)
      /\ l.details = IF ~log.present THEN log.details ELSE NoteKey(start, key)
      /\ l.present = log.present
  BY DEF SyncRequestKey, start
<1> HIDE DEF l
<1>3. log.params # None =>
        LET q == NoteKey(log.params, key)
        IN /\ "metadata" \in DOMAIN q /\ AllBut({"metadata"}, log.params, q)
           /\ q.metadata # None => KEY \in DOMAIN q.metadata /\ q.metadata[KEY] = key
  BY NoteKeyGives
<1>4. LET q == NoteKey(start, key)
      IN /\ q # None /\ "metadata" \in DOMAIN q
         /\ q.metadata # None => KEY \in DOMAIN q.metadata /\ q.metadata[KEY] = key
  BY <1>1, NoteKeyGives
<1>5. Logged(l, key)
  BY <1>2, <1>3, <1>4 DEF Logged
<1>6. l.params # None => log.params # None /\ AllBut({"metadata"}, log.params, l.params)
  BY <1>2, <1>3
<1>7. QED
  BY <1>5, <1>6 DEF l

LEMMA LinkSessionKeepsKey ==
  ASSUME NoneIsNoDictionary, NEW p, p # None, NEW id, NEW key, "metadata" \in DOMAIN p,
         p.metadata # None => KEY \in DOMAIN p.metadata /\ p.metadata[KEY] = key
  PROVE  LET q == LinkSession(p, id)
         IN /\ q # None /\ "metadata" \in DOMAIN q
            /\ q.metadata # None => KEY \in DOMAIN q.metadata /\ q.metadata[KEY] = key
<1> DEFINE q == LinkSession(p, id)
<1>1. /\ q # None /\ "metadata" \in DOMAIN q
      /\ q.metadata # None => p.metadata # None /\ AllBut({"session_id"}, p.metadata, q.metadata)
  BY LinkSessionGives
<1> HIDE DEF q
<1>2. KEY \notin {"session_id"}
  BY DEF KEY
<1>3. q.metadata # None => KEY \in DOMAIN q.metadata /\ q.metadata[KEY] = key
  BY <1>1, <1>2 DEF AllBut
<1>4. QED
  BY <1>1, <1>3 DEF q

LEMMA SyncSessionGives ==
  ASSUME NoneIsNoDictionary, NEW log, NEW key, Logged(log, key), NEW id
  PROVE  LET l == SyncSession(log, id)
         IN /\ Logged(l, key)
            /\ l.params # None =>
                 /\ log.params # None
                 /\ "litellm_session_id" \notin DOMAIN log.params =>
                      /\ "litellm_session_id" \in DOMAIN l.params
                      /\ l.params.litellm_session_id = id
<1> DEFINE l == SyncSession(log, id)
<1>1. /\ DOMAIN l = {"params", "details", "present"}
      /\ l.params = IF log.params = None THEN None ELSE LinkSession(log.params, id)
      /\ log.present => l.details = LinkSession(log.details, id)
      /\ l.present = log.present
  BY DEF SyncSession, Logged
<1> HIDE DEF l
<1>2. log.params # None =>
        LET q == LinkSession(log.params, id)
        IN /\ q # None /\ "metadata" \in DOMAIN q
           /\ q.metadata # None => KEY \in DOMAIN q.metadata /\ q.metadata[KEY] = key
  <2>1. SUFFICES ASSUME log.params # None
                 PROVE  LET q == LinkSession(log.params, id)
                        IN /\ q # None /\ "metadata" \in DOMAIN q
                           /\ q.metadata # None =>
                                KEY \in DOMAIN q.metadata /\ q.metadata[KEY] = key
    OBVIOUS
  <2>2. /\ log.params # None /\ "metadata" \in DOMAIN log.params
        /\ log.params.metadata # None =>
             KEY \in DOMAIN log.params.metadata /\ log.params.metadata[KEY] = key
    BY <2>1 DEF Logged
  <2>3. QED
    BY <2>2, LinkSessionKeepsKey
<1>3. log.present =>
        LET q == LinkSession(log.details, id)
        IN /\ q # None /\ "metadata" \in DOMAIN q
           /\ q.metadata # None => KEY \in DOMAIN q.metadata /\ q.metadata[KEY] = key
  <2>1. SUFFICES ASSUME log.present
                 PROVE  LET q == LinkSession(log.details, id)
                        IN /\ q # None /\ "metadata" \in DOMAIN q
                           /\ q.metadata # None =>
                                KEY \in DOMAIN q.metadata /\ q.metadata[KEY] = key
    OBVIOUS
  <2>2. /\ log.details # None /\ "metadata" \in DOMAIN log.details
        /\ log.details.metadata # None =>
             KEY \in DOMAIN log.details.metadata /\ log.details.metadata[KEY] = key
    BY <2>1 DEF Logged
  <2>3. QED
    BY <2>2, LinkSessionKeepsKey
<1>4. Logged(l, key)
  BY <1>1, <1>2, <1>3 DEF Logged
<1>5. log.params # None /\ "litellm_session_id" \notin DOMAIN log.params =>
        LET q == LinkSession(log.params, id)
        IN "litellm_session_id" \in DOMAIN q /\ q.litellm_session_id = id
  BY LinkSessionGives
<1>6. l.params # None => log.params # None
  BY <1>1
<1>7. QED
  BY <1>1, <1>4, <1>5, <1>6 DEF l

\* What a provider's adaptation cannot touch.
LEMMA AdaptedGives ==
  ASSUME NoneIsNoDictionary, NEW d, d # None,
         NEW dropped \in SUBSET ((PASSTHROUGH_FIELDS \cap DOMAIN d) \ {"model"}),
         NEW reset \in SUBSET ((PASSTHROUGH_FIELDS \cap DOMAIN d) \ {"model"}), NEW model
  PROVE  LET held == [k \in DOMAIN d \ dropped |-> IF k \in reset THEN None ELSE d[k]]
             adapted == Put(held, "model", model)
         IN /\ adapted # None /\ AllBut(PASSTHROUGH_FIELDS, d, adapted)
            /\ "prompt_cache_key" \notin DOMAIN d => "prompt_cache_key" \notin DOMAIN adapted
<1> DEFINE held == [k \in DOMAIN d \ dropped |-> IF k \in reset THEN None ELSE d[k]]
           adapted == Put(held, "model", model)
<1>1. AllBut(PASSTHROUGH_FIELDS, d, held) /\ DOMAIN held \subseteq DOMAIN d
  BY DEF AllBut
<1> HIDE DEF held
<1>2. adapted # None /\ AllBut({"model"}, held, adapted)
  BY PutGives
<1> HIDE DEF adapted
<1>3. "model" \in PASSTHROUGH_FIELDS
  BY DEF PASSTHROUGH_FIELDS
<1>4. AllBut(PASSTHROUGH_FIELDS, d, adapted)
  BY <1>1, <1>2, <1>3 DEF AllBut
<1>5. "prompt_cache_key" \notin DOMAIN d => "prompt_cache_key" \notin DOMAIN adapted
  BY <1>1, <1>2 DEF AllBut
<1>6. QED
  BY <1>2, <1>4, <1>5 DEF held, adapted

-----------------------------------------------------------------------------
(* The preparation of a request: its invariant *)

AskedSession ==
  AffinityOf(Or(<<Get(request.data, "model"), "default">>), Get(request.data, "prompt_cache_key"))

FollowsSession ==
  /\ settings.affinity /\ Client(data) = "codex"
  /\ ExistingSession(request.data) = None /\ Get(request.data, "prompt_cache_key") # None

FieldsWanted ==
  (PASSTHROUGH_FIELDS \cap DOMAIN request.data)
    \ (IF KeyIsDropped THEN {"prompt_cache_key"} ELSE {})

\* What the hook has made of a request of the Responses route.
ResponsesPrepared ==
  LET body == Get(data, "extra_body")
  IN /\ IsResponses(data)
     /\ seen.hot.top = [k \in STABLE_KEYS \cap DOMAIN data |-> data[k]]
     /\ \A f \in FieldsWanted : f \in DOMAIN data /\ data[f] = request.data[f]
     /\ ShouldPassThrough(data) =>
          \A f \in FieldsWanted : body # None /\ f \in DOMAIN body /\ body[f] = request.data[f]
     /\ KeyIsDropped =>
          /\ "prompt_cache_key" \notin DOMAIN data
          /\ Get(Get(request.data, "extra_body"), "prompt_cache_key") = None =>
               Get(body, "prompt_cache_key") = None
     /\ FollowsSession =>
          /\ "litellm_session_id" \in DOMAIN data
          /\ data.litellm_session_id = AskedSession
          /\ seen.metadata.affinity = AskedSession.of
          /\ logging.params # None
             /\ "litellm_session_id" \notin DOMAIN request.logging.params
             => /\ "litellm_session_id" \in DOMAIN logging.params
                /\ logging.params.litellm_session_id = AskedSession

ToolsInv ==
  Get(request.data, "tools") # None =>
    /\ "tools" \in DOMAIN data
    /\ \A p \in request.data.tools : ~Annotates(p) => p \in data.tools

PreparationInv ==
  /\ request \in Requests
  /\ stage \in {"arriving", "received", "prepared", "deployed"}
  /\ data # None
  /\ ~Prepared => /\ logging = request.logging
                  /\ IsResponses(request.data) => data = request.data
  /\ ToolsInv
  /\ Prepared => /\ Keyed(data)
                 /\ {"key", "hot", "metadata"} \subseteq DOMAIN seen
                 /\ seen.key = data.metadata[KEY]
                 /\ Logged(logging, seen.key)
                 /\ IsResponses(request.data) => ResponsesPrepared
  /\ FieldsPassThrough
  /\ DroppedKeyIsGone

LEMMA PreparationInvInit == PreparationInit => PreparationInv
<1> SUFFICES ASSUME PreparationInit PROVE PreparationInv
  OBVIOUS
<1>1. request \in Requests /\ data = request.data /\ logging = request.logging
      /\ stage = "arriving"
  BY DEF PreparationInit
<1>2. data # None
  BY <1>1, PreparationAssumption
<1>3. ToolsInv
  BY <1>1 DEF ToolsInv, Get
<1>4. ~Prepared
  BY <1>1 DEF Prepared
<1>5. FieldsPassThrough /\ DroppedKeyIsGone
  BY <1>1 DEF FieldsPassThrough, DroppedKeyIsGone
<1>6. QED
  BY <1>1, <1>2, <1>3, <1>4, <1>5 DEF PreparationInv

LEMMA ArriveKeeps ==
  ASSUME NoneIsNoDictionary, PreparationInv, Arrive PROVE PreparationInv'
<1>1. /\ stage = "arriving" /\ stage' = "received"
      /\ data' = data \/ data' = SystemAsUser(data)
      /\ request' = request /\ logging' = logging
  BY DEF Arrive
<1>2. data # None
  BY DEF PreparationInv
<1>3. /\ data' # None /\ AllBut({"system", "messages"}, data, data')
      /\ Get(data, "messages") = None => data' = data
  <2>1. AllBut({"system", "messages"}, data, data)
    BY DEF AllBut
  <2>2. QED
    BY <1>1, <1>2, <2>1, SystemAsUserGives
<1>4. ~Prepared /\ ~Prepared'
  BY <1>1 DEF Prepared
<1>5. IsResponses(request.data) => data' = request'.data
  BY <1>1, <1>3, <1>4 DEF PreparationInv, IsResponses
<1>6. ToolsInv'
  BY <1>1, <1>3 DEF PreparationInv, ToolsInv, AllBut
<1>7. FieldsPassThrough' /\ DroppedKeyIsGone'
  BY <1>1 DEF FieldsPassThrough, DroppedKeyIsGone
<1>8. QED
  BY <1>1, <1>3, <1>4, <1>5, <1>6, <1>7 DEF PreparationInv

LEMMA DeployKeeps ==
  ASSUME NoneIsNoDictionary, PreparationInv, Deploy PROVE PreparationInv'
<1>1. /\ stage \in {"prepared", "deployed"} /\ stage' = "deployed"
      /\ UNCHANGED <<settings, request, data, logging>>
  BY DEF Deploy
<1>2. Prepared /\ Prepared'
  BY <1>1 DEF Prepared
<1>3. PICK dropped \in SUBSET ((PASSTHROUGH_FIELDS \cap DOMAIN data) \ {"model"}),
           reset \in SUBSET ((PASSTHROUGH_FIELDS \cap DOMAIN data) \ {"model"}) :
        LET held == [k \in DOMAIN data \ dropped |-> IF k \in reset THEN None ELSE data[k]]
            adapted == Put(held, "model", <<"chatgpt", Model>>)
        IN /\ sent' = Effective(adapted)
           /\ seen' = IF IsResponses(adapted)
                      THEN Put(seen, "deployment", DeploymentFingerprint(adapted)) ELSE seen
  BY DEF Deploy
<1> DEFINE held == [k \in DOMAIN data \ dropped |-> IF k \in reset THEN None ELSE data[k]]
           adapted == Put(held, "model", <<"chatgpt", Model>>)
<1>4. /\ data # None /\ Keyed(data) /\ seen.key = data.metadata[KEY]
      /\ {"key", "hot", "metadata"} \subseteq DOMAIN seen
  BY <1>2 DEF PreparationInv
<1>5. /\ adapted # None /\ AllBut(PASSTHROUGH_FIELDS, data, adapted)
      /\ "prompt_cache_key" \notin DOMAIN data => "prompt_cache_key" \notin DOMAIN adapted
  BY <1>4, AdaptedGives
<1>6. /\ sent' = Effective(adapted)
      /\ seen' = IF IsResponses(adapted)
                 THEN Put(seen, "deployment", DeploymentFingerprint(adapted)) ELSE seen
  BY <1>3
<1> HIDE DEF adapted, held
<1>7. \A k \in {"metadata", "extra_body", "input", "messages"} : k \notin PASSTHROUGH_FIELDS
  BY DEF PASSTHROUGH_FIELDS
<1>8. /\ Get(adapted, "extra_body") = Get(data, "extra_body")
      /\ IsResponses(adapted) = IsResponses(data)
  <2>1. Alike(PASSTHROUGH_FIELDS, data, adapted)
    BY <1>4, <1>5, AllButIsAlike
  <2>2. QED
    BY <1>7, <2>1 DEF Alike, IsResponses
<1>9. Keyed(adapted) /\ adapted.metadata = data.metadata
  BY <1>4, <1>5, <1>7 DEF Keyed, AllBut
<1>10. /\ AllBut({"deployment"}, seen, seen')
       /\ IsResponses(data) =>
            /\ "deployment" \in DOMAIN seen'
            /\ seen'["deployment"] = DeploymentFingerprint(adapted)
  <2>1. AllBut({"deployment"}, seen, seen)
    BY DEF AllBut
  <2>2. QED
    BY <1>6, <1>8, <2>1, PutGives
<1>11. /\ {"key", "hot", "metadata"} \subseteq DOMAIN seen'
       /\ seen'.key = seen.key /\ seen'.hot = seen.hot /\ seen'.metadata = seen.metadata
  BY <1>4, <1>10 DEF AllBut
<1>12. ToolsInv' /\ (Prepared => Keyed(data)') /\ (KeyIsDropped' <=> KeyIsDropped)
       /\ (ShouldPassThrough(data)' <=> ShouldPassThrough(data))
       /\ FieldsWanted' = FieldsWanted
  BY <1>1, <1>4 DEF PreparationInv, ToolsInv, KeyIsDropped, ShouldPassThrough, FieldsWanted
<1>13. IsResponses(request.data) => ResponsesPrepared
  BY <1>2 DEF PreparationInv
<1>14. ResponsesPrepared => ResponsesPrepared'
  BY <1>1, <1>11, <1>12 DEF ResponsesPrepared, FollowsSession, AskedSession, ExistingSession
<1> DEFINE extra == IF Get(data, "extra_body") = None THEN <<>> ELSE data.extra_body
           body == Get(data, "extra_body")
<1>15. sent' = [k \in DOMAIN adapted \cup DOMAIN extra |->
                  IF k \in DOMAIN extra THEN extra[k] ELSE adapted[k]]
  <2>1. body # None => adapted.extra_body = data.extra_body
    BY <1>5, <1>7, <1>8 DEF AllBut, Get
  <2>2. QED
    BY <1>6, <1>8, <2>1 DEF Effective
<1>16. body # None => extra = body
  BY DEF Get
<1>17. ASSUME IsResponses(request.data), ShouldPassThrough(data), NEW f \in FieldsWanted
       PROVE  sent'[f] = request.data[f] /\ seen'.deployment.hot.top[f] = seen'.hot.top[f]
  <2>1. /\ f \in DOMAIN data /\ data[f] = request.data[f] /\ IsResponses(data)
        /\ body # None /\ f \in DOMAIN body /\ body[f] = request.data[f]
        /\ seen.hot.top = [k \in STABLE_KEYS \cap DOMAIN data |-> data[k]]
    BY <1>13, <1>17 DEF ResponsesPrepared
  <2>2. f \in STABLE_KEYS
    BY <1>17 DEF FieldsWanted, STABLE_KEYS
  <2> HIDE DEF body
  <2>3. f \in DOMAIN sent' /\ sent'[f] = request.data[f]
    BY <1>15, <1>16, <2>1
  <2>4. seen'.deployment.hot.top = [k \in STABLE_KEYS \cap DOMAIN sent' |-> sent'[k]]
    BY <1>6, <1>10, <2>1 DEF DeploymentFingerprint, HotZone
  <2>5. seen'.deployment.hot.top[f] = request.data[f]
    BY <2>2, <2>3, <2>4
  <2>6. seen'.hot.top[f] = request.data[f]
    BY <1>11, <2>1, <2>2
  <2>7. QED
    BY <2>3, <2>5, <2>6
<1>18. FieldsPassThrough'
  BY <1>1, <1>12, <1>17 DEF FieldsPassThrough, FieldsWanted
<1>19. ASSUME IsResponses(request.data)
       PROVE  /\ seen'.deployment.key = seen'.key
              /\ KeyIsDropped
                 /\ Get(Get(request.data, "extra_body"), "prompt_cache_key") = None =>
                   Get(sent', "prompt_cache_key") = None
  <2>1. IsResponses(data)
    BY <1>13, <1>19 DEF ResponsesPrepared
  <2>2. Get(MetadataOf(adapted), KEY) = data.metadata[KEY]
    BY <1>9, MetadataOfKeyed DEF Get, Keyed
  <2>3. seen'.deployment.key = seen'.key
    BY <1>4, <1>10, <1>11, <2>1, <2>2 DEF DeploymentFingerprint
  <2>4. ASSUME KeyIsDropped, Get(Get(request.data, "extra_body"), "prompt_cache_key") = None
        PROVE  Get(sent', "prompt_cache_key") = None
    <3>1. "prompt_cache_key" \notin DOMAIN data /\ Get(body, "prompt_cache_key") = None
      BY <1>13, <1>19, <2>4 DEF ResponsesPrepared
    <3>2. "prompt_cache_key" \notin DOMAIN adapted
      BY <1>5, <3>1
    <3>3. Get(extra, "prompt_cache_key") = None
      <4>1. CASE body = None
        BY <4>1, EmptyHasNothing
      <4>2. CASE body # None
        BY <1>16, <3>1, <4>2
      <4>3. QED
        BY <4>1, <4>2
    <3>4. extra # None
      <4>1. CASE body = None
        BY <4>1, EmptyHasNothing
      <4>2. CASE body # None
        BY <1>16, <4>2
      <4>3. QED
        BY <4>1, <4>2
    <3> HIDE DEF extra
    <3>5. QED
      BY <1>15, <3>2, <3>3, <3>4 DEF Get
  <2>5. QED
    BY <2>3, <2>4
<1>20. DroppedKeyIsGone'
  BY <1>1, <1>12, <1>19 DEF DroppedKeyIsGone
<1>21. QED
  <2>1. data' # None /\ (Prepared' => Keyed(data')) /\ Logged(logging', seen'.key)
        /\ seen'.key = data'.metadata[KEY] /\ request' \in Requests
    BY <1>1, <1>2, <1>4, <1>11 DEF PreparationInv
  <2>2. IsResponses(request'.data) => ResponsesPrepared'
    BY <1>1, <1>13, <1>14
  <2>3. QED
    BY <1>1, <1>2, <1>11, <1>12, <1>18, <1>20, <2>1, <2>2 DEF PreparationInv


\* The first of the values that may be there wins.
LEMMA OrTakesFirst ==
  ASSUME NEW values, DOMAIN values \subseteq Nat \ {0}, 1 \in DOMAIN values, values[1] # None
  PROVE  Or(values) = values[1]
<1> DEFINE there == {i \in DOMAIN values : values[i] # None}
<1>1. 1 \in there /\ \A i \in there : i \in Nat /\ 1 <= i
  OBVIOUS
<1> HIDE DEF there
<1>2. \A i \in there : (\A j \in there : i <= j) => i = 1
  BY <1>1
<1>3. (CHOOSE i \in there : \A j \in there : i <= j) = 1
  BY <1>1, <1>2
<1>4. QED
  BY <1>1, <1>3 DEF Or, there

LEMMA OrOfTwo ==
  ASSUME NEW x, NEW y
  PROVE  Or(<<x, y>>) = IF x = None THEN y ELSE x
<1>1. CASE x # None
  <2> DEFINE v == <<x, y>>
  <2>1. DOMAIN v \subseteq Nat \ {0} /\ 1 \in DOMAIN v /\ v[1] = x
    OBVIOUS
  <2> HIDE DEF v
  <2>2. Or(v) = x
    BY <1>1, <2>1, OrTakesFirst
  <2>3. QED
    BY <1>1, <2>2 DEF v
<1>2. CASE x = None
  <2> DEFINE v == <<x, y>>
             there == {i \in DOMAIN v : v[i] # None}
  <2>1. DOMAIN v = 1 .. 2 /\ v[1] = None /\ v[2] = y
    BY <1>2
  <2> HIDE DEF v
  <2>2. CASE y = None
    <3>1. there = {}
      BY <2>1, <2>2
    <3>2. Or(v) = None
      BY <3>1 DEF Or
    <3>3. QED
      BY <1>2, <2>2, <3>2 DEF v
  <2>3. CASE y # None
    <3>1. there = {2}
      BY <2>1, <2>3
    <3> HIDE DEF there
    <3>2. (CHOOSE i \in there : \A j \in there : i <= j) = 2
      BY <3>1
    <3>3. Or(v) = v[2]
      BY <3>1, <3>2 DEF Or, there
    <3>4. QED
      BY <1>2, <2>1, <3>3 DEF v
  <2>4. QED
    BY <2>2, <2>3
<1>3. QED
  BY <1>1, <1>2

LEMMA SessionExists ==
  ASSUME NEW d, Get(d, "litellm_session_id") # None
  PROVE  ExistingSession(d) # None
<1> DEFINE p == Get(d, "litellm_params")
           v == <<Get(d, "litellm_session_id"), Get(d, "session_id"),
                  Get(Get(d, "metadata"), "session_id"), Get(p, "litellm_session_id"),
                  Get(p, "session_id"), Get(Get(p, "metadata"), "session_id")>>
<1>1. /\ DOMAIN v \subseteq Nat \ {0} /\ 1 \in DOMAIN v
      /\ v[1] = Get(d, "litellm_session_id")
  OBVIOUS
<1>2. ExistingSession(d) = Or(v)
  BY DEF ExistingSession
<1> HIDE DEF v
<1>3. QED
  BY <1>1, <1>2, OrTakesFirst

\* A key that is added tells nothing of a session.
LEMMA SessionIsSame ==
  ASSUME NEW d, NEW e, Alike({"metadata"}, d, e),
         Alike({KEY}, Get(d, "metadata"), Get(e, "metadata"))
  PROVE  ExistingSession(e) = ExistingSession(d)
<1>1. "session_id" \notin {KEY}
  BY DEF KEY
<1>2. /\ Get(e, "litellm_session_id") = Get(d, "litellm_session_id")
      /\ Get(e, "session_id") = Get(d, "session_id")
      /\ Get(e, "litellm_params") = Get(d, "litellm_params")
      /\ Get(Get(e, "metadata"), "session_id") = Get(Get(d, "metadata"), "session_id")
  BY <1>1 DEF Alike
<1>3. QED
  BY <1>2 DEF ExistingSession

LEMMA HookKeeps ==
  ASSUME NoneIsNoDictionary, PreparationInv, PreCallHook PROVE PreparationInv'
<1> DEFINE keyed == EnsureRequestKey(data)
           moved == MoveSystem(keyed)
           key == keyed.metadata[KEY]
           log == SyncRequestKey(logging, key)
           responses == Get(moved, "input") # None /\ Get(moved, "messages") \in {None, <<>>}
           id == AffinityOf(Model, moved.prompt_cache_key)
<1>1. PICK saves \in BOOLEAN :
        data' = IF responses THEN PrepareResponses(moved, Model, saves) ELSE moved
  BY DEF PreCallHook
<1>2. /\ stage \in {"received", "prepared"} /\ stage' = "prepared"
      /\ logging' = IF responses /\ HasAffinity(moved) THEN SyncSession(log, id) ELSE log
      /\ seen' = [key |-> key, hot |-> HotZone(data'), metadata |-> RequestMetadata(data')]
      /\ UNCHANGED <<settings, request, sent, attempts>>
  BY DEF PreCallHook
<1>3. data # None /\ request \in Requests
  BY DEF PreparationInv
<1>4. /\ Keyed(keyed) /\ AllBut({"metadata"}, data, keyed)
      /\ Alike({KEY}, Get(data, "metadata"), keyed.metadata)
      /\ Keyed(data) => SameClient(data, keyed)
  BY EnsureRequestKeyGives, EnsuredAgain
<1> HIDE DEF keyed
<1>5. /\ moved # None /\ AllBut({"system", "messages"}, keyed, moved)
      /\ Get(keyed, "messages") = None => moved = keyed
  BY <1>4, MoveSystemGives DEF Keyed
<1> HIDE DEF moved
<1>6. SameClient(keyed, moved) /\ moved.metadata = keyed.metadata /\ Keyed(moved)
  BY <1>4, <1>5, SameClientElsewhere DEF SameClient
<1> HIDE DEF key
<1>7. DOMAIN logging = {"params", "details", "present"}
  BY PreparationAssumption DEF PreparationInv, Logged, Prepared
<1>8. /\ Logged(log, key)
      /\ log.params # None => logging.params # None /\ AllBut({"metadata"}, logging.params, log.params)
  BY <1>7, SyncRequestKeyGives
<1> HIDE DEF log, id
<1>9. /\ Logged(SyncSession(log, id), key)
      /\ SyncSession(log, id).params # None =>
           /\ log.params # None
           /\ "litellm_session_id" \notin DOMAIN log.params =>
                /\ "litellm_session_id" \in DOMAIN SyncSession(log, id).params
                /\ SyncSession(log, id).params.litellm_session_id = id
  BY <1>8, SyncSessionGives
<1>10. Logged(logging', key)
  BY <1>2, <1>8, <1>9
<1> DEFINE others == {"prompt_cache_key", "extra_headers", "extra_body", "tools"}
           body == Get(data', "extra_body")
           fields == PASSTHROUGH_FIELDS \cap DOMAIN data'
<1>11. ASSUME responses
       PROVE  /\ SameClient(moved, data') /\ data'.metadata[KEY] = moved.metadata[KEY]
              /\ AllBut(others \cup {"litellm_session_id", "metadata", "litellm_params"},
                        moved, data')
              /\ HasAffinity(moved) =>
                   "litellm_session_id" \in DOMAIN data' /\ data'.litellm_session_id = id
              /\ ~HasAffinity(moved) => AllBut(others, moved, data')
              /\ IF settings.dropKey /\ Client(moved) = "codex"
                 THEN "prompt_cache_key" \notin DOMAIN data'
                 ELSE /\ "prompt_cache_key" \in DOMAIN data' <=> "prompt_cache_key" \in DOMAIN moved
                      /\ "prompt_cache_key" \in DOMAIN moved =>
                           data'.prompt_cache_key = moved.prompt_cache_key
              /\ ShouldPassThrough(moved) =>
                   \A f \in fields : body # None /\ f \in DOMAIN body /\ body[f] = data'[f]
              /\ \A f : f \notin fields => Get(body, f) = Get(Get(moved, "extra_body"), f)
              /\ "tools" \in DOMAIN moved =>
                   /\ "tools" \in DOMAIN data'
                   /\ \A p \in moved.tools : ~Annotates(p) => p \in data'.tools
  <2>1. data' = PrepareResponses(moved, Model, saves)
    BY <1>1, <1>11
  <2>2. QED
    BY <1>6, <2>1, PreparedGives DEF id
<1>12. ~responses => data' = moved
  BY <1>1
<1> HIDE DEF responses, others, body, fields
<1>13. Keyed(data') /\ data'.metadata[KEY] = key /\ SameClient(keyed, data')
  <2>1. CASE responses
    BY <1>6, <1>11, <2>1, SameClientIsTransitive DEF SameClient, key
  <2>2. CASE ~responses
    BY <1>6, <1>12, <2>2 DEF key
  <2>3. QED
    BY <2>1, <2>2
<1>14. ToolsInv'
  <2>1. SUFFICES ASSUME Get(request.data, "tools") # None
                 PROVE  /\ "tools" \in DOMAIN data'
                        /\ \A p \in request.data.tools : ~Annotates(p) => p \in data'.tools
    BY <1>2 DEF ToolsInv
  <2>2. /\ "tools" \in DOMAIN data
        /\ \A p \in request.data.tools : ~Annotates(p) => p \in data.tools
    BY <2>1 DEF PreparationInv, ToolsInv
  <2>3. "tools" \in DOMAIN moved /\ moved["tools"] = data["tools"]
    BY <1>4, <1>5, <2>2 DEF AllBut
  <2>4. QED
    BY <1>11, <1>12, <2>2, <2>3
<1>15. Prepared'
  BY <1>2 DEF Prepared
<1>16. FieldsPassThrough' /\ DroppedKeyIsGone'
  BY <1>2 DEF FieldsPassThrough, DroppedKeyIsGone
<1>17. ASSUME IsResponses(request.data) PROVE ResponsesPrepared'
  <2>1. IsResponses(data)
    BY <1>17 DEF PreparationInv, ResponsesPrepared
  <2>2. Alike({"metadata"}, data, keyed)
    BY <1>3, <1>4, AllButIsAlike DEF Keyed
  <2>3. moved = keyed /\ IsResponses(keyed) /\ responses
    <3>1. Get(keyed, "messages") = None /\ Get(keyed, "input") # None
      BY <2>1, <2>2 DEF Alike, IsResponses
    <3>2. QED
      BY <1>5, <3>1 DEF IsResponses, responses
  <2>4. data' # None /\ Alike(others \cup {"litellm_session_id", "metadata", "litellm_params"},
                              moved, data')
    BY <1>4, <1>11, <1>13, <2>3, AllButIsAlike DEF Keyed
  <2>5. IsResponses(data')
    BY <2>3, <2>4 DEF Alike, IsResponses, others
  <2>6. seen'.hot.top = [k \in STABLE_KEYS \cap DOMAIN data' |-> data'[k]]
    BY <1>2 DEF HotZone
  <2>7. /\ Client(data') = Client(keyed) /\ ShouldPassThrough(data') = ShouldPassThrough(keyed)
        /\ Keyed(data) => /\ Client(data') = Client(data)
                          /\ ShouldPassThrough(data') = ShouldPassThrough(data)
    BY <1>4, <1>13, ClientIsSame
  <2>8. /\ KeyIsDropped' <=> settings.dropKey /\ Client(data') = "codex"
        /\ ShouldPassThrough(data)' <=> ShouldPassThrough(data')
    BY <1>2 DEF KeyIsDropped, ShouldPassThrough
  <2>9. Prepared => ResponsesPrepared /\ Keyed(data) /\ (KeyIsDropped' <=> KeyIsDropped)
    BY <1>2, <1>17, <2>7, <2>8 DEF PreparationInv, KeyIsDropped
  <2>10. ~Prepared => data = request.data /\ logging = request.logging
    BY <1>17 DEF PreparationInv
  <2>11. \A f \in FieldsWanted' : f \in DOMAIN data /\ data[f] = request.data[f]
    <3>1. Prepared => FieldsWanted' = FieldsWanted
      BY <1>2, <2>9 DEF FieldsWanted
    <3>2. FieldsWanted' \subseteq DOMAIN request.data
      BY <1>2 DEF FieldsWanted
    <3>3. QED
      BY <2>9, <2>10, <3>1, <3>2 DEF ResponsesPrepared
  <2>12. \A f \in FieldsWanted' : f \in DOMAIN data' /\ data'[f] = request.data[f]
    <3>1. TAKE f \in FieldsWanted'
    <3>2. f \in PASSTHROUGH_FIELDS /\ (f = "prompt_cache_key" => ~KeyIsDropped')
      BY <1>2 DEF FieldsWanted
    <3>3. f \notin {"metadata", "extra_headers", "extra_body", "tools", "litellm_session_id",
                    "litellm_params"}
      BY <3>2 DEF PASSTHROUGH_FIELDS
    <3>4. f \in DOMAIN keyed /\ keyed[f] = request.data[f]
      BY <1>4, <2>11, <3>3 DEF AllBut
    <3>5. CASE f = "prompt_cache_key"
      BY <1>11, <2>3, <2>7, <2>8, <3>2, <3>4, <3>5
    <3>6. CASE f # "prompt_cache_key"
      <4>1. f \notin others \cup {"litellm_session_id", "metadata", "litellm_params"}
        BY <3>3, <3>6 DEF others
      <4>2. QED
        BY <1>11, <2>3, <3>4, <4>1 DEF AllBut
    <3>7. QED
      BY <3>5, <3>6
  <2>13. ASSUME ShouldPassThrough(data)', NEW f \in FieldsWanted'
         PROVE  body # None /\ f \in DOMAIN body /\ body[f] = request.data[f]
    <3>1. f \in DOMAIN data' /\ data'[f] = request.data[f] /\ f \in PASSTHROUGH_FIELDS
      BY <1>2, <2>12 DEF FieldsWanted
    <3>2. f \in fields
      BY <3>1 DEF fields
    <3>3. QED
      BY <1>11, <2>3, <2>7, <2>8, <2>13, <3>1, <3>2
  <2>14. ASSUME KeyIsDropped'
         PROVE  /\ "prompt_cache_key" \notin DOMAIN data'
                /\ Get(Get(request.data, "extra_body"), "prompt_cache_key") = None =>
                     Get(body, "prompt_cache_key") = None
    <3>1. "prompt_cache_key" \notin DOMAIN data'
      BY <1>11, <2>3, <2>7, <2>8, <2>14
    <3>2. "prompt_cache_key" \notin fields
      BY <3>1 DEF fields
    <3>3. Get(body, "prompt_cache_key") = Get(Get(keyed, "extra_body"), "prompt_cache_key")
      BY <1>11, <2>3, <3>2
    <3>4. Get(keyed, "extra_body") = Get(data, "extra_body")
      BY <2>2 DEF Alike
    <3>5. QED
      BY <2>9, <2>10, <2>14, <3>1, <3>3, <3>4 DEF ResponsesPrepared
  <2>15. ASSUME FollowsSession'
         PROVE  /\ "litellm_session_id" \in DOMAIN data' /\ data'.litellm_session_id = AskedSession
                /\ logging'.params # None
                   /\ "litellm_session_id" \notin DOMAIN request.logging.params
                   => /\ "litellm_session_id" \in DOMAIN logging'.params
                      /\ logging'.params.litellm_session_id = AskedSession
    <3>1. /\ settings.affinity /\ Client(data') = "codex"
          /\ ExistingSession(request.data) = None
          /\ Get(request.data, "prompt_cache_key") # None
      BY <1>2, <2>15 DEF FollowsSession
    <3>2. AskedSession # None
      BY SessionIsNotNone DEF AskedSession
    <3>3. CASE Prepared
      <4>1. FollowsSession
        BY <2>7, <2>9, <3>1, <3>3 DEF FollowsSession
      <4>2. /\ "litellm_session_id" \in DOMAIN data /\ data.litellm_session_id = AskedSession
            /\ logging.params # None
               /\ "litellm_session_id" \notin DOMAIN request.logging.params
               => /\ "litellm_session_id" \in DOMAIN logging.params
                  /\ logging.params.litellm_session_id = AskedSession
        BY <2>9, <3>3, <4>1 DEF ResponsesPrepared
      <4>3. "litellm_session_id" \in DOMAIN keyed /\ keyed["litellm_session_id"] = AskedSession
        BY <1>4, <4>2 DEF AllBut
      <4>4. ~HasAffinity(keyed)
        BY <1>4, <3>2, <4>3, SessionExists DEF Get, HasAffinity, Keyed
      <4>5. "litellm_session_id" \in DOMAIN data' /\ data'["litellm_session_id"] = AskedSession
        BY <1>11, <2>3, <4>3, <4>4 DEF AllBut, others
      <4>6. logging' = log
        BY <1>2, <2>3, <4>4
      <4>7. QED
        BY <1>8, <4>2, <4>5, <4>6 DEF AllBut
    <3>4. CASE ~Prepared
      <4>1. data = request.data /\ logging = request.logging
        BY <2>10, <3>4
      <4>2. Get(keyed, "metadata") = keyed.metadata
        BY <1>4, MetadataOfKeyed
      <4>3. ExistingSession(keyed) = None
        BY <1>4, <2>2, <3>1, <4>1, <4>2, SessionIsSame
      <4>4. Get(keyed, "prompt_cache_key") = Get(request.data, "prompt_cache_key")
        BY <2>2, <4>1 DEF Alike
      <4>5. HasAffinity(keyed)
        BY <2>3, <2>7, <3>1, <4>3, <4>4 DEF HasAffinity
      <4>6. keyed.prompt_cache_key = Get(request.data, "prompt_cache_key")
        BY <3>1, <4>4 DEF Get
      <4>7. Model = Or(<<Get(request.data, "model"), "default">>)
        BY <4>1, OrOfTwo DEF Model, Get
      <4>8. id = AskedSession
        BY <2>3, <4>6, <4>7 DEF id, AskedSession
      <4>9. logging' = SyncSession(log, id)
        BY <1>2, <2>3, <4>5
      <4>10. logging'.params # None
             /\ "litellm_session_id" \notin DOMAIN request.logging.params
             => /\ "litellm_session_id" \in DOMAIN logging'.params
                /\ logging'.params.litellm_session_id = AskedSession
        BY <1>8, <1>9, <4>1, <4>8, <4>9 DEF AllBut
      <4>11. QED
        BY <1>11, <2>3, <4>5, <4>8, <4>10
    <3>5. QED
      BY <3>3, <3>4
  <2>16. FollowsSession' => seen'.metadata.affinity = AskedSession.of
    <3>1. SUFFICES ASSUME FollowsSession' PROVE seen'.metadata.affinity = AskedSession.of
      OBVIOUS
    <3>2. Get(data', "litellm_session_id") = AskedSession
      BY <2>4, <2>15, <3>1 DEF Get
    <3>3. AskedSession # None /\ AskedSession.prefix = "codex-cache"
      BY SessionIsNotNone DEF AskedSession, AffinityOf
    <3>4. seen'.metadata = RequestMetadata(data')
      BY <1>2
    <3>5. QED
      BY <3>2, <3>3, <3>4 DEF RequestMetadata
  <2>17. AskedSession' = AskedSession
    BY <1>2 DEF AskedSession
  <2>18. QED
    BY <1>2, <2>5, <2>6, <2>12, <2>13, <2>14, <2>15, <2>16, <2>17 DEF ResponsesPrepared, body
<1>18. QED
  <2>1. {"key", "hot", "metadata"} \subseteq DOMAIN seen' /\ seen'.key = key
    BY <1>2
  <2>2. data' # None /\ Keyed(data)' /\ Logged(logging, seen.key)' /\ request' \in Requests
        /\ seen'.key = data'.metadata[KEY]
    BY <1>2, <1>3, <1>10, <1>13, <2>1 DEF Keyed
  <2>3. IsResponses(request.data)' => ResponsesPrepared'
    BY <1>2, <1>17
  <2>4. QED
    BY <1>2, <1>14, <1>15, <1>16, <2>1, <2>2, <2>3 DEF PreparationInv

\* No step of the middleware, of the hooks or of LiteLLM breaks the invariant.
LEMMA PreparationInvStep ==
  NoneIsNoDictionary /\ PreparationInv /\ [PreparationNext]_preparation => PreparationInv'
<1> SUFFICES ASSUME NoneIsNoDictionary, PreparationInv, [PreparationNext]_preparation
             PROVE  PreparationInv'
  OBVIOUS
<1>1. CASE Arrive
  BY <1>1, ArriveKeeps
<1>2. CASE PreCallHook
  BY <1>2, HookKeeps
<1>3. CASE Deploy
  BY <1>3, DeployKeeps
<1>4. CASE UNCHANGED preparation
  <2>1. UNCHANGED <<settings, request, data, logging, stage, seen, sent>>
    BY <1>4 DEF preparation
  <2>2. QED
    BY <2>1 DEF PreparationInv, Prepared, ToolsInv, Keyed, Logged, ResponsesPrepared,
       FieldsWanted, KeyIsDropped, FollowsSession, AskedSession, FieldsPassThrough,
       DroppedKeyIsGone, ShouldPassThrough
<1>5. QED
  BY <1>1, <1>2, <1>3, <1>4 DEF PreparationNext

LEMMA PreparationInvHolds ==
  ASSUME NoneIsNoDictionary PROVE PreparationSpec => []PreparationInv
<1>1. PreparationInit => PreparationInv
  BY PreparationInvInit
<1>2. PreparationInv /\ [PreparationNext]_preparation => PreparationInv'
  BY PreparationInvStep
<1>3. QED
  BY <1>1, <1>2, PTL DEF PreparationSpec

LEMMA PreparationInvSays ==
  ASSUME NoneIsNoDictionary, PreparationInv
  PROVE  /\ OneRequestKey /\ SessionFollowsCacheKey /\ ToolsKeepProperties
         /\ FieldsPassThrough /\ DroppedKeyIsGone
<1>1. OneRequestKey
  BY DEF PreparationInv, OneRequestKey, Logged
<1>2. SessionFollowsCacheKey
  BY DEF PreparationInv, SessionFollowsCacheKey, ResponsesPrepared, FollowsSession, AskedSession
<1>3. ToolsKeepProperties
  BY DEF PreparationInv, ToolsKeepProperties, ToolsInv
<1>4. QED
  BY <1>1, <1>2, <1>3 DEF PreparationInv

-----------------------------------------------------------------------------
(* The preparation of a request: what it says *)

\* A set of naturals has a least element.
LEMMA LeastOf ==
  ASSUME NEW S, S \subseteq Nat, S # {}
  PROVE  \E i \in S : \A j \in S : i <= j
<1> DEFINE Less == {p \in Nat \X Nat : p[1] < p[2]}
<1>1. IsWellFoundedOn(Less, Nat)
  BY NatLessThanWellFounded DEF OpToRel
<1>2. \A j, k \in Nat : j < k => <<j, k>> \in Less
  OBVIOUS
<1> HIDE DEF Less
<1>3. PICK i \in S : \A j \in S : <<j, i>> \notin Less
  BY <1>1, WFMin
<1>4. \A j \in S : j \in Nat /\ i \in Nat /\ ~(j < i)
  BY <1>2, <1>3
<1>5. \A j \in S : i <= j
  BY <1>4
<1>6. QED
  BY <1>5

\* What holds at the start and is passed on holds up to the end.
LEMMA PassedOn ==
  ASSUME NEW n \in Nat, NEW S, 0 \in S, \A i \in 0..(n - 1) : i \in S => i + 1 \in S
  PROVE  \A i \in 0..n : i \in S
<1> DEFINE Bad == {i \in 0..n : i \notin S}
<1> SUFFICES ASSUME Bad # {} PROVE FALSE
  OBVIOUS
<1>1. PICK i \in Bad : \A j \in Bad : i <= j
  <2>1. Bad \subseteq Nat
    OBVIOUS
  <2> HIDE DEF Bad
  <2>2. QED
    BY <2>1, LeastOf
<1>2. i \in 0..n /\ i \notin S /\ i # 0
  OBVIOUS
<1>3. i - 1 \in 0..(n - 1) /\ i - 1 \in 0..n /\ ~(i <= i - 1) /\ (i - 1) + 1 = i
  BY <1>2
<1>4. i - 1 \in S
  BY <1>1, <1>3
<1>5. QED
  BY <1>2, <1>3, <1>4

LEMMA FunctionIsSeq ==
  ASSUME NEW T, NEW n \in Nat, NEW f \in [1..n -> T] PROVE f \in Seq(T)
<1>1. [i \in 1..n |-> f[i]] \in Seq(T)
  OBVIOUS
<1>2. QED
  BY <1>1

\* One sequence behind the other.
Joins(s, t, u) ==
  /\ Len(s) \in Nat /\ Len(t) \in Nat /\ Len(u) = Len(s) + Len(t)
  /\ DOMAIN s = 1..Len(s) /\ DOMAIN t = 1..Len(t) /\ DOMAIN u = 1..(Len(s) + Len(t))
  /\ u \in Seq(Range(u))
  /\ \A i \in 1..(Len(s) + Len(t)) : u[i] = IF i <= Len(s) THEN s[i] ELSE t[i - Len(s)]

LEMMA Joined ==
  ASSUME NEW s, s \in Seq(Range(s)), NEW t, t \in Seq(Range(t))
  PROVE  Joins(s, t, s \o t)
<1> DEFINE S == Range(s) \cup Range(t)
           u == s \o t
<1>1. t \in Seq(S) /\ s \in Seq(S)
  <2>1. Range(t) \subseteq S /\ Range(s) \subseteq S
    OBVIOUS
  <2> HIDE DEF S
  <2>2. QED
    BY <2>1, SeqMonotonic
<1>2. Len(t) \in Nat /\ Len(s) \in Nat /\ DOMAIN s = 1..Len(s) /\ DOMAIN t = 1..Len(t)
  OBVIOUS
<1> HIDE DEF S
<1>3. /\ s \o t \in Seq(S) /\ Len(s \o t) = Len(s) + Len(t)
      /\ \A i \in 1..(Len(s) + Len(t)) :
           (s \o t)[i] = IF i <= Len(s) THEN s[i] ELSE t[i - Len(s)]
  BY <1>1, ConcatProperties
<1>4. u = s \o t
  OBVIOUS
<1> HIDE DEF u
<1>5. u \in [1..Len(u) -> S]
  BY <1>3, <1>4, LenProperties
<1>6. u \in [1..Len(u) -> Range(u)] /\ Len(u) \in Nat
  <2>1. u = [i \in 1..Len(u) |-> u[i]] /\ DOMAIN u = 1..Len(u)
    BY <1>5
  <2>2. \A i \in 1..Len(u) : u[i] \in Range(u)
    BY <2>1 DEF Range
  <2>3. QED
    BY <1>2, <1>3, <1>4, <2>1, <2>2
<1>7. u \in Seq(Range(u))
  BY <1>6, FunctionIsSeq
<1>8. Joins(s, t, u)
  BY <1>2, <1>3, <1>4, <1>5, <1>7 DEF Joins
<1>9. QED
  BY <1>8 DEF u

\* A sequence with one element in front.
InFront(x, M, N) ==
  /\ DOMAIN N = 1..(Len(M) + 1) /\ N[1] = x /\ N \in Seq(Range(N))
  /\ \A m \in DOMAIN M : N[m + 1] = M[m] /\ m + 1 \in DOMAIN N
  /\ \A n \in DOMAIN N : n = 1 \/ (n - 1 \in DOMAIN M /\ N[n] = M[n - 1])

LEMMA Prepended ==
  ASSUME NEW M, M \in Seq(Range(M)), NEW x
  PROVE  InFront(x, M, <<x>> \o M)
<1> DEFINE N == <<x>> \o M
<1> DEFINE S == {x} \cup Range(M)
           one == <<x>>
<1>1. M \in Seq(S) /\ one \in Seq(S) /\ Len(one) = 1 /\ one[1] = x
  OBVIOUS
<1>2. DOMAIN M = 1..Len(M) /\ Len(M) \in Nat
  OBVIOUS
<1> HIDE DEF S, one
<1>3. /\ one \o M \in Seq(S) /\ Len(one \o M) = 1 + Len(M)
      /\ \A i \in 1..(1 + Len(M)) : (one \o M)[i] = IF i <= 1 THEN one[i] ELSE M[i - 1]
  <2>1. /\ one \o M \in Seq(S)
        /\ Len(one \o M) = Len(one) + Len(M)
        /\ \A i \in 1..(Len(one) + Len(M)) :
             (one \o M)[i] = IF i <= Len(one) THEN one[i] ELSE M[i - Len(one)]
    BY <1>1, ConcatProperties
  <2>2. QED
    BY <1>1, <2>1
<1> HIDE DEF N
<1>4. /\ N \in Seq(S) /\ DOMAIN N = 1..(Len(M) + 1)
      /\ \A i \in 1..(1 + Len(M)) : N[i] = IF i <= 1 THEN x ELSE M[i - 1]
  BY <1>1, <1>3 DEF one, N
<1>5. N \in Seq(Range(N))
  <2>1. \A i \in 1..(Len(M) + 1) : N[i] \in Range(N)
    BY <1>4 DEF Range
  <2>2. N = [i \in 1..(Len(M) + 1) |-> N[i]] /\ Len(M) + 1 \in Nat
    BY <1>2, <1>4
  <2> DEFINE T == Range(N)
             n == Len(M) + 1
  <2> HIDE DEF T, n
  <2>3. N \in [1..n -> T] /\ n \in Nat
    BY <2>1, <2>2 DEF n, T
  <2>4. N \in Seq(T)
    BY <2>3, FunctionIsSeq
  <2>5. QED
    BY <2>4 DEF T
<1>6. InFront(x, M, N)
  BY <1>2, <1>4, <1>5 DEF InFront
<1>7. QED
  BY <1>6 DEF N

\* What d says is still said in e, in the place its role and its order ask for.
Moves(d, e) ==
  /\ Get(e, "messages") # None /\ IsConversation(e)
  /\ {TextAt(e, p) : p \in Places(e)} = {TextAt(d, x) : x \in Places(d)}
  /\ \A p \in Places(e), x \in Places(d) :
       TextAt(e, p) = TextAt(d, x) /\ RoleAt(d, x) = "user" => RoleAt(e, p) = "user"
  /\ \A p, q \in Places(e), x, y \in Places(d) :
       /\ TextAt(e, p) = TextAt(d, x) /\ TextAt(e, q) = TextAt(d, y)
       /\ RoleAt(d, y) = "user" /\ Before(x, y)
       => Before(p, q)

LEMMA MovesItself ==
  ASSUME NEW d, Get(d, "messages") # None, IsConversation(d)
  PROVE  Moves(d, d)
  BY DEF Moves, IsConversation

LEMMA MovesOn ==
  ASSUME NEW d, NEW e, NEW f, Moves(d, e), Moves(e, f)
  PROVE  Moves(d, f)
<1>1. \A p \in Places(f) : \E m \in Places(e) : TextAt(f, p) = TextAt(e, m)
  BY DEF Moves
<1>2. \A p \in Places(f), x \in Places(d) :
        TextAt(f, p) = TextAt(d, x) /\ RoleAt(d, x) = "user" => RoleAt(f, p) = "user"
  BY <1>1 DEF Moves
<1>3. \A p, q \in Places(f), x, y \in Places(d) :
       /\ TextAt(f, p) = TextAt(d, x) /\ TextAt(f, q) = TextAt(d, y)
       /\ RoleAt(d, y) = "user" /\ Before(x, y)
       => Before(p, q)
  <2> SUFFICES ASSUME NEW p \in Places(f), NEW q \in Places(f), NEW x \in Places(d),
                      NEW y \in Places(d),
                      TextAt(f, p) = TextAt(d, x), TextAt(f, q) = TextAt(d, y),
                      RoleAt(d, y) = "user", Before(x, y)
               PROVE  Before(p, q)
    OBVIOUS
  <2>1. PICK m \in Places(e) : TextAt(f, p) = TextAt(e, m)
    BY <1>1
  <2>2. PICK n \in Places(e) : TextAt(f, q) = TextAt(e, n)
    BY <1>1
  <2>3. RoleAt(e, n) = "user" /\ Before(m, n)
    BY <2>1, <2>2 DEF Moves
  <2>4. QED
    BY <2>1, <2>2, <2>3 DEF Moves
<1>4. QED
  BY <1>2, <1>3 DEF Moves

\* The messages and the system text are all that is said.
LEMMA SameSaid ==
  ASSUME NEW d, NEW e, NEW f, Moves(d, e),
         Get(f, "messages") = Get(e, "messages"), SystemText(f) = SystemText(e)
  PROVE  /\ Moves(d, f)
         /\ Places(f) = Places(e)
         /\ \A p \in Places(e) : TextAt(f, p) = TextAt(e, p) /\ RoleAt(f, p) = RoleAt(e, p)
<1>1. f.messages = e.messages
  BY DEF Get, Moves
<1>2. Places(f) = Places(e)
  BY <1>1 DEF Places
<1>3. \A p : TextAt(f, p) = TextAt(e, p) /\ RoleAt(f, p) = RoleAt(e, p)
  BY <1>1 DEF TextAt, RoleAt
<1>4. IsConversation(f) <=> IsConversation(e)
  BY <1>1, <1>2, <1>3 DEF IsConversation
<1>5. QED
  BY <1>2, <1>3, <1>4 DEF Moves

\* Where every place of e goes back to one of d, e moves what d says.
LEMMA GoesBack ==
  ASSUME NEW d, IsConversation(d), NEW e, Get(e, "messages") # None,
         e.messages \in Seq(Range(e.messages)), \A m \in Range(e.messages) : IsMessage(m),
         SystemText(e) \in Seq(Range(SystemText(e))),
         NEW back,
         \A p \in Places(e) : back[p] \in Places(d) /\ TextAt(e, p) = TextAt(d, back[p]),
         \A x \in Places(d) : \E p \in Places(e) : back[p] = x,
         \A p, q \in Places(e) : back[p] = back[q] => p = q,
         \A p \in Places(e) : RoleAt(d, back[p]) = "user" => RoleAt(e, p) = "user",
         \A p, q \in Places(e) :
           RoleAt(d, back[q]) = "user" /\ Before(back[p], back[q]) => Before(p, q)
  PROVE  Moves(d, e)
<1>1. \A p \in Places(e), x \in Places(d) : TextAt(e, p) = TextAt(d, x) => x = back[p]
  BY DEF IsConversation
<1>2. \A p, q \in Places(e) : TextAt(e, p) = TextAt(e, q) => p = q
  BY <1>1
<1>3. IsConversation(e)
  BY <1>2 DEF IsConversation
<1>4. {TextAt(e, p) : p \in Places(e)} = {TextAt(d, x) : x \in Places(d)}
  OBVIOUS
<1>5. QED
  BY <1>1, <1>3, <1>4 DEF Moves

\* The middleware's new place for the system text is in front of the first user text.
LEMMA SystemAsUserMoves ==
  ASSUME NoneIsNoDictionary, NEW d, d # None, Get(d, "messages") # None, IsConversation(d)
  PROVE  Moves(d, SystemAsUser(d))
<1> DEFINE system == Get(d, "system")
           M == Get(d, "messages")
           users == {i \in DOMAIN M : M[i].role = "user"}
           first == CHOOSE i \in users : \A j \in users : i <= j
           rest == [k \in DOMAIN d \ {"system"} |-> d[k]]
           N == IF users = {} THEN <<[role |-> "user", text |-> system]>> \o M
                ELSE [M EXCEPT ![first].text = system \o @]
           e == Put(rest, "messages", N)
<1>1. CASE SystemAsUser(d) = d
  BY <1>1, MovesItself
<1>2. CASE SystemAsUser(d) # d
  <2>1. d.messages = M
    BY DEF Get
  <2>2. SystemAsUser(d) = e /\ system # None
    <3>1. SystemAsUser(d) = IF Get(d, "model") \notin CHATGPT_BACKED \/ system \in {None, <<>>}
                               \/ M = None THEN d ELSE e
      BY DEF SystemAsUser
    <3> HIDE DEF e
    <3>2. QED
      BY <1>2, <3>1
  <2>3. SystemText(d) = system
    BY <2>2 DEF SystemText, Get
  <2>4. /\ e # None /\ "messages" \in DOMAIN e /\ e["messages"] = N
        /\ AllBut({"messages"}, rest, e)
    <3> HIDE DEF N, rest
    <3>1. QED
      BY PutGives
  <2>5. "system" \notin DOMAIN e
    <3>1. "system" \notin DOMAIN rest
      OBVIOUS
    <3> HIDE DEF rest, e
    <3>2. QED
      BY <2>4, <3>1 DEF AllBut
  <2> HIDE DEF e
  <2>6. SystemText(e) = <<>> /\ Get(e, "messages") = N /\ e.messages = N
    BY <2>4, <2>5 DEF SystemText, Get
  <2>7. /\ M \in Seq(Range(M)) /\ \A i \in DOMAIN M : /\ M[i] \in Range(M)
                                                      /\ {"role", "text"} \subseteq DOMAIN M[i]
                                                      /\ M[i].text \in Seq(Range(M[i].text))
        /\ system \in Seq(Range(system))
        /\ DOMAIN M = 1..Len(M) /\ Len(M) \in Nat
        /\ DOMAIN system = 1..Len(system) /\ Len(system) \in Nat
    <3>1. \A i \in DOMAIN M : M[i] \in Range(M)
      BY DEF Range
    <3>2. M \in Seq(Range(M)) /\ system \in Seq(Range(system))
      BY <2>1, <2>3 DEF IsConversation
    <3>3. QED
      BY <2>1, <3>1, <3>2 DEF IsConversation, IsMessage
  <2> DEFINE L == Len(system)
             Text(i) == M[i].text
  <2>8. \A i \in DOMAIN M : DOMAIN Text(i) = 1..Len(Text(i)) /\ Len(Text(i)) \in Nat
    BY <2>7
  <2>9. Places(d) = {<<0, i>> : i \in 1..L} \cup UNION {{<<m, i>> : i \in DOMAIN Text(m)} : m \in DOMAIN M}
    BY <2>1, <2>3, <2>7 DEF Places
  <2>10. \A p : /\ p \in Places(d) <=> \/ \E i \in 1..L : p = <<0, i>>
                                       \/ \E m \in DOMAIN M : \E i \in DOMAIN Text(m) : p = <<m, i>>
    BY <2>9
  <2>11. /\ \A i \in 1..L : /\ TextAt(d, <<0, i>>) = system[i]
                            /\ RoleAt(d, <<0, i>>) = "system"
         /\ \A m \in DOMAIN M : \A i : /\ TextAt(d, <<m, i>>) = Text(m)[i]
                                   /\ RoleAt(d, <<m, i>>) = M[m].role
    BY <2>1, <2>3, <2>7 DEF TextAt, RoleAt
  <2>12. CASE users = {}
    <3> DEFINE new == [role |-> "user", text |-> system]
               back == [p \in Places(e) |-> <<p[1] - 1, p[2]>>]
    <3>1. N = <<new>> \o M
      BY <2>12
    <3> HIDE DEF N, users
    <3>2. InFront(new, M, N)
      <4>1. M \in Seq(Range(M))
        BY <2>7
      <4> HIDE DEF new, M
      <4>2. QED
        BY <3>1, <4>1, Prepended
    <3>3. \A p : p \in Places(e) <=> \E n \in DOMAIN N : \E i \in DOMAIN N[n].text : p = <<n, i>>
      BY <2>6 DEF Places
    <3>4. \A n \in DOMAIN N : \A i : /\ TextAt(e, <<n, i>>) = N[n].text[i]
                                 /\ RoleAt(e, <<n, i>>) = N[n].role
      BY <2>6, <2>7, <3>2 DEF TextAt, RoleAt, InFront
    <3>5. \A m \in DOMAIN M : M[m].role # "user"
      BY <2>12 DEF users
    <3>6. N[1] = new /\ \A n \in DOMAIN N : n = 1 \/ (n - 1 \in DOMAIN M /\ N[n] = M[n - 1])
      BY <3>2 DEF InFront
    <3>7. \A n \in DOMAIN N : \A i : n \in Nat /\ (<<n, i>> \in Places(e) => back[<<n, i>>] = <<n - 1, i>>)
      <4>1. \A n \in DOMAIN N : n \in Nat
        BY <2>7, <3>2 DEF InFront
      <4>2. \A p \in Places(e) : back[p] = <<p[1] - 1, p[2]>>
        OBVIOUS
      <4> HIDE DEF back
      <4>3. QED
        BY <4>1, <4>2
    <3> HIDE DEF back
    <3>8. ASSUME NEW p \in Places(e)
          PROVE  /\ back[p] \in Places(d) /\ TextAt(e, p) = TextAt(d, back[p])
                 /\ RoleAt(d, back[p]) # "user"
      <4>1. PICK n \in DOMAIN N : \E i \in DOMAIN N[n].text : p = <<n, i>>
        BY <3>3
      <4>2. PICK i \in DOMAIN N[n].text : p = <<n, i>>
        BY <4>1
      <4>3. back[p] = <<n - 1, i>> /\ TextAt(e, p) = N[n].text[i]
        BY <3>4, <3>7, <4>2
      <4>4. CASE n = 1
        BY <2>7, <2>10, <2>11, <3>6, <4>2, <4>3, <4>4
      <4>5. CASE n # 1
        BY <2>10, <2>11, <3>5, <3>6, <4>2, <4>3, <4>5
      <4>6. QED
        BY <4>4, <4>5
    <3>9. ASSUME NEW x \in Places(d) PROVE \E p \in Places(e) : back[p] = x
      <4>1. CASE \E i \in 1..L : x = <<0, i>>
        <5>1. PICK i \in 1..L : x = <<0, i>>
          BY <4>1
        <5>2. 1 \in DOMAIN N /\ i \in DOMAIN N[1].text
          BY <2>7, <3>2, <3>6 DEF InFront
        <5>3. <<1, i>> \in Places(e)
          BY <3>3, <5>2
        <5>4. QED
          BY <3>7, <5>1, <5>2, <5>3
      <4>2. CASE \E m \in DOMAIN M : \E i \in DOMAIN Text(m) : x = <<m, i>>
        <5>1. PICK m \in DOMAIN M : \E i \in DOMAIN Text(m) : x = <<m, i>>
          BY <4>2
        <5>2. PICK i \in DOMAIN Text(m) : x = <<m, i>>
          BY <5>1
        <5>3. m + 1 \in DOMAIN N /\ N[m + 1] = M[m]
          BY <3>2 DEF InFront
        <5>4. <<m + 1, i>> \in Places(e)
          BY <3>3, <5>2, <5>3
        <5>5. (m + 1) - 1 = m
          BY <2>7
        <5>6. QED
          BY <3>7, <5>2, <5>3, <5>4, <5>5
      <4>3. QED
        BY <2>10, <4>1, <4>2
    <3>10. ASSUME NEW p \in Places(e), NEW q \in Places(e), back[p] = back[q] PROVE p = q
      <4>1. PICK n \in DOMAIN N : \E i : p = <<n, i>>
        BY <3>3
      <4>2. PICK i : p = <<n, i>>
        BY <4>1
      <4>3. PICK k \in DOMAIN N : \E j : q = <<k, j>>
        BY <3>3
      <4>4. PICK j : q = <<k, j>>
        BY <4>3
      <4>5. n \in Nat /\ k \in Nat /\ <<n - 1, i>> = <<k - 1, j>>
        BY <3>7, <3>10, <4>2, <4>4
      <4>6. n - 1 = k - 1 /\ i = j
        BY <4>5
      <4>7. QED
        BY <4>2, <4>4, <4>5, <4>6
    <3>11. \A m \in Range(N) : IsMessage(m)
      <4>1. \A n \in DOMAIN N : IsMessage(N[n])
        <5>1. IsMessage(new)
          BY <2>7 DEF new, IsMessage
        <5>2. \A m \in DOMAIN M : IsMessage(M[m])
          BY <2>7 DEF IsMessage
        <5>3. QED
          BY <3>6, <5>1, <5>2
      <4>2. QED
        BY <4>1 DEF Range
    <3>12. <<>> \in Seq(Range(<<>>))
      OBVIOUS
    <3>13. N # None
      <4>1. N = [n \in DOMAIN N |-> N[n]]
        BY <3>2 DEF InFront
      <4>2. QED
        BY <4>1, FunctionIsNotNone
    <3>14. N \in Seq(Range(N))
      BY <3>2 DEF InFront
    <3>15. Moves(d, e)
      <4> HIDE DEF Text, L
      <4>1. e.messages \in Seq(Range(e.messages)) /\ \A m \in Range(e.messages) : IsMessage(m)
        BY <2>6, <3>11, <3>14
      <4>2. Get(e, "messages") # None /\ SystemText(e) \in Seq(Range(SystemText(e)))
        BY <2>6, <3>12, <3>13
      <4>3. QED
        BY <3>8, <3>9, <3>10, <4>1, <4>2, GoesBack
    <3>16. QED
      BY <2>2, <3>15
  <2>13. CASE users # {}
    <3> DEFINE f == first
               joined == system \o Text(f)
               back == [p \in Places(e) |-> IF p[1] # f THEN p
                                            ELSE IF p[2] <= L THEN <<0, p[2]>>
                                            ELSE <<f, p[2] - L>>]
    <3>1. f \in users /\ \A j \in users : f <= j
      <4>1. users \subseteq Nat
        BY <2>7
      <4> HIDE DEF users
      <4>2. \E i \in users : \A j \in users : i <= j
        BY <2>13, <4>1, LeastOf
      <4>3. QED
        BY <4>2
    <3>2. N = [M EXCEPT ![f].text = system \o @]
      BY <2>13
    <3> HIDE DEF N, first, M
    <3>3. f \in DOMAIN M /\ M[f].role = "user" /\ f \in Nat /\ f # 0
      BY <2>7, <3>1
    <3>4. \A m \in DOMAIN M : M[m].role = "user" => f <= m
      BY <3>1
    <3> HIDE DEF users
    <3>5. /\ Len(joined) = L + Len(Text(f)) /\ DOMAIN joined = 1..Len(joined)
          /\ joined \in Seq(Range(joined))
          /\ \A i \in 1..Len(joined) : joined[i] = IF i <= L THEN system[i] ELSE Text(f)[i - L]
      <4> DEFINE t == Text(f)
      <4>1. t \in Seq(Range(t)) /\ system \in Seq(Range(system))
        BY <2>7, <3>3
      <4> HIDE DEF t, system
      <4>2. Joins(system, t, system \o t)
        BY <4>1, Joined
      <4>3. joined = system \o t
        BY DEF t
      <4> HIDE DEF joined
      <4>4. QED
        BY <4>2, <4>3 DEF Joins, t
    <3> HIDE DEF joined
    <3>6. /\ DOMAIN N = DOMAIN M
          /\ \A n \in DOMAIN N : n # f => N[n] = M[n]
          /\ N[f].text = joined /\ N[f].role = "user"
          /\ {"role", "text"} \subseteq DOMAIN N[f]
      <4>1. {"role", "text"} \subseteq DOMAIN M[f]
        BY <2>7, <3>3
      <4>2. joined = system \o M[f].text
        BY DEF joined
      <4>3. N = [M EXCEPT ![f].text = joined]
        BY <3>2, <4>2
      <4> HIDE DEF f
      <4>4. DOMAIN N = DOMAIN M /\ \A n \in DOMAIN N : n # f => N[n] = M[n]
        BY <4>3
      <4>5. N[f] = [M[f] EXCEPT !.text = joined]
        BY <3>3, <4>3
      <4>6. QED
        BY <3>3, <4>1, <4>4, <4>5
    <3> HIDE DEF f
    <3>7. \A p : p \in Places(e) <=> \E n \in DOMAIN N : \E i \in DOMAIN N[n].text : p = <<n, i>>
      BY <2>6 DEF Places
    <3>8. \A n \in DOMAIN N : \A i : /\ TextAt(e, <<n, i>>) = N[n].text[i]
                                     /\ RoleAt(e, <<n, i>>) = N[n].role
      BY <2>6, <2>7, <3>6 DEF TextAt, RoleAt
    <3>9. \A n : \A i : <<n, i>> \in Places(e) =>
            back[<<n, i>>] = IF n # f THEN <<n, i>> ELSE IF i <= L THEN <<0, i>> ELSE <<f, i - L>>
      <4>1. \A p \in Places(e) :
              back[p] = IF p[1] # f THEN p ELSE IF p[2] <= L THEN <<0, p[2]>> ELSE <<f, p[2] - L>>
        OBVIOUS
      <4> HIDE DEF back
      <4>2. QED
        BY <4>1
    <3> HIDE DEF back, L, Text
    <3>10. Len(Text(f)) \in Nat /\ DOMAIN Text(f) = 1..Len(Text(f)) /\ L \in Nat
      BY <2>7, <2>8, <3>3 DEF L
    <3>11. \A n : \A i : <<n, i>> \in Places(e) <=>
             \/ n \in DOMAIN M /\ n # f /\ i \in DOMAIN Text(n)
             \/ n = f /\ i \in 1..(L + Len(Text(f)))
      <4>1. \A n : \A i : <<n, i>> \in Places(e) <=> n \in DOMAIN N /\ i \in DOMAIN N[n].text
        BY <3>7
      <4>2. DOMAIN N[f].text = 1..(L + Len(Text(f)))
        BY <3>5, <3>6
      <4>3. QED
        BY <3>3, <3>6, <4>1, <4>2 DEF Text
    <3>12. \A p \in Places(e) : \E n \in DOMAIN M : \E i \in Nat : p = <<n, i>>
      BY <2>8, <3>6, <3>7, <3>5, <3>10 DEF Text
    <3>13. ASSUME NEW p \in Places(e)
           PROVE  /\ back[p] \in Places(d) /\ TextAt(e, p) = TextAt(d, back[p])
                  /\ RoleAt(d, back[p]) = "user" => RoleAt(e, p) = "user"
      <4>1. PICK n \in DOMAIN M : \E i \in Nat : p = <<n, i>>
        BY <3>12
      <4>2. PICK i \in Nat : p = <<n, i>>
        BY <4>1
      <4>3. n \in DOMAIN N /\ TextAt(e, p) = N[n].text[i] /\ RoleAt(e, p) = N[n].role
        BY <3>6, <3>8, <4>2
      <4>4. CASE n # f
        <5>1. back[p] = p /\ i \in DOMAIN Text(n) /\ N[n] = M[n]
          BY <3>6, <3>9, <3>11, <4>2, <4>3, <4>4
        <5>2. QED
          BY <2>10, <2>11, <4>2, <4>3, <5>1 DEF Text
      <4>5. CASE n = f /\ i <= L
        <5>1. back[<<f, i>>] = <<0, i>>
          BY <3>9, <4>2, <4>5
        <5>2. i \in 1..(L + Len(Text(f)))
          BY <3>11, <4>2, <4>5
        <5>3. i \in 1..L
          BY <3>10, <4>5, <5>2
        <5>4. back[p] = <<0, i>> /\ i \in 1..L
          BY <4>2, <4>5, <5>1, <5>3
        <5>5. joined[i] = system[i]
          BY <3>5, <3>10, <4>5, <5>4
        <5>6. QED
          BY <2>10, <2>11, <3>6, <4>3, <4>5, <5>4, <5>5 DEF L
      <4>6. CASE n = f /\ ~(i <= L)
        <5>1. back[p] = <<f, i - L>> /\ i \in 1..(L + Len(Text(f)))
          BY <3>9, <3>11, <4>2, <4>6
        <5>2. joined[i] = Text(f)[i - L] /\ i - L \in DOMAIN Text(f)
          BY <3>5, <3>10, <4>6, <5>1
        <5>3. QED
          BY <2>10, <2>11, <3>3, <3>6, <4>3, <4>6, <5>1, <5>2
      <4>7. QED
        BY <4>4, <4>5, <4>6
    <3>14. ASSUME NEW x \in Places(d) PROVE \E p \in Places(e) : back[p] = x
      <4>1. ASSUME NEW i \in 1..L, x = <<0, i>> PROVE \E p \in Places(e) : back[p] = x
        <5>1. <<f, i>> \in Places(e)
          BY <3>10, <3>11, <4>1
        <5>2. i <= L
          BY <3>10
        <5>3. back[<<f, i>>] = x
          BY <3>9, <4>1, <5>1, <5>2
        <5>4. QED
          BY <5>1, <5>3
      <4>2. ASSUME NEW m \in DOMAIN M, NEW i \in DOMAIN Text(m), x = <<m, i>>
            PROVE  \E p \in Places(e) : back[p] = x
        <5>1. CASE m # f
          BY <3>9, <3>11, <4>2, <5>1
        <5>2. CASE m = f
          <6>1. <<f, i + L>> \in Places(e) /\ ~(i + L <= L) /\ (i + L) - L = i
            BY <3>10, <3>11, <4>2, <5>2
          <6>2. QED
            BY <3>9, <4>2, <5>2, <6>1
        <5>3. QED
          BY <5>1, <5>2
      <4>3. QED
        BY <2>10, <4>1, <4>2 DEF L
    <3>15. ASSUME NEW p \in Places(e), NEW q \in Places(e), back[p] = back[q] PROVE p = q
      <4>1. PICK n \in DOMAIN M : \E i \in Nat : p = <<n, i>>
        BY <3>12
      <4>2. PICK i \in Nat : p = <<n, i>>
        BY <4>1
      <4>3. PICK k \in DOMAIN M : \E j \in Nat : q = <<k, j>>
        BY <3>12
      <4>4. PICK j \in Nat : q = <<k, j>>
        BY <4>3
      <4>5. /\ back[p] = IF n # f THEN <<n, i>> ELSE IF i <= L THEN <<0, i>> ELSE <<f, i - L>>
            /\ back[q] = IF k # f THEN <<k, j>> ELSE IF j <= L THEN <<0, j>> ELSE <<f, j - L>>
        BY <3>9, <4>2, <4>4
      <4>6. n \in Nat /\ k \in Nat /\ n # 0 /\ k # 0
        BY <2>7
      <4>7. n = k /\ i = j
        <5> DEFINE P1 == IF n # f THEN n ELSE IF i <= L THEN 0 ELSE f
                   P2 == IF n # f THEN i ELSE IF i <= L THEN i ELSE i - L
                   Q1 == IF k # f THEN k ELSE IF j <= L THEN 0 ELSE f
                   Q2 == IF k # f THEN j ELSE IF j <= L THEN j ELSE j - L
        <5>1. back[p] = <<P1, P2>>
          BY <4>5
        <5>2. back[q] = <<Q1, Q2>>
          BY <4>5
        <5>3. P1 = Q1 /\ P2 = Q2
          <6> HIDE DEF P1, P2, Q1, Q2
          <6>1. <<P1, P2>> = <<Q1, Q2>>
            BY <3>15, <5>1, <5>2
          <6>2. QED
            BY <6>1
        <5>4. QED
          BY <3>3, <3>10, <4>6, <5>3
      <4>8. QED
        BY <4>2, <4>4, <4>7
    <3>16. ASSUME NEW p \in Places(e), NEW q \in Places(e),
                  RoleAt(d, back[q]) = "user", Before(back[p], back[q])
           PROVE  Before(p, q)
      <4>1. PICK n \in DOMAIN M : \E i \in Nat : p = <<n, i>>
        BY <3>12
      <4>2. PICK i \in Nat : p = <<n, i>>
        BY <4>1
      <4>3. PICK k \in DOMAIN M : \E j \in Nat : q = <<k, j>>
        BY <3>12
      <4>4. PICK j \in Nat : q = <<k, j>>
        BY <4>3
      <4>5. /\ back[p] = IF n # f THEN <<n, i>> ELSE IF i <= L THEN <<0, i>> ELSE <<f, i - L>>
            /\ back[q] = IF k # f THEN <<k, j>> ELSE IF j <= L THEN <<0, j>> ELSE <<f, j - L>>
        BY <3>9, <4>2, <4>4
      <4>6. n \in Nat /\ k \in Nat /\ n # 0 /\ k # 0
        BY <2>7
      <4>7. f <= k /\ (k = f => j > L)
        <5>1. CASE k # f
          <6>1. RoleAt(d, <<k, j>>) = M[k].role
            BY <2>11
          <6>2. QED
            BY <3>4, <3>16, <4>5, <5>1, <6>1
        <5>2. CASE k = f
          <6>1. RoleAt(d, <<0, j>>) = "system"
            BY DEF RoleAt
          <6>2. ~(j <= L)
            BY <3>16, <4>5, <5>2, <6>1
          <6>3. QED
            BY <3>3, <3>10, <5>2, <6>2
        <5>3. QED
          BY <5>1, <5>2
      <4>8. Before(back[p], back[q]) => n < k \/ (n = k /\ i < j)
        BY <3>3, <3>10, <4>5, <4>6, <4>7 DEF Before
      <4>9. QED
        BY <3>16, <4>2, <4>4, <4>8 DEF Before
    <3>17. N \in Seq(Range(N))
      <4>1. \A n \in DOMAIN N : N[n] \in Range(N)
        BY DEF Range
      <4>2. N = [n \in DOMAIN N |-> N[n]]
        BY <3>2
      <4> DEFINE T == Range(N)
      <4> HIDE DEF T, N
      <4>3. N \in [1..Len(M) -> T] /\ Len(M) \in Nat
        BY <2>7, <3>6, <4>1, <4>2 DEF T
      <4>4. N \in Seq(T)
        BY <4>3, FunctionIsSeq
      <4>5. QED
        BY <4>4 DEF T
    <3>18. N # None
      <4>1. N = [n \in DOMAIN N |-> N[n]]
        BY <3>2
      <4>2. QED
        BY <4>1, FunctionIsNotNone
    <3>19. \A m \in Range(N) : IsMessage(m)
      <4>1. \A n \in DOMAIN N : IsMessage(N[n])
        <5>1. IsMessage(N[f])
          BY <3>5, <3>6 DEF IsMessage
        <5>2. \A m \in DOMAIN M : IsMessage(M[m])
          BY <2>7 DEF IsMessage
        <5>3. QED
          BY <3>6, <5>1, <5>2
      <4>2. QED
        BY <4>1 DEF Range
    <3>20. <<>> \in Seq(Range(<<>>))
      OBVIOUS
    <3>21. Moves(d, e)
      <4>1. e.messages \in Seq(Range(e.messages)) /\ \A m \in Range(e.messages) : IsMessage(m)
        BY <2>6, <3>17, <3>19
      <4>2. Get(e, "messages") # None /\ SystemText(e) \in Seq(Range(SystemText(e)))
        BY <2>6, <3>18, <3>20
      <4>3. QED
        BY <3>13, <3>14, <3>15, <3>16, <4>1, <4>2, GoesBack
    <3>22. QED
      BY <2>2, <3>21
  <2>14. QED
    BY <2>2, <2>12, <2>13
<1>3. QED
  BY <1>1, <1>2

\* What is taken from the messages up to each of them.
Taken(f, n, system, M) ==
  f = [i \in 0..n |-> IF i = 0 THEN [texts |-> system, others |-> <<>>] ELSE Take(f[i - 1], M[i])]

LEMMA TakenExists ==
  ASSUME NEW n \in Nat, NEW system, NEW M
  PROVE  \E f : Taken(f, n, system, M)
<1> DEFINE S == {k \in 0..n : \E f : Taken(f, k, system, M)}
           none == [texts |-> system, others |-> <<>>]
<1>1. 0 \in S
  <2> DEFINE f == [i \in 0..0 |-> none]
  <2>1. \A i \in 0..0 : i = 0
    OBVIOUS
  <2> HIDE DEF none
  <2>2. f = [i \in 0..0 |-> IF i = 0 THEN none ELSE Take(f[i - 1], M[i])]
    BY <2>1
  <2> HIDE DEF f
  <2>3. Taken(f, 0, system, M)
    BY <2>2 DEF Taken, none
  <2>4. QED
    BY <2>3
<1>2. ASSUME NEW k \in 0..(n - 1), k \in S PROVE k + 1 \in S
  <2>1. PICK f : Taken(f, k, system, M)
    BY <1>2
  <2> DEFINE step(g, i) == IF i = 0 THEN none ELSE Take(g[i - 1], M[i])
             g == [i \in 0..(k + 1) |-> IF i = k + 1 THEN Take(f[k], M[k + 1]) ELSE f[i]]
  <2>2. f = [i \in 0..k |-> step(f, i)]
    BY <2>1 DEF Taken
  <2>3. \A i \in 0..(k + 1) : g[i] = step(g, i)
    <3>1. ASSUME NEW i \in 0..(k + 1) PROVE g[i] = step(g, i)
      <4>1. CASE i = k + 1
        <5>1. i - 1 = k /\ i # 0 /\ k \in 0..(k + 1) /\ k # k + 1
          BY <4>1
        <5>2. g[i] = Take(f[k], M[k + 1]) /\ g[k] = f[k]
          BY <4>1, <5>1
        <5> HIDE DEF g
        <5>3. QED
          BY <4>1, <5>1, <5>2
      <4>2. CASE i = 0
        <5>1. 0 \in 0..k /\ i # k + 1
          BY <4>2
        <5>2. g[i] = f[0] /\ f[0] = step(f, 0)
          BY <2>2, <4>2, <5>1
        <5> HIDE DEF g
        <5>3. QED
          BY <4>2, <5>2
      <4>3. CASE i # k + 1 /\ i # 0
        <5>1. i \in 0..k /\ i - 1 \in 0..(k + 1) /\ i - 1 # k + 1
          BY <4>3
        <5>2. g[i] = f[i] /\ g[i - 1] = f[i - 1]
          BY <4>3, <5>1
        <5> HIDE DEF g
        <5>3. f[i] = step(f, i)
          BY <2>2, <5>1
        <5>4. QED
          BY <5>2, <5>3
      <4>4. QED
        BY <4>1, <4>2, <4>3
    <3>2. QED
      BY <3>1
  <2>4. g = [i \in 0..(k + 1) |-> g[i]]
    OBVIOUS
  <2> HIDE DEF g
  <2>5. g = [i \in 0..(k + 1) |-> step(g, i)]
    BY <2>3, <2>4
  <2>6. Taken(g, k + 1, system, M)
    BY <2>5 DEF Taken
  <2>7. QED
    BY <2>6
<1>3. n \in S
  <2> HIDE DEF S
  <2>1. \A k \in 0..n : k \in S
    BY <1>1, <1>2, PassedOn
  <2>2. QED
    BY <2>1
<1>4. QED
  BY <1>3

LEMMA TakingIsTaken ==
  ASSUME NEW system, NEW M, Len(M) \in Nat
  PROVE  LET f == Taking(system, M)
         IN /\ f[0] = [texts |-> system, others |-> <<>>]
            /\ \A k \in 0..(Len(M) - 1) : f[k + 1] = Take(f[k], M[k + 1])
<1> DEFINE n == Len(M)
           f == Taking(system, M)
<1>1. f = CHOOSE taking : Taken(taking, n, system, M)
  BY DEF Taking, Taken
<1> HIDE DEF f, n
<1>2. Taken(f, n, system, M) /\ n \in Nat
  BY <1>1, TakenExists DEF n
<1>3. f = [i \in 0..n |-> IF i = 0 THEN [texts |-> system, others |-> <<>>]
                          ELSE Take(f[i - 1], M[i])]
  BY <1>2 DEF Taken
<1>4. f[0] = [texts |-> system, others |-> <<>>]
  BY <1>2, <1>3
<1>5. \A k \in 0..(n - 1) : f[k + 1] = Take(f[k], M[k + 1])
  <2>1. TAKE k \in 0..(n - 1)
  <2>2. k + 1 \in 0..n /\ k + 1 # 0 /\ (k + 1) - 1 = k
    BY <1>2
  <2> HIDE DEF f
  <2>3. QED
    BY <1>3, <2>2
<1>6. QED
  BY <1>4, <1>5 DEF f, n

\* Where the texts of the system come from, up to message k.
TextsTraced(d, k, texts, from) ==
  /\ texts \in Seq(Range(texts))
  /\ \A i \in DOMAIN texts :
       /\ from[i] \in Places(d) /\ from[i][1] <= k
       /\ RoleAt(d, from[i]) = "system" /\ TextAt(d, from[i]) = texts[i]
  /\ \A i, j \in DOMAIN texts : from[i] = from[j] => i = j
  /\ \A x \in Places(d) : x[1] <= k /\ RoleAt(d, x) = "system" =>
       \E i \in DOMAIN texts : from[i] = x

\* Where the other messages come from, in their order.
OthersTraced(M, k, others, from) ==
  /\ others \in Seq(Range(others))
  /\ \A j \in DOMAIN others : /\ from[j] \in 1..k
                              /\ M[from[j]].role # "system" /\ M[from[j]] = others[j]
  /\ \A i, j \in DOMAIN others : i < j => from[i] < from[j]
  /\ \A m \in 1..k : M[m].role # "system" => \E j \in DOMAIN others : from[j] = m

\* The places of a conversation, and what they say.
LEMMA PlacesOf ==
  ASSUME NEW d, IsConversation(d)
  PROVE  /\ d.messages \in Seq(Range(d.messages)) /\ Len(d.messages) \in Nat
         /\ DOMAIN d.messages = 1..Len(d.messages)
         /\ \A m \in DOMAIN d.messages :
              /\ IsMessage(d.messages[m])
              /\ d.messages[m].text \in Seq(Range(d.messages[m].text))
              /\ Len(d.messages[m].text) \in Nat
              /\ DOMAIN d.messages[m].text = 1..Len(d.messages[m].text)
         /\ SystemText(d) \in Seq(Range(SystemText(d))) /\ Len(SystemText(d)) \in Nat
         /\ DOMAIN SystemText(d) = 1..Len(SystemText(d))
         /\ \A p \in Places(d) :
              \/ \E i \in DOMAIN SystemText(d) : p = <<0, i>>
              \/ \E m \in DOMAIN d.messages : \E i \in DOMAIN d.messages[m].text : p = <<m, i>>
         /\ \A i \in DOMAIN SystemText(d) : <<0, i>> \in Places(d)
         /\ \A m \in DOMAIN d.messages : \A i \in DOMAIN d.messages[m].text : <<m, i>> \in Places(d)
         /\ \A i : TextAt(d, <<0, i>>) = SystemText(d)[i] /\ RoleAt(d, <<0, i>>) = "system"
         /\ \A m \in DOMAIN d.messages : \A i : /\ TextAt(d, <<m, i>>) = d.messages[m].text[i]
                                                /\ RoleAt(d, <<m, i>>) = d.messages[m].role
<1> DEFINE M == d.messages
           system == SystemText(d)
<1>1. M \in Seq(Range(M)) /\ system \in Seq(Range(system))
  BY DEF IsConversation
<1>2. \A m \in DOMAIN M : IsMessage(M[m]) /\ M[m].text \in Seq(Range(M[m].text))
  BY DEF IsConversation, IsMessage, Range
<1>3. /\ Len(M) \in Nat /\ DOMAIN M = 1..Len(M)
      /\ Len(system) \in Nat /\ DOMAIN system = 1..Len(system)
  <2> HIDE DEF M, system
  <2>1. QED
    BY <1>1
<1>4. \A m \in DOMAIN M : Len(M[m].text) \in Nat /\ DOMAIN M[m].text = 1..Len(M[m].text)
  BY <1>2
<1>5. \A p \in Places(d) :
              \/ \E i \in DOMAIN system : p = <<0, i>>
              \/ \E m \in DOMAIN M : \E i \in DOMAIN M[m].text : p = <<m, i>>
  BY DEF Places
<1>6. /\ \A i \in DOMAIN system : <<0, i>> \in Places(d)
      /\ \A m \in DOMAIN M : \A i \in DOMAIN M[m].text : <<m, i>> \in Places(d)
  BY DEF Places
<1>7. \A i : TextAt(d, <<0, i>>) = system[i] /\ RoleAt(d, <<0, i>>) = "system"
  BY DEF TextAt, RoleAt
<1>8. \A m \in DOMAIN M : \A i : /\ TextAt(d, <<m, i>>) = M[m].text[i]
                                 /\ RoleAt(d, <<m, i>>) = M[m].role
  BY <1>3 DEF TextAt, RoleAt
<1>9. QED
  BY <1>1, <1>2, <1>3, <1>4, <1>5, <1>6, <1>7, <1>8

LEMMA TextsTracedInit ==
  ASSUME NEW d, IsConversation(d)
  PROVE  \E from : TextsTraced(d, 0, SystemText(d), from)
<1> DEFINE system == SystemText(d)
           from == [i \in DOMAIN system |-> <<0, i>>]
<1>1. \A i \in DOMAIN system : from[i] = <<0, i>>
  OBVIOUS
<1> HIDE DEF from
<1>2. system \in Seq(Range(system))
  BY PlacesOf
<1>3. \A i \in DOMAIN system :
       /\ from[i] \in Places(d) /\ from[i][1] <= 0
       /\ RoleAt(d, from[i]) = "system" /\ TextAt(d, from[i]) = system[i]
  <2>1. TAKE i \in DOMAIN system
  <2>2. from[i] = <<0, i>> /\ <<0, i>>[1] = 0
    BY <1>1
  <2>3. /\ <<0, i>> \in Places(d) /\ RoleAt(d, <<0, i>>) = "system"
        /\ TextAt(d, <<0, i>>) = system[i]
    BY PlacesOf
  <2>4. QED
    BY <2>2, <2>3
<1>4. \A i, j \in DOMAIN system : from[i] = from[j] => i = j
  BY <1>1
<1>5. \A x \in Places(d) : x[1] <= 0 /\ RoleAt(d, x) = "system" =>
        \E i \in DOMAIN system : from[i] = x
  <2> SUFFICES ASSUME NEW x \in Places(d), x[1] <= 0
               PROVE  \E i \in DOMAIN system : from[i] = x
    OBVIOUS
  <2>1. \A m \in DOMAIN d.messages : \A i : x # <<m, i>>
    BY PlacesOf
  <2>2. \E i \in DOMAIN system : x = <<0, i>>
    BY <2>1, PlacesOf
  <2>3. QED
    BY <1>1, <2>2
<1>6. QED
  BY <1>2, <1>3, <1>4, <1>5 DEF TextsTraced

\* A message of the system adds to the texts what it says.
LEMMA TextsTracedOn ==
  ASSUME NEW d, IsConversation(d), NEW k \in Nat, k + 1 \in DOMAIN d.messages,
         d.messages[k + 1].role = "system", NEW texts,
         \E from : TextsTraced(d, k, texts, from)
  PROVE  \E from : TextsTraced(d, k + 1, texts \o d.messages[k + 1].text, from)
<1> DEFINE t == d.messages[k + 1].text
           u == texts \o t
           n == Len(texts)
<1>1. PICK from : TextsTraced(d, k, texts, from)
  OBVIOUS
<1>2. Joins(texts, t, u)
  <2>1. texts \in Seq(Range(texts)) /\ t \in Seq(Range(t))
    BY <1>1, PlacesOf DEF TextsTraced
  <2> HIDE DEF t
  <2>2. QED
    BY <2>1, Joined
<1> DEFINE to == [i \in DOMAIN u |-> IF i <= n THEN from[i] ELSE <<k + 1, i - n>>]
<1> HIDE DEF u, t, n
<1>3. /\ n \in Nat /\ Len(t) \in Nat /\ DOMAIN texts = 1..n /\ DOMAIN t = 1..Len(t)
      /\ DOMAIN u = 1..(n + Len(t)) /\ u \in Seq(Range(u))
      /\ \A i \in 1..(n + Len(t)) : u[i] = IF i <= n THEN texts[i] ELSE t[i - n]
  BY <1>2 DEF Joins, n
<1>4. /\ \A i \in 1..n : i \in DOMAIN u /\ u[i] = texts[i]
      /\ \A i \in 1..Len(t) : i + n \in DOMAIN u /\ ~(i + n <= n) /\ (i + n) - n = i
      /\ \A i \in DOMAIN u : i \in 1..n \/ (~(i <= n) /\ i - n \in 1..Len(t) /\ u[i] = t[i - n])
  BY <1>3
<1>5. /\ \A i \in 1..n : to[i] = from[i]
      /\ \A i \in DOMAIN u : ~(i <= n) => to[i] = <<k + 1, i - n>>
  BY <1>3, <1>4
<1> HIDE DEF to
<1>6. \A i \in 1..Len(t) : /\ <<k + 1, i>> \in Places(d) /\ TextAt(d, <<k + 1, i>>) = t[i]
                           /\ RoleAt(d, <<k + 1, i>>) = "system"
  BY <1>3, PlacesOf DEF t
<1>7. \A i \in 1..n : /\ from[i] \in Places(d) /\ from[i][1] <= k
                      /\ RoleAt(d, from[i]) = "system" /\ TextAt(d, from[i]) = texts[i]
  BY <1>1, <1>3 DEF TextsTraced
<1>8. \A x \in Places(d) : x[1] \in Nat
  BY PlacesOf
<1>9. ASSUME NEW i \in DOMAIN u
      PROVE  /\ to[i] \in Places(d) /\ to[i][1] <= k + 1
             /\ RoleAt(d, to[i]) = "system" /\ TextAt(d, to[i]) = u[i]
  <2>1. CASE i \in 1..n
    <3>1. to[i] = from[i] /\ u[i] = texts[i]
      BY <1>4, <1>5, <2>1
    <3>2. QED
      BY <1>7, <1>8, <2>1, <3>1
  <2>2. CASE i \notin 1..n
    <3>1. to[i] = <<k + 1, i - n>> /\ i - n \in 1..Len(t) /\ u[i] = t[i - n]
      BY <1>4, <1>5, <2>2
    <3>2. QED
      BY <1>6, <3>1
  <2>3. QED
    BY <2>1, <2>2
<1>10. ASSUME NEW i \in DOMAIN u, NEW j \in DOMAIN u, to[i] = to[j] PROVE i = j
  <2>1. i \in Nat /\ j \in Nat
    BY <1>3
  <2>2. CASE i \in 1..n /\ j \in 1..n
    BY <1>1, <1>3, <1>5, <1>10, <2>2 DEF TextsTraced
  <2>3. CASE i \in 1..n /\ j \notin 1..n
    <3>1. to[i] = from[i] /\ from[i][1] <= k /\ from[i] \in Places(d)
      BY <1>5, <1>7, <2>3
    <3>2. to[j] = <<k + 1, j - n>>
      BY <1>4, <1>5, <2>3
    <3>3. from[i] = <<k + 1, j - n>>
      BY <1>10, <3>1, <3>2
    <3>4. from[i][1] = k + 1
      BY <3>3
    <3>5. QED
      BY <3>1, <3>4
  <2>4. CASE i \notin 1..n /\ j \in 1..n
    <3>1. to[j] = from[j] /\ from[j][1] <= k /\ from[j] \in Places(d)
      BY <1>5, <1>7, <2>4
    <3>2. to[i] = <<k + 1, i - n>>
      BY <1>4, <1>5, <2>4
    <3>3. from[j] = <<k + 1, i - n>>
      BY <1>10, <3>1, <3>2
    <3>4. from[j][1] = k + 1
      BY <3>3
    <3>5. QED
      BY <3>1, <3>4
  <2>5. CASE i \notin 1..n /\ j \notin 1..n
    <3>1. to[i] = <<k + 1, i - n>> /\ to[j] = <<k + 1, j - n>>
      BY <1>4, <1>5, <2>5
    <3>2. <<k + 1, i - n>> = <<k + 1, j - n>>
      BY <1>10, <3>1
    <3>3. i - n = j - n
      BY <3>2
    <3>4. QED
      BY <1>3, <2>1, <3>3
  <2>6. QED
    BY <2>2, <2>3, <2>4, <2>5
<1>11. ASSUME NEW x \in Places(d), x[1] <= k + 1, RoleAt(d, x) = "system"
       PROVE  \E i \in DOMAIN u : to[i] = x
  <2>1. CASE x[1] <= k
    <3>1. PICK i \in DOMAIN texts : from[i] = x
      BY <1>1, <1>11, <2>1 DEF TextsTraced
    <3>2. QED
      BY <1>3, <1>4, <1>5, <3>1
  <2>2. CASE x[1] = k + 1
    <3>1. PICK i \in DOMAIN t : x = <<k + 1, i>>
      BY <2>2, PlacesOf DEF t
    <3>2. i + n \in DOMAIN u /\ to[i + n] = <<k + 1, (i + n) - n>>
      BY <1>3, <1>4, <1>5
    <3>3. QED
      BY <1>3, <1>4, <3>1, <3>2
  <2>3. QED
    BY <1>8, <1>11, <2>1, <2>2
<1>12. TextsTraced(d, k + 1, u, to)
  BY <1>3, <1>9, <1>10, <1>11 DEF TextsTraced
<1>13. QED
  BY <1>12 DEF u, t

\* Another message adds nothing to them.
LEMMA TextsTracedBy ==
  ASSUME NEW d, IsConversation(d), NEW k \in Nat, k + 1 \in DOMAIN d.messages,
         d.messages[k + 1].role # "system", NEW texts,
         \E from : TextsTraced(d, k, texts, from)
  PROVE  \E from : TextsTraced(d, k + 1, texts, from)
<1>1. PICK from : TextsTraced(d, k, texts, from)
  OBVIOUS
<1>2. \A x \in Places(d) : x[1] \in Nat
  BY PlacesOf
<1>3. \A x \in Places(d) : x[1] <= k + 1 /\ RoleAt(d, x) = "system" => x[1] <= k
  <2> SUFFICES ASSUME NEW x \in Places(d), x[1] = k + 1, RoleAt(d, x) = "system" PROVE FALSE
    BY <1>2
  <2>1. PICK i : x = <<k + 1, i>>
    BY PlacesOf
  <2>2. QED
    BY <2>1, PlacesOf
<1>4. \A i \in DOMAIN texts : from[i][1] <= k + 1
  BY <1>1, <1>2 DEF TextsTraced
<1>5. TextsTraced(d, k + 1, texts, from)
  BY <1>1, <1>3, <1>4 DEF TextsTraced
<1>6. QED
  BY <1>5

LEMMA OthersTracedOn ==
  ASSUME NEW M, NEW k \in Nat, M[k + 1].role # "system", NEW others,
         \E from : OthersTraced(M, k, others, from)
  PROVE  \E from : OthersTraced(M, k + 1, Append(others, M[k + 1]), from)
<1> DEFINE n == Len(others)
           m == M[k + 1]
           u == Append(others, m)
<1>1. PICK from : OthersTraced(M, k, others, from)
  OBVIOUS
<1> DEFINE S == Range(others) \cup {m}
<1>2. others \in Seq(S) /\ m \in S
  <2>1. others \in Seq(Range(others)) /\ Range(others) \subseteq S /\ m \in S
    BY <1>1 DEF OthersTraced
  <2> HIDE DEF S
  <2>2. QED
    BY <2>1, SeqMonotonic
<1>3. n \in Nat /\ DOMAIN others = 1..n
  BY <1>1 DEF OthersTraced
<1> HIDE DEF S, m
<1>4. /\ u \in Seq(S) /\ Len(u) = n + 1 /\ u[n + 1] = m
      /\ \A i \in 1..n : u[i] = others[i]
  BY <1>2, <1>3, AppendProperties
<1> DEFINE to == [i \in 1..(n + 1) |-> IF i = n + 1 THEN k + 1 ELSE from[i]]
<1> HIDE DEF u, n
<1>5. DOMAIN u = 1..(n + 1) /\ u \in Seq(Range(u))
  <2>1. u \in [1..(n + 1) -> S]
    BY <1>4, LenProperties
  <2>2. \A i \in 1..(n + 1) : u[i] \in Range(u)
    BY <2>1 DEF Range
  <2>3. u \in [1..(n + 1) -> Range(u)] /\ n + 1 \in Nat
    BY <1>3, <2>1, <2>2
  <2>4. QED
    BY <2>1, <2>3, FunctionIsSeq
<1>6. to[n + 1] = k + 1 /\ \A i \in 1..n : to[i] = from[i]
  BY <1>3
<1> HIDE DEF to
<1>7. \A i \in 1..(n + 1) : i = n + 1 \/ i \in 1..n
  BY <1>3
<1>8. \A j \in 1..n : /\ from[j] \in 1..k /\ M[from[j]].role # "system"
                      /\ M[from[j]] = others[j]
  BY <1>1, <1>3 DEF OthersTraced
<1>9. \A j \in DOMAIN u : to[j] \in 1..(k + 1) /\ M[to[j]].role # "system" /\ M[to[j]] = u[j]
  BY <1>4, <1>5, <1>6, <1>7, <1>8 DEF m
<1>10. ASSUME NEW i \in DOMAIN u, NEW j \in DOMAIN u, i < j PROVE to[i] < to[j]
  <2>1. i \in 1..n
    BY <1>3, <1>5, <1>10
  <2>2. CASE j = n + 1
    <3>1. from[i] < k + 1
      BY <1>8, <2>1
    <3>2. QED
      BY <1>6, <2>1, <2>2, <3>1
  <2>3. CASE j \in 1..n
    BY <1>1, <1>3, <1>6, <1>10, <2>1, <2>3 DEF OthersTraced
  <2>4. QED
    BY <1>5, <1>7, <2>2, <2>3
<1>11. ASSUME NEW i \in 1..(k + 1), M[i].role # "system" PROVE \E j \in DOMAIN u : to[j] = i
  <2>1. CASE i = k + 1
    BY <1>3, <1>5, <1>6, <2>1
  <2>2. CASE i # k + 1
    <3>1. i \in 1..k
      BY <2>2
    <3>2. PICK j \in DOMAIN others : from[j] = i
      BY <1>1, <1>11, <3>1 DEF OthersTraced
    <3>3. QED
      BY <1>3, <1>5, <1>6, <3>2
  <2>3. QED
    BY <2>1, <2>2
<1>12. OthersTraced(M, k + 1, u, to)
  BY <1>5, <1>9, <1>10, <1>11 DEF OthersTraced
<1>13. QED
  BY <1>12 DEF u, m

LEMMA OthersTracedBy ==
  ASSUME NEW M, NEW k \in Nat, M[k + 1].role = "system", NEW others,
         \E from : OthersTraced(M, k, others, from)
  PROVE  \E from : OthersTraced(M, k + 1, others, from)
<1>1. PICK from : OthersTraced(M, k, others, from)
  OBVIOUS
<1>2. \A i \in 1..(k + 1) : M[i].role # "system" => i \in 1..k
  OBVIOUS
<1>3. 1..k \subseteq 1..(k + 1)
  OBVIOUS
<1>4. OthersTraced(M, k + 1, others, from)
  BY <1>1, <1>2, <1>3 DEF OthersTraced
<1>5. QED
  BY <1>4

\* Once all messages are read, everything of the system is in the texts and
\* everything else in the other messages.
LEMMA AllIsTaken ==
  ASSUME NEW d, IsConversation(d)
  PROVE  LET n == Len(d.messages)
             taken == Taking(SystemText(d), d.messages)[n]
         IN /\ \E from : TextsTraced(d, n, taken.texts, from)
            /\ \E from : OthersTraced(d.messages, n, taken.others, from)
<1> DEFINE M == d.messages
           n == Len(M)
           f == Taking(SystemText(d), M)
           Good(k) == /\ DOMAIN f[k] = {"texts", "others"}
                      /\ \E from : TextsTraced(d, k, f[k].texts, from)
                      /\ \E from : OthersTraced(M, k, f[k].others, from)
           S == {k \in 0..n : Good(k)}
<1>1. n \in Nat /\ DOMAIN M = 1..n
  BY PlacesOf
<1>2. /\ f[0] = [texts |-> SystemText(d), others |-> <<>>]
      /\ \A k \in 0..(n - 1) : f[k + 1] = Take(f[k], M[k + 1])
  <2>1. Len(M) \in Nat
    BY <1>1
  <2> HIDE DEF M, Good
  <2>2. QED
    BY <2>1, TakingIsTaken
<1> HIDE DEF f, n
<1>3. Good(0)
  <2>1. \E from : TextsTraced(d, 0, SystemText(d), from)
    BY TextsTracedInit
  <2>2. OthersTraced(M, 0, <<>>, <<>>)
    <3>1. <<>> \in Seq(Range(<<>>)) /\ DOMAIN <<>> = {} /\ 1..0 = {}
      OBVIOUS
    <3>2. QED
      BY <3>1 DEF OthersTraced
  <2>3. f[0].texts = SystemText(d) /\ f[0].others = <<>> /\ DOMAIN f[0] = {"texts", "others"}
    BY <1>2
  <2>4. QED
    BY <2>1, <2>2, <2>3
<1>4. ASSUME NEW k \in 0..(n - 1), Good(k) PROVE Good(k + 1)
  <2>1. k \in Nat /\ k + 1 \in DOMAIN M
    BY <1>1
  <2>2. f[k + 1] = Take(f[k], M[k + 1])
    BY <1>2
  <2>3. CASE M[k + 1].role = "system"
    <3>1. f[k + 1] = [f[k] EXCEPT !.texts = f[k].texts \o M[k + 1].text]
      BY <2>2, <2>3 DEF Take
    <3>2. /\ DOMAIN f[k + 1] = {"texts", "others"}
          /\ f[k + 1].texts = f[k].texts \o M[k + 1].text
          /\ f[k + 1].others = f[k].others
      BY <1>4, <3>1
    <3>3. \E from : TextsTraced(d, k + 1, f[k].texts \o M[k + 1].text, from)
      BY <1>4, <2>1, <2>3, TextsTracedOn
    <3>4. \E from : OthersTraced(M, k + 1, f[k].others, from)
      <4> HIDE DEF M
      <4>1. QED
        BY <1>4, <2>1, <2>3, OthersTracedBy
    <3>5. QED
      BY <3>2, <3>3, <3>4
  <2>4. CASE M[k + 1].role # "system"
    <3>1. f[k + 1] = [f[k] EXCEPT !.others = Append(f[k].others, M[k + 1])]
      BY <2>2, <2>4 DEF Take
    <3>2. /\ DOMAIN f[k + 1] = {"texts", "others"}
          /\ f[k + 1].texts = f[k].texts
          /\ f[k + 1].others = Append(f[k].others, M[k + 1])
      BY <1>4, <3>1
    <3>3. \E from : TextsTraced(d, k + 1, f[k].texts, from)
      BY <1>4, <2>1, <2>4, TextsTracedBy
    <3>4. \E from : OthersTraced(M, k + 1, Append(f[k].others, M[k + 1]), from)
      <4> HIDE DEF M
      <4>1. QED
        BY <1>4, <2>1, <2>4, OthersTracedOn
    <3>5. QED
      BY <3>2, <3>3, <3>4
  <2>5. QED
    BY <2>3, <2>4
<1>5. n \in S
  <2>1. 0 \in S
    BY <1>1, <1>3
  <2>2. \A k \in 0..(n - 1) : k \in S => k + 1 \in S
    <3> HIDE DEF Good
    <3>1. QED
      BY <1>1, <1>4
  <2> HIDE DEF S
  <2>3. \A k \in 0..n : k \in S
    BY <1>1, <2>1, <2>2, PassedOn
  <2>4. QED
    BY <1>1, <2>3
<1>6. QED
  BY <1>5 DEF f, n

\* The hook's new place for what a wrapper client's system says is in front of all else,
\* and nothing is left that the system says.
LEMMA MoveSystemMoves ==
  ASSUME NoneIsNoDictionary, NEW d, d # None, Get(d, "messages") # None, IsConversation(d)
  PROVE  /\ Moves(d, MoveSystem(d))
         /\ Client(d) \in SYSTEM_AS_USER_CLIENTS =>
              \A p \in Places(MoveSystem(d)) : RoleAt(MoveSystem(d), p) # "system"
<1> DEFINE M == Get(d, "messages")
           K == Len(M)
           taken == Taking(SystemText(d), M)[K]
           texts == taken.texts
           others == taken.others
           rest == [k \in DOMAIN d \ {"system"} |-> d[k]]
           new == [role |-> "user", text |-> texts]
           N == IF texts = <<>> THEN others ELSE <<new>> \o others
           e == Put(rest, "messages", N)
<1>1. CASE Client(d) \notin SYSTEM_AS_USER_CLIENTS
  <2>1. MoveSystem(d) = d
    BY <1>1 DEF MoveSystem
  <2>2. QED
    BY <1>1, <2>1, MovesItself
<1>2. CASE Client(d) \in SYSTEM_AS_USER_CLIENTS
  <2>1. d.messages = M
    BY DEF Get
  <2>2. MoveSystem(d) = e
    <3>1. MoveSystem(d) = IF Client(d) \notin SYSTEM_AS_USER_CLIENTS \/ M = None THEN d ELSE e
      BY DEF MoveSystem
    <3> HIDE DEF e
    <3>2. QED
      BY <1>2, <3>1
  <2>3. /\ e # None /\ "messages" \in DOMAIN e /\ e["messages"] = N
        /\ AllBut({"messages"}, rest, e)
    <3> HIDE DEF N, rest
    <3>1. QED
      BY PutGives
  <2>4. "system" \notin DOMAIN e
    <3>1. "system" \notin DOMAIN rest
      OBVIOUS
    <3> HIDE DEF rest, e
    <3>2. QED
      BY <2>3, <3>1 DEF AllBut
  <2> HIDE DEF e
  <2>5. SystemText(e) = <<>> /\ Get(e, "messages") = N /\ e.messages = N
    BY <2>3, <2>4 DEF SystemText, Get
  <2>6. /\ K \in Nat /\ DOMAIN M = 1..K
        /\ \A m \in DOMAIN M : /\ IsMessage(M[m])
                               /\ \A i : /\ TextAt(d, <<m, i>>) = M[m].text[i]
                                         /\ RoleAt(d, <<m, i>>) = M[m].role
                               /\ \A i \in DOMAIN M[m].text : <<m, i>> \in Places(d)
        /\ \A x \in Places(d) : \/ RoleAt(d, x) = "system" /\ x[1] = 0
                                \/ \E m \in DOMAIN M : \E i \in DOMAIN M[m].text : x = <<m, i>>
    <3>1. /\ K \in Nat /\ DOMAIN M = 1..K
          /\ \A m \in DOMAIN M : /\ IsMessage(M[m])
                                 /\ \A i : /\ TextAt(d, <<m, i>>) = M[m].text[i]
                                           /\ RoleAt(d, <<m, i>>) = M[m].role
                                 /\ \A i \in DOMAIN M[m].text : <<m, i>> \in Places(d)
      BY <2>1, PlacesOf
    <3>2. \A x \in Places(d) : \/ RoleAt(d, x) = "system" /\ x[1] = 0
                              \/ \E m \in DOMAIN M : \E i \in DOMAIN M[m].text : x = <<m, i>>
      <4>1. TAKE x \in Places(d)
      <4>2. \A i : x = <<0, i>> => RoleAt(d, x) = "system" /\ x[1] = 0
        BY PlacesOf
      <4>3. QED
        BY <2>1, <4>2, PlacesOf
    <3>3. QED
      BY <3>1, <3>2
  <2>7. /\ \E from : TextsTraced(d, K, texts, from)
        /\ \E from : OthersTraced(M, K, others, from)
    BY <2>1, AllIsTaken
  <2>8. PICK tb : TextsTraced(d, K, texts, tb)
    BY <2>7
  <2>9. PICK ob : OthersTraced(M, K, others, ob)
    BY <2>7
  <2> HIDE DEF taken
  <2> DEFINE n0 == Len(others)
             s == IF texts = <<>> THEN 0 ELSE 1
             back == [p \in Places(e) |-> IF p[1] <= s THEN tb[p[2]] ELSE <<ob[p[1] - s], p[2]>>]
  <2>10. /\ texts \in Seq(Range(texts)) /\ Len(texts) \in Nat /\ DOMAIN texts = 1..Len(texts)
         /\ others \in Seq(Range(others)) /\ n0 \in Nat /\ DOMAIN others = 1..n0
    BY <2>8, <2>9 DEF TextsTraced, OthersTraced
  <2>11. /\ s \in {0, 1} /\ (s = 0 => DOMAIN texts = {})
         /\ N \in Seq(Range(N)) /\ DOMAIN N = 1..(n0 + s)
         /\ \A n \in DOMAIN N : /\ n <= s => N[n] = new
                                /\ ~(n <= s) => n - s \in 1..n0 /\ N[n] = others[n - s]
         /\ \A j \in 1..n0 : j + s \in DOMAIN N /\ N[j + s] = others[j] /\ ~(j + s <= s)
                            /\ (j + s) - s = j
    <3>1. CASE texts = <<>>
      <4>1. N = others /\ s = 0
        BY <3>1
      <4> HIDE DEF N, s
      <4>2. QED
        BY <2>10, <3>1, <4>1
    <3>2. CASE texts # <<>>
      <4>1. N = <<new>> \o others /\ s = 1
        BY <3>2
      <4>2. InFront(new, others, N)
        <5> HIDE DEF new, N, others
        <5>1. QED
          BY <2>10, <4>1, Prepended
      <4> HIDE DEF N, s
      <4>3. QED
        BY <2>10, <4>1, <4>2 DEF InFront
    <3>3. QED
      BY <3>1, <3>2
  <2> HIDE DEF N, s
  <2>12. \A p : p \in Places(e) <=> \E n \in DOMAIN N : \E i \in DOMAIN N[n].text : p = <<n, i>>
    BY <2>5 DEF Places
  <2>13. \A n \in DOMAIN N : \A i : /\ TextAt(e, <<n, i>>) = N[n].text[i]
                                   /\ RoleAt(e, <<n, i>>) = N[n].role
    BY <2>5, <2>10, <2>11 DEF TextAt, RoleAt
  <2>14. \A n : \A i : <<n, i>> \in Places(e) =>
           back[<<n, i>>] = IF n <= s THEN tb[i] ELSE <<ob[n - s], i>>
    <3>1. \A p \in Places(e) : back[p] = IF p[1] <= s THEN tb[p[2]] ELSE <<ob[p[1] - s], p[2]>>
      OBVIOUS
    <3> HIDE DEF back
    <3>2. QED
      BY <3>1
  <2> HIDE DEF back
  <2>15. /\ \A i \in DOMAIN texts : /\ tb[i] \in Places(d) /\ RoleAt(d, tb[i]) = "system"
                                    /\ TextAt(d, tb[i]) = texts[i]
         /\ \A i, j \in DOMAIN texts : tb[i] = tb[j] => i = j
         /\ \A x \in Places(d) : RoleAt(d, x) = "system" => \E i \in DOMAIN texts : tb[i] = x
    <3>1. \A x \in Places(d) : x[1] <= K
      <4>1. TAKE x \in Places(d)
      <4>2. x[1] = 0 \/ x[1] \in 1..K
        BY <2>6
      <4>3. QED
        BY <2>6, <4>2
    <3>2. QED
      BY <2>8, <3>1 DEF TextsTraced
  <2>16. /\ \A j \in 1..n0 : /\ ob[j] \in DOMAIN M /\ ob[j] \in Nat
                             /\ M[ob[j]].role # "system" /\ M[ob[j]] = others[j]
         /\ \A i, j \in 1..n0 : i < j => ob[i] < ob[j]
         /\ \A m \in DOMAIN M : M[m].role # "system" => \E j \in 1..n0 : ob[j] = m
    <3> HIDE DEF n0, others, M
    <3>1. /\ \A j \in 1..n0 : ob[j] \in 1..K /\ M[ob[j]].role # "system" /\ M[ob[j]] = others[j]
          /\ \A i, j \in 1..n0 : i < j => ob[i] < ob[j]
          /\ \A m \in 1..K : M[m].role # "system" => \E j \in 1..n0 : ob[j] = m
      BY <2>9, <2>10 DEF OthersTraced
    <3>2. \A m \in 1..K : m \in Nat
      BY <2>6
    <3>3. QED
      BY <2>6, <3>1, <3>2
  <2> DEFINE Goes(p, n, i) ==
               /\ p = <<n, i>> /\ n \in Nat
               /\ n <= s =>
                    /\ i \in DOMAIN texts /\ back[p] = tb[i] /\ TextAt(e, p) = texts[i]
                    /\ RoleAt(e, p) = "user"
               /\ ~(n <= s) =>
                    /\ n - s \in 1..n0 /\ i \in DOMAIN M[ob[n - s]].text
                    /\ back[p] = <<ob[n - s], i>> /\ TextAt(e, p) = M[ob[n - s]].text[i]
                    /\ RoleAt(e, p) = M[ob[n - s]].role
  <2>17. ASSUME NEW p \in Places(e) PROVE \E n, i : Goes(p, n, i)
    <3>1. PICK n \in DOMAIN N : \E i \in DOMAIN N[n].text : p = <<n, i>>
      BY <2>12
    <3>2. PICK i \in DOMAIN N[n].text : p = <<n, i>>
      BY <3>1
    <3>3. n \in Nat
      BY <2>10, <2>11
    <3>4. /\ back[p] = IF n <= s THEN tb[i] ELSE <<ob[n - s], i>>
          /\ TextAt(e, p) = N[n].text[i] /\ RoleAt(e, p) = N[n].role
      BY <2>13, <2>14, <3>2
    <3>5. n <= s => N[n].text = texts /\ N[n].role = "user"
      BY <2>11
    <3>6. ~(n <= s) => n - s \in 1..n0 /\ N[n] = M[ob[n - s]]
      BY <2>11, <2>16
    <3>7. Goes(p, n, i)
      BY <3>2, <3>3, <3>4, <3>5, <3>6
    <3>8. QED
      BY <3>7
  <2>18. ASSUME NEW p \in Places(e)
         PROVE  /\ back[p] \in Places(d) /\ TextAt(e, p) = TextAt(d, back[p])
                /\ RoleAt(d, back[p]) = "user" => RoleAt(e, p) = "user"
                /\ RoleAt(e, p) # "system"
    <3>1. PICK n, i : Goes(p, n, i)
      BY <2>17
    <3>2. CASE n <= s
      BY <2>15, <3>1, <3>2
    <3>3. CASE ~(n <= s)
      <4> DEFINE m == ob[n - s]
      <4>1. m \in DOMAIN M /\ M[m].role # "system"
        BY <2>16, <3>1, <3>3
      <4>2. /\ i \in DOMAIN M[m].text /\ back[p] = <<m, i>> /\ TextAt(e, p) = M[m].text[i]
            /\ RoleAt(e, p) = M[m].role
        BY <3>1, <3>3
      <4> HIDE DEF m
      <4>3. QED
        BY <2>6, <4>1, <4>2
    <3>4. QED
      BY <3>2, <3>3
  <2>19. ASSUME NEW x \in Places(d) PROVE \E p \in Places(e) : back[p] = x
    <3>1. CASE RoleAt(d, x) = "system"
      <4>1. PICK i \in DOMAIN texts : tb[i] = x
        BY <2>15, <3>1
      <4>2. s = 1 /\ 1 <= s
        BY <2>11, <4>1
      <4>3. 1 \in DOMAIN N /\ N[1] = new
        BY <2>10, <2>11, <4>2
      <4>4. <<1, i>> \in Places(e)
        BY <2>12, <4>3
      <4>5. QED
        BY <2>14, <4>1, <4>2, <4>4
    <3>2. CASE RoleAt(d, x) # "system"
      <4>1. PICK m \in DOMAIN M : \E i \in DOMAIN M[m].text : x = <<m, i>>
        BY <2>6, <3>2
      <4>2. PICK i \in DOMAIN M[m].text : x = <<m, i>>
        BY <4>1
      <4>3. M[m].role # "system"
        BY <2>6, <3>2, <4>2
      <4>4. PICK j \in 1..n0 : ob[j] = m
        BY <2>16, <4>3
      <4>5. j + s \in DOMAIN N /\ N[j + s] = M[m] /\ ~(j + s <= s) /\ (j + s) - s = j
        BY <2>11, <2>16, <4>4
      <4>6. <<j + s, i>> \in Places(e)
        BY <2>12, <4>5
      <4>7. back[<<j + s, i>>] = <<ob[(j + s) - s], i>>
        BY <2>14, <4>5, <4>6
      <4>8. QED
        BY <4>2, <4>4, <4>5, <4>6, <4>7
    <3>3. QED
      BY <3>1, <3>2
  <2>20. ASSUME NEW p \in Places(e), NEW n, NEW i, Goes(p, n, i)
         PROVE  /\ n <= s => n = 1 /\ RoleAt(d, back[p]) = "system"
                /\ ~(n <= s) => RoleAt(d, back[p]) # "system"
    <3>1. CASE n <= s
      <4>1. n \in DOMAIN N
        BY <2>12, <2>20
      <4>2. n \in 1..(n0 + s)
        BY <2>11, <4>1
      <4>3. n = 1
        BY <2>10, <2>11, <3>1, <4>2
      <4>4. QED
        BY <2>15, <2>20, <3>1, <4>3
    <3>2. CASE ~(n <= s)
      <4> DEFINE m == ob[n - s]
      <4>1. m \in DOMAIN M /\ M[m].role # "system"
        BY <2>16, <2>20, <3>2
      <4>2. back[p] = <<m, i>>
        BY <2>20, <3>2
      <4> HIDE DEF m
      <4>3. QED
        BY <2>6, <3>2, <4>1, <4>2
    <3>3. QED
      BY <3>1, <3>2
  <2>21. \A i, j \in 1..n0 : (ob[i] < ob[j] => i < j) /\ (ob[i] = ob[j] => i = j)
    <3>1. TAKE i, j \in 1..n0
    <3>2. ob[i] \in Nat /\ ob[j] \in Nat
      BY <2>16
    <3>3. i \in Nat /\ j \in Nat
      BY <2>10
    <3>4. (i < j => ob[i] < ob[j]) /\ (j < i => ob[j] < ob[i])
      BY <2>16
    <3>5. i < j \/ i = j \/ j < i
      BY <3>3
    <3>6. QED
      BY <3>2, <3>3, <3>4, <3>5
  <2>22. ASSUME NEW p \in Places(e), NEW q \in Places(e), back[p] = back[q] PROVE p = q
    <3>1. PICK n, i : Goes(p, n, i)
      BY <2>17
    <3>2. PICK k, j : Goes(q, k, j)
      BY <2>17
    <3>3. n <= s <=> k <= s
      <4>1. RoleAt(d, back[p]) = "system" <=> n <= s
        <5> HIDE DEF Goes
        <5>1. QED
          BY <2>20, <3>1
      <4>2. RoleAt(d, back[q]) = "system" <=> k <= s
        <5> HIDE DEF Goes
        <5>1. QED
          BY <2>20, <3>2
      <4>3. QED
        BY <2>22, <4>1, <4>2
    <3>4. CASE n <= s /\ k <= s
      <4>1. i = j
        BY <2>15, <2>22, <3>1, <3>2, <3>4
      <4>2. n = 1 /\ k = 1
        <5> HIDE DEF Goes
        <5>1. QED
          BY <2>20, <3>1, <3>2, <3>4
      <4>3. QED
        BY <3>1, <3>2, <4>1, <4>2
    <3>5. CASE ~(n <= s) /\ ~(k <= s)
      <4>1. back[p] = <<ob[n - s], i>> /\ back[q] = <<ob[k - s], j>>
            /\ n - s \in 1..n0 /\ k - s \in 1..n0
        BY <3>1, <3>2, <3>5
      <4>2. <<ob[n - s], i>> = <<ob[k - s], j>>
        BY <2>22, <4>1
      <4>3. ob[n - s] = ob[k - s] /\ i = j
        BY <4>2
      <4>4. n - s = k - s
        BY <2>21, <4>1, <4>3
      <4>5. n = k
        BY <2>11, <3>1, <3>2, <4>4
      <4>6. QED
        BY <3>1, <3>2, <4>3, <4>5
    <3>6. QED
      BY <3>3, <3>4, <3>5
  <2>23. ASSUME NEW p \in Places(e), NEW q \in Places(e),
                RoleAt(d, back[q]) = "user", Before(back[p], back[q])
         PROVE  Before(p, q)
    <3>1. PICK n, i : Goes(p, n, i)
      BY <2>17
    <3>2. PICK k, j : Goes(q, k, j)
      BY <2>17
    <3>3. ~(k <= s)
      <4> HIDE DEF Goes
      <4>1. QED
        BY <2>20, <2>23, <3>2
    <3>4. n \in Nat /\ k \in Nat /\ s \in Nat
      BY <2>11, <3>1, <3>2
    <3>5. p = <<n, i>> /\ q = <<k, j>> /\ k - s \in 1..n0 /\ back[q] = <<ob[k - s], j>>
      BY <3>1, <3>2, <3>3
    <3>6. CASE n <= s
      <4>1. n < k
        BY <3>3, <3>4, <3>6
      <4>2. QED
        BY <3>5, <4>1 DEF Before
    <3>7. CASE ~(n <= s)
      <4>1. n - s \in 1..n0 /\ back[p] = <<ob[n - s], i>>
        BY <3>1, <3>7
      <4>2. ob[n - s] < ob[k - s] \/ (ob[n - s] = ob[k - s] /\ i < j)
        BY <2>23, <3>5, <4>1 DEF Before
      <4>3. n - s < k - s \/ (n - s = k - s /\ i < j)
        BY <2>21, <3>5, <4>1, <4>2
      <4>4. n < k \/ (n = k /\ i < j)
        BY <3>4, <4>3
      <4>5. QED
        BY <3>5, <4>4 DEF Before
    <3>8. QED
      BY <3>6, <3>7
  <2>24. \A m \in Range(N) : IsMessage(m)
    <3>1. \A n \in DOMAIN N : IsMessage(N[n])
      <4>1. IsMessage(new)
        BY <2>10 DEF IsMessage
      <4>2. \A j \in 1..n0 : IsMessage(others[j])
        <5>1. TAKE j \in 1..n0
        <5>2. ob[j] \in DOMAIN M /\ M[ob[j]] = others[j]
          BY <2>16
        <5>3. IsMessage(M[ob[j]])
          BY <2>6, <5>2
        <5>4. QED
          BY <5>2, <5>3
      <4>3. QED
        BY <2>11, <4>1, <4>2
    <3>2. QED
      BY <3>1 DEF Range
  <2>25. N # None
    <3>1. N = [n \in DOMAIN N |-> N[n]]
      BY <2>11
    <3>2. QED
      BY <3>1, FunctionIsNotNone
  <2>26. <<>> \in Seq(Range(<<>>))
    OBVIOUS
  <2>27. Moves(d, e)
    <3>1. e.messages \in Seq(Range(e.messages)) /\ \A m \in Range(e.messages) : IsMessage(m)
      BY <2>5, <2>11, <2>24
    <3>2. Get(e, "messages") # None /\ SystemText(e) \in Seq(Range(SystemText(e)))
      BY <2>5, <2>25, <2>26
    <3>3. QED
      BY <2>18, <2>19, <2>22, <2>23, <3>1, <3>2, GoesBack
  <2>28. QED
    BY <2>2, <2>18, <2>27
<1>3. QED
  BY <1>1, <1>2

-----------------------------------------------------------------------------
(* The preparation of a request: its texts *)

SaidInv ==
  /\ stage = "arriving" => data = request.data
  /\ Get(request.data, "messages") # None =>
       /\ Moves(request.data, data)
       /\ Prepared /\ Client(data) \in SYSTEM_AS_USER_CLIENTS =>
            \A p \in Places(data) : RoleAt(data, p) # "system"

LEMMA SaidInvInit == PreparationInit => SaidInv
<1> SUFFICES ASSUME PreparationInit PROVE SaidInv
  OBVIOUS
<1>1. request \in Requests /\ data = request.data /\ stage = "arriving"
  BY DEF PreparationInit
<1>2. Get(request.data, "messages") # None => Moves(request.data, request.data)
  BY <1>1, PreparationAssumption, MovesItself
<1>3. ~Prepared
  BY <1>1 DEF Prepared
<1>4. QED
  BY <1>1, <1>2, <1>3 DEF SaidInv

\* Keys that hold neither the messages nor the system text hold nothing that is said.
LEMMA SaysAlike ==
  ASSUME NEW keys, NEW d, NEW e, d # None, e # None, AllBut(keys, d, e),
         "messages" \notin keys, "system" \notin keys
  PROVE  Get(e, "messages") = Get(d, "messages") /\ SystemText(e) = SystemText(d)
<1>1. Alike(keys, d, e)
  BY AllButIsAlike
<1>2. Get(e, "messages") = Get(d, "messages") /\ Get(e, "system") = Get(d, "system")
  BY <1>1 DEF Alike
<1>3. \A x : SystemText(x) = IF Get(x, "system") = None THEN <<>> ELSE Get(x, "system")
  BY DEF SystemText, Get
<1>4. QED
  BY <1>2, <1>3

LEMMA HookSays ==
  ASSUME NoneIsNoDictionary, PreparationInv, SaidInv, PreCallHook PROVE SaidInv'
<1> DEFINE keyed == EnsureRequestKey(data)
           moved == MoveSystem(keyed)
           responses == Get(moved, "input") # None /\ Get(moved, "messages") \in {None, <<>>}
<1>1. PICK saves \in BOOLEAN :
        data' = IF responses THEN PrepareResponses(moved, Model, saves) ELSE moved
  BY DEF PreCallHook
<1>2. stage' = "prepared" /\ request' = request
  BY DEF PreCallHook
<1>3. data # None
  BY DEF PreparationInv
<1>4. SUFFICES ASSUME Get(request.data, "messages") # None
               PROVE  /\ Moves(request.data, data')
                      /\ Client(data') \in SYSTEM_AS_USER_CLIENTS =>
                           \A p \in Places(data') : RoleAt(data', p) # "system"
  BY <1>2 DEF SaidInv
<1>5. Moves(request.data, data)
  BY <1>4 DEF SaidInv
<1>6. Keyed(keyed) /\ AllBut({"metadata"}, data, keyed)
  BY EnsureRequestKeyGives
<1> HIDE DEF keyed
<1>7. Moves(request.data, keyed)
  <2>1. Get(keyed, "messages") = Get(data, "messages") /\ SystemText(keyed) = SystemText(data)
    BY <1>3, <1>6, SaysAlike DEF Keyed
  <2>2. QED
    BY <1>5, <2>1, SameSaid
<1>8. /\ Moves(keyed, moved)
      /\ Client(keyed) \in SYSTEM_AS_USER_CLIENTS =>
           \A p \in Places(moved) : RoleAt(moved, p) # "system"
  BY <1>6, <1>7, MoveSystemMoves DEF Keyed, Moves
<1>9. moved # None /\ AllBut({"system", "messages"}, keyed, moved)
  BY <1>6, MoveSystemGives DEF Keyed
<1> HIDE DEF moved
<1>10. SameClient(keyed, moved)
  BY <1>6, <1>9, SameClientElsewhere
<1>11. Moves(request.data, moved)
  BY <1>7, <1>8, MovesOn
<1>12. /\ SameClient(keyed, data')
       /\ Get(data', "messages") = Get(moved, "messages") /\ SystemText(data') = SystemText(moved)
  <2>1. CASE ~responses
    BY <1>1, <1>10, <2>1
  <2>2. CASE responses
    <3> DEFINE keys == {"prompt_cache_key", "extra_headers", "extra_body", "tools",
                        "litellm_session_id", "metadata", "litellm_params"}
    <3>1. Keyed(moved) /\ moved # None
      BY <1>9, <1>10 DEF SameClient
    <3>2. data' = PrepareResponses(moved, Model, saves)
      BY <1>1, <2>2
    <3>3. SameClient(moved, data') /\ AllBut(keys, moved, data')
      BY <3>1, <3>2, PreparedGives
    <3>4. data' # None /\ "messages" \notin keys /\ "system" \notin keys
      BY <3>3 DEF SameClient, Keyed
    <3> HIDE DEF keys
    <3>5. QED
      BY <1>10, <3>1, <3>3, <3>4, SaysAlike, SameClientIsTransitive
  <2>3. QED
    BY <2>1, <2>2
<1>13. Client(data') = Client(keyed)
  BY <1>12, ClientIsSame
<1>14. /\ Moves(request.data, data') /\ Places(data') = Places(moved)
       /\ \A p \in Places(moved) : RoleAt(data', p) = RoleAt(moved, p)
  BY <1>11, <1>12, SameSaid
<1>15. QED
  BY <1>8, <1>13, <1>14

LEMMA SaidInvStep ==
  ASSUME NoneIsNoDictionary, PreparationInv, SaidInv, [PreparationNext]_preparation
  PROVE  SaidInv'
<1>1. CASE Arrive
  <2>1. /\ stage = "arriving" /\ stage' = "received" /\ request' = request
        /\ data' = data \/ data' = SystemAsUser(data)
    BY <1>1 DEF Arrive
  <2>2. data # None
    BY DEF PreparationInv
  <2>3. ASSUME Get(request.data, "messages") # None PROVE Moves(request.data, data')
    <3>1. Moves(request.data, data)
      BY <2>3 DEF SaidInv
    <3>2. Moves(data, SystemAsUser(data))
      BY <2>2, <3>1, SystemAsUserMoves DEF Moves
    <3>3. QED
      BY <2>1, <3>1, <3>2, MovesOn
  <2>4. ~Prepared'
    BY <2>1 DEF Prepared
  <2>5. QED
    BY <2>1, <2>3, <2>4 DEF SaidInv
<1>2. CASE PreCallHook
  BY <1>2, HookSays
<1>3. CASE Deploy
  <2>1. /\ stage \in {"prepared", "deployed"} /\ stage' = "deployed"
        /\ request' = request /\ data' = data
    BY <1>3 DEF Deploy
  <2>2. Prepared
    BY <2>1 DEF Prepared
  <2>3. QED
    BY <2>1, <2>2 DEF SaidInv
<1>4. CASE UNCHANGED preparation
  <2>1. stage' = stage /\ request' = request /\ data' = data
    BY <1>4 DEF preparation
  <2>2. QED
    BY <2>1 DEF SaidInv, Prepared
<1>5. QED
  BY <1>1, <1>2, <1>3, <1>4 DEF PreparationNext

LEMMA SaidInvSays == ASSUME SaidInv PROVE TextsAreSaidOnce
  BY DEF SaidInv, TextsAreSaidOnce, Moves, IsConversation

\* Whatever clients send and operators set, however often the hook runs and a deployment is
\* tried, every text is said once and in its order, one key names the request, a session
\* follows its prompt cache key, tools keep their properties, and the fields the client set
\* reach the provider as it set them.
THEOREM ProviderAlwaysSeesWhatWasAsked ==
  ASSUME NoneIsNoDictionary PROVE PreparationSpec => []ProviderSeesWhatWasAsked
<1>1. PreparationInit => PreparationInv /\ SaidInv
  BY PreparationInvInit, SaidInvInit
<1>2. PreparationInv /\ SaidInv /\ [PreparationNext]_preparation => (PreparationInv /\ SaidInv)'
  BY PreparationInvStep, SaidInvStep
<1>3. PreparationInv /\ SaidInv => ProviderSeesWhatWasAsked
  BY PreparationInvSays, SaidInvSays DEF ProviderSeesWhatWasAsked
<1>4. QED
  BY <1>1, <1>2, <1>3, PTL DEF PreparationSpec

=============================================================================
