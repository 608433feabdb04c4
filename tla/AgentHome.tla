----------------------------- MODULE AgentHome ------------------------------
(***************************************************************************)
(* The managed home of one agent (agent_cli/managed_home.py), as the       *)
(* launches of its wrapper change it (main of bin/codex-litellm): each     *)
(* loads the saved preferences, writes the two config files, saves what it *)
(* resolved, links the native entries one by one and becomes the agent.    *)
(* Nothing locks the home: launches overlap at every file operation, may   *)
(* be killed between any two, and run beside the agents of earlier ones,   *)
(* which write an entry in place or replace it.                            *)
(*                                                                         *)
(* What users and agents write has a number as its content, fresh at each *)
(* write and at most 0 for what was there before; what a launch writes to  *)
(* a config file is the settings it resolved.  A launch that is refused    *)
(* writes nothing and is not a step.  The override that lets the managed   *)
(* home be the native one is left out.  kept, discarded, present, torn,    *)
(* chosen, lost and a launch's alone, since and looked are history.        *)
(***************************************************************************)
EXTENDS PythonValues, FiniteSets

CONSTANTS Wrappers,  \* the launches that may be alive at the same time
          Entries,   \* the names in the native home, the config files among them
          Excluded,  \* those that are never linked
          Keys,      \* the settings a wrapper saves
          Launches,  \* [apiKey, needsKey, urls, profile, anyProfile, shared, catalog, shell,
                     \*  dotenv, native, links]
          Homes,     \* what the managed home may hold: [Entries -> [kind, content]]
          Fallback,  \* the default of each setting
          Allowed,   \* the values each setting may have
          MaxLaunches,
          MaxWrites

VARIABLES native, managed, backups, preferences, wrapper, launches, writes,
          kept, discarded, present, torn, chosen, lost

home == <<native, managed, backups, preferences, wrapper, launches, writes,
          kept, discarded, present, torn, chosen, lost>>

history == <<kept, discarded, present, torn, chosen, lost>>

CONFIG == "config.toml"
PROFILE == "litellm.config.toml"

\* Mutant of Linkable: the config files are linked like any other entry.
LinkableAll == Entries

Linkable == Entries \ Excluded

Idle == [at |-> "idle", launch |-> None, resolved |-> None, todo |-> {}, entry |-> None,
         alone |-> TRUE, since |-> 0, looked |-> 0, runs |-> None]

Absent == [kind |-> "none", content |-> None]
Link == [kind |-> "link", content |-> None]
File(content) == [kind |-> "file", content |-> content]

\* A config file that a launch has written, or begun to (None).
Config(settings) == [kind |-> "config", content |-> settings]

Items == {Absent, Link} \cup [kind : {"foreign"}, content : {None}] \cup [kind : {"file"}, content : Int]

\* No excluded name is linked yet, and the config files are files if they are there.
\* The native home may as well not have them: excluded names are passed over.
ASSUME HomesAssumption ==
  /\ {CONFIG, PROFILE} \subseteq Entries \cap Excluded
  /\ \A h \in Homes : /\ h \in [Entries -> Items]
                      /\ \A e \in Entries \cap Excluded : h[e].kind # "link"
                      /\ \A e \in {CONFIG, PROFILE} : h[e].kind \in {"none", "file"}

Contents(item) == IF item.kind = "file" THEN {item.content} ELSE {}

\* What is read through a name of the managed home.
Behind(e) == IF managed[e].kind = "link" THEN native[e] ELSE managed[e]

\* A write through a name goes to the file behind its link.
Through(e, item) ==
  IF managed[e].kind = "link"
  THEN native' = [native EXCEPT ![e] = item] /\ UNCHANGED managed
  ELSE managed' = [managed EXCEPT ![e] = item] /\ UNCHANGED native

\* The name is there, now and from now on.
Appears(e) == present' = present \cup {e} /\ torn' = torn \ {e}

HomeInit ==
  /\ native = [e \in Entries |-> File(0)]
  /\ managed \in Homes
  /\ backups = [e \in Entries |-> {}]
  /\ preferences = [k \in Keys |-> None]
  /\ wrapper = [w \in Wrappers |-> Idle]
  /\ launches = 0
  /\ writes = 1
  /\ kept = [e \in Entries |-> {0} \cup Contents(managed[e])]
  /\ discarded = [e \in Entries |-> {}]
  /\ present = {e \in Entries : managed[e].kind # "none"}
  /\ torn = {}
  /\ chosen = [k \in Keys |-> None]
  /\ lost = {}

-----------------------------------------------------------------------------
(* A launch *)

Launching(w) == wrapper[w].at \notin {"idle", "agent"}

\* An explicit choice, the saved one, the .env file's, the native config's, the
\* default.
PreferenceValue(launch, saved, k) ==
  Or(<<launch.shell[k], saved[k], launch.dotenv[k], launch.native[k], Fallback[k]>>)

Resolved(launch, saved) == [k \in Keys |-> PreferenceValue(launch, saved, k)]

\* Every refusal comes before the first write.
Accepted(launch, resolved) ==
  /\ launch.apiKey \/ ~launch.needsKey
  /\ launch.urls
  /\ launch.profile \in {None, "litellm"} \/ launch.anyProfile
  /\ ~launch.shared
  /\ launch.catalog # "broken"
  /\ \A k \in Keys : resolved[k] \in Allowed[k]

Begin(w) ==
  /\ wrapper[w].at = "idle"
  /\ launches < MaxLaunches
  /\ launches' = launches + 1
  /\ \E launch \in Launches :
       /\ Accepted(launch, Resolved(launch, preferences))
       /\ wrapper' =
            [v \in Wrappers |->
               IF v = w
               THEN [Idle EXCEPT !.at = "config", !.launch = launch,
                                 !.resolved = Resolved(launch, preferences),
                                 !.since = writes,
                                 !.alone = \A u \in Wrappers : ~Launching(u)]
               ELSE IF Launching(v) THEN [wrapper[v] EXCEPT !.alone = FALSE] ELSE wrapper[v]]
  /\ UNCHANGED <<native, managed, backups, preferences, writes, history>>

\* write_text overwrites whatever an agent has left in the file.
Generate(e, settings) ==
  /\ Through(e, Config(settings))
  /\ discarded' = [discarded EXCEPT ![e] = @ \cup Contents(managed[e])]
  /\ Appears(e)
  /\ UNCHANGED <<backups, preferences, launches, writes, kept, chosen, lost>>

WriteConfig(w) ==
  /\ wrapper[w].at = "config"
  /\ Generate(CONFIG, wrapper[w].resolved)
  /\ wrapper' = [wrapper EXCEPT ![w].at = "profile"]

WriteProfile(w) ==
  /\ wrapper[w].at = "profile"
  /\ Generate(PROFILE, wrapper[w].resolved)
  /\ wrapper' = [wrapper EXCEPT ![w].at = "save"]

\* What was loaded is saved too: the choice another launch saved meanwhile is lost.
SavePreferences(w) ==
  /\ wrapper[w].at = "save"
  /\ preferences' = wrapper[w].resolved
  /\ chosen' = [k \in Keys |-> IF wrapper[w].launch.shell[k] # None
                               THEN wrapper[w].launch.shell[k] ELSE chosen[k]]
  /\ lost' = {k \in Keys : chosen'[k] \notin {None, preferences'[k]}
                           /\ (k \in lost \/ ~wrapper[w].alone)}
  /\ wrapper' = [wrapper EXCEPT ![w].at = "sync",
                                ![w].todo = IF wrapper[w].launch.links THEN Linkable ELSE {}]
  /\ UNCHANGED <<native, managed, backups, launches, writes, kept, discarded, present, torn>>

-----------------------------------------------------------------------------
(* sync_native_state: look at an entry, make room, link it *)

\* is_symlink; what is seen may have changed when the next operation comes.
Look(w, e) ==
  /\ wrapper[w].at = "sync"
  /\ e \in wrapper[w].todo
  /\ wrapper' = [wrapper EXCEPT
       ![w].todo = @ \ {e},
       ![w].entry = e,
       ![w].looked = writes,
       ![w].at = IF managed[e].kind \in {"link", "foreign"} THEN "resolve" ELSE "exists"]
  /\ UNCHANGED <<native, managed, backups, preferences, launches, writes, history>>

\* Whatever does not lead to the native entry is in the way, be it a link or not.
Resolve(w) ==
  /\ wrapper[w].at = "resolve"
  /\ wrapper' = [wrapper EXCEPT
       ![w].at = IF managed[wrapper[w].entry].kind = "link" THEN "sync" ELSE "unlink"]
  /\ UNCHANGED <<native, managed, backups, preferences, launches, writes, history>>

\* Mutant of Exists: a file that stands in the way is unlinked like a foreign link.
ExistsUnlinksFiles(w) ==
  /\ wrapper[w].at = "exists"
  /\ wrapper' = [wrapper EXCEPT
       ![w].at = IF managed[wrapper[w].entry].kind = "none" THEN "link" ELSE "unlink"]
  /\ UNCHANGED <<native, managed, backups, preferences, launches, writes, history>>

Exists(w) ==
  /\ wrapper[w].at = "exists"
  /\ wrapper' = [wrapper EXCEPT
       ![w].at = IF managed[wrapper[w].entry].kind = "none" THEN "link" ELSE "rename"]
  /\ UNCHANGED <<native, managed, backups, preferences, launches, writes, history>>

\* Whatever has the name now goes; it may have been replaced since it was seen.
Unlink(w) ==
  LET e == wrapper[w].entry
  IN /\ wrapper[w].at = "unlink"
     /\ managed[e].kind # "none"
     /\ managed' = [managed EXCEPT ![e] = Absent]
     /\ discarded' = [discarded EXCEPT ![e] =
                        @ \cup {c \in Contents(managed[e]) : c >= wrapper[w].looked}]
     /\ wrapper' = [wrapper EXCEPT ![w].at = "link"]
     /\ UNCHANGED <<native, backups, preferences, launches, writes,
                    kept, present, torn, chosen, lost>>

Rename(w) ==
  LET e == wrapper[w].entry
  IN /\ wrapper[w].at = "rename"
     /\ managed[e].kind # "none"
     /\ managed' = [managed EXCEPT ![e] = Absent]
     /\ backups' = [backups EXCEPT ![e] = @ \cup Contents(managed[e])]
     /\ wrapper' = [wrapper EXCEPT ![w].at = "link"]
     /\ UNCHANGED <<native, preferences, launches, writes, history>>

SymlinkTo(w) ==
  LET e == wrapper[w].entry
  IN /\ wrapper[w].at = "link"
     /\ managed[e].kind = "none"
     /\ managed' = [managed EXCEPT ![e] = Link]
     /\ wrapper' = [wrapper EXCEPT ![w].at = "sync"]
     /\ Appears(e)
     /\ UNCHANGED <<native, backups, preferences, launches, writes,
                    kept, discarded, chosen, lost>>

\* The operation raises where another launch has been there first.
SyncFails(w) ==
  LET e == wrapper[w].entry
  IN /\ \/ wrapper[w].at \in {"unlink", "rename"} /\ managed[e].kind = "none"
        \/ wrapper[w].at = "link" /\ managed[e].kind # "none"
     /\ wrapper' = [wrapper EXCEPT ![w] = Idle]
     /\ UNCHANGED <<native, managed, backups, preferences, launches, writes, history>>

\* The agent replaces the wrapper's process and reads its config, or the profile
\* it is asked for.
Exec(w) ==
  /\ wrapper[w].at = "sync"
  /\ wrapper[w].todo = {}
  /\ wrapper' = [wrapper EXCEPT ![w].at = "agent",
       ![w].runs = Behind(IF wrapper[w].launch.profile = "litellm" THEN PROFILE ELSE CONFIG)]
  /\ UNCHANGED <<native, managed, backups, preferences, launches, writes, history>>

\* A launch is killed, or finds no real executable.
Crash(w) ==
  /\ Launching(w)
  /\ wrapper' = [wrapper EXCEPT ![w] = Idle]
  /\ torn' = IF wrapper[w].at = "link" /\ managed[wrapper[w].entry].kind = "none"
             THEN torn \cup {wrapper[w].entry} ELSE torn
  /\ UNCHANGED <<native, managed, backups, preferences, launches, writes,
                 kept, discarded, present, chosen, lost>>

\* It is killed while it writes a config file, and leaves it cut off.
CutOff(w) ==
  /\ wrapper[w].at \in {"config", "profile"}
  /\ Generate(IF wrapper[w].at = "config" THEN CONFIG ELSE PROFILE, None)
  /\ wrapper' = [wrapper EXCEPT ![w] = Idle]

-----------------------------------------------------------------------------
(* The agent *)

\* It writes the file it finds, which is the native one behind a link.
WriteInPlace(w, e) ==
  /\ wrapper[w].at = "agent"
  /\ managed[e].kind \notin {"none", "foreign"}
  /\ writes < MaxWrites
  /\ writes' = writes + 1
  /\ Through(e, File(writes))
  /\ kept' = [kept EXCEPT ![e] = (@ \ Contents(Behind(e))) \cup {writes}]
  /\ UNCHANGED <<backups, preferences, wrapper, launches, discarded, present, torn, chosen, lost>>

\* It renames a new file over the name: a link to the native file is gone.
Replace(w, e) ==
  /\ wrapper[w].at = "agent"
  /\ writes < MaxWrites
  /\ writes' = writes + 1
  /\ managed' = [managed EXCEPT ![e] = File(writes)]
  /\ kept' = [kept EXCEPT ![e] = (@ \ Contents(managed[e])) \cup {writes}]
  /\ Appears(e)
  /\ UNCHANGED <<native, backups, preferences, wrapper, launches, discarded, chosen, lost>>

Exit(w) ==
  /\ wrapper[w].at = "agent"
  /\ wrapper' = [wrapper EXCEPT ![w] = Idle]
  /\ UNCHANGED <<native, managed, backups, preferences, launches, writes, history>>

HomeNext ==
  \E w \in Wrappers :
    \/ Begin(w) \/ WriteConfig(w) \/ WriteProfile(w) \/ SavePreferences(w)
    \/ Resolve(w) \/ Exists(w) \/ Unlink(w) \/ Rename(w) \/ SymlinkTo(w) \/ SyncFails(w)
    \/ Exec(w) \/ Crash(w) \/ CutOff(w) \/ Exit(w)
    \/ \E e \in Entries : Look(w, e) \/ WriteInPlace(w, e) \/ Replace(w, e)

HomeSpec == HomeInit /\ [][HomeNext]_home

-----------------------------------------------------------------------------

\* What the user and the agents wrote is still in the native home, the managed one or a
\* backup, but for what is discarded: whatever stood in a config file when a launch wrote
\* it, and what an agent put in the place of a link, be it the right one, between a
\* launch's look at the name and its unlink.
NothingIsLost ==
  \A e \in Entries :
    kept[e] \subseteq Contents(native[e]) \cup Contents(managed[e]) \cup backups[e] \cup discarded[e]

\* An entry that was once there is missing only while a launch is about to link
\* it, or after one was killed just then.
EntriesStay ==
  \A e \in present :
    managed[e].kind = "none" =>
      e \in torn \/ \E w \in Wrappers : wrapper[w].at = "link" /\ wrapper[w].entry = e

\* A config file has what a launch resolved, or what an agent has written since it began.
Configures(item, launch) ==
  \/ item.kind = "config" /\ item.content = launch.resolved
  \/ item.kind = "file" /\ item.content >= launch.since

\* The managed home stays whole under overlapping and interrupted launches: no
\* content is lost, no entry goes missing, an excluded name is never linked, so that
\* no launch writes a config file of the native home, and a launch that met no other
\* one starts its agent with what it resolved, unless an agent of before has written
\* the config file since, over a link to every native entry that no agent has replaced
\* meanwhile.  An explicit choice is resolved again by every later launch, until another
\* is made or an overlapping launch saves what it had loaded before.
HomeIsWhole ==
  /\ NothingIsLost
  /\ EntriesStay
  /\ \A e \in Entries \cap Excluded : managed[e].kind # "link" /\ Contents(native[e]) = {0}
  /\ \A k \in Keys : chosen[k] \in {None, preferences[k]} \/ k \in lost
  /\ \A w \in Wrappers :
       /\ wrapper[w].at = "agent" /\ wrapper[w].alone => Configures(wrapper[w].runs, wrapper[w])
       /\ (/\ wrapper[w].at = "sync" /\ wrapper[w].todo = {} /\ wrapper[w].alone
           /\ wrapper[w].launch.links)
          => \A e \in Linkable : \/ managed[e].kind = "link"
                                 \/ /\ managed[e].kind = "file"
                                    /\ managed[e].content >= wrapper[w].since

=============================================================================
