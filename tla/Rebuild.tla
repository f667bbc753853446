------------------------------- MODULE Rebuild -------------------------------
(***************************************************************************)
(* What the vendored SCons remembers between builds and how it decides     *)
(* from that what to build again (engine/SCons/SConsign.py, dblite.py,     *)
(* CacheDir.py, Node.changed and the File class of Node/FS.py), with       *)
(* sources edited between and during builds, commands that fail, and       *)
(* builds killed at any step.                                              *)
(***************************************************************************)
EXTENDS Naturals, FiniteSets

CONSTANTS
  Source, Target,   \* files people edit, files commands write
  kids,             \* kids[t]: what the target t is built from
  Modes,            \* see Mode
  MaxVersion,       \* bound: versions of a source and of a command
  MaxEdits,         \* bound: edits in all
  MaxTrouble        \* bound: killed builds and failed commands in all

Node == Source \cup Target

\* What may happen: edits during a build, going back (to an earlier version, or
\* by removing a target), a cache directory, killed builds and failing commands
Mode == [during : BOOLEAN, revert : BOOLEAN, cached : BOOLEAN, trouble : BOOLEAN]

ASSUME FilesAssumption ==
  /\ IsFiniteSet(Node) /\ Source \cap Target = {} /\ Target # {}
  /\ kids \in [Target -> SUBSET Node]
  /\ {"none", "unknown"} \cap Node = {}   \* no names of files
  /\ Modes \subseteq Mode

\* A cycle among targets ends a build before it starts any of them
ASSUME AcyclicAssumption ==
  \A S \in SUBSET Target : S # {} => \E t \in S : kids[t] \cap S = {}

ASSUME BoundAssumption ==
  MaxVersion \in Nat \ {0} /\ MaxEdits \in Nat /\ MaxTrouble \in Nat

VARIABLES
  mode,
  disk,      \* disk[n]: the contents of the file n
  command,   \* command[t]: the version of t's command in the SConstruct
  db,        \* the file .sconsign.dblite: what each target was built from
  cache,     \* the cache directory: pairs of a signature and contents
  pc,        \* where the build is
  entries,   \* the signatures the build has read and merged
  csig,      \* csig[n]: the content signature taken of n in this build
  at,        \* at[t]: how far the task of t is
  calm,      \* no source was edited since the build started
  settled,   \* the last build succeeded; nothing was edited since it started
  edits, trouble

fileVars == <<disk, command, db, cache>>
buildVars == <<pc, entries, csig, at>>
vars == <<mode, fileVars, buildVars, calm, settled, edits, trouble>>

(* Contents stand for their own MD5 signatures.  A target's contents are    *)
(* its command applied to the contents of its kids.                         *)
Contents(n, v, from) == [of |-> n, version |-> v, from |-> from]
Missing == Contents("none", 0, <<>>)
Unknown == Contents("unknown", 0, <<>>)
Partial(t) == Contents(t, 0, <<>>)
Version(s, v) == Contents(s, v, <<>>)

\* What the command of t makes of the kids as F shows them
Result(t, F) == Contents(t, command[t], [k \in kids[t] |-> F[k]])

NoFile == [t \in Target |-> Missing]   \* the database between unlink and rename
Nothing == [t \in Target |-> Unknown]

Building == pc \in {"building", "stopping"}
Ended == {"current", "built"}

-----------------------------------------------------------------------------
(* The user *)

Edit(s, v) ==
  /\ edits < MaxEdits
  /\ disk[s] # Version(s, v)
  /\ mode.revert \/ disk[s].version < v
  /\ mode.during \/ pc = "idle"
  /\ disk' = [disk EXCEPT ![s] = Version(s, v)]
  /\ edits' = edits + 1
  /\ calm' = FALSE /\ settled' = FALSE
  /\ UNCHANGED <<mode, command, db, cache, buildVars, trouble>>

EditCommand(t, v) ==
  /\ edits < MaxEdits /\ pc = "idle"
  /\ command[t] # v
  /\ mode.revert \/ command[t] < v
  /\ command' = [command EXCEPT ![t] = v]
  /\ edits' = edits + 1
  /\ settled' = FALSE
  /\ UNCHANGED <<mode, disk, db, cache, buildVars, calm, trouble>>

\* A target is deleted by hand, or with -c, which leaves what is stored of it
Remove(t) ==
  /\ edits < MaxEdits /\ pc = "idle"
  /\ mode.revert
  /\ disk[t] # Missing
  /\ disk' = [disk EXCEPT ![t] = Missing]
  /\ edits' = edits + 1
  /\ settled' = FALSE
  /\ UNCHANGED <<mode, command, db, cache, buildVars, calm, trouble>>

-----------------------------------------------------------------------------
(* A build *)

\* Mutants: a missing database is not made; the database is made anew each time
OpenedOnly == db
OpenedNew == Nothing

\* The database is opened; where there is none an empty one is made
Opened == IF db = NoFile THEN Nothing ELSE db

\* Mutant: a failure is remembered
FreshButFailed ==
  [t \in Target |-> IF at[t] = "failed" THEN "failed" ELSE "waiting"]

Fresh == [t \in Target |-> "waiting"]

Start ==
  /\ pc = "idle"
  /\ pc' = "building"
  /\ db' = Opened
  /\ entries' = db'
  /\ csig' = [n \in Node |-> Unknown]
  /\ at' = Fresh
  /\ calm' = TRUE
  /\ UNCHANGED <<mode, disk, command, cache, settled, edits, trouble>>

Stopped == \E t \in Target : at[t] = "failed"

Ready(t) ==
  /\ pc = "building" /\ ~Stopped
  /\ at[t] = "waiting"
  /\ \A k \in kids[t] \cap Target : at[k] \in Ended

\* get_csig of each kid: taken once in a build
TakeSignatures(t) ==
  csig' = [n \in Node |->
             IF n \in kids[t] /\ csig[n] = Unknown THEN disk[n] ELSE csig[n]]

\* Mutant: the command is not compared
CurrentKids(t) == disk[t] # Missing /\ entries[t].from = Result(t, csig').from

\* changed(): the kids' signatures and the command's against the stored ones.
\* The target's own contents are not looked at.
Current(t) == disk[t] # Missing /\ entries[t] = Result(t, csig')

DecideCurrent(t) ==
  /\ Ready(t)
  /\ TakeSignatures(t)
  /\ Current(t)
  /\ at' = [at EXCEPT ![t] = "current"]
  /\ UNCHANGED <<mode, fileVars, pc, entries, calm, settled, edits, trouble>>

\* The target is out of date; it is removed before it is built
DecideBuild(t) ==
  /\ Ready(t)
  /\ TakeSignatures(t)
  /\ ~Current(t)
  /\ disk' = [disk EXCEPT ![t] = Missing]
  /\ at' = [at EXCEPT ![t] = "building"]
  /\ UNCHANGED <<mode, command, db, cache, pc, entries, calm, settled, edits,
                 trouble>>

Cached(t) == {c \in cache : mode.cached /\ c.key = Result(t, csig)}

\* The copy from the cache, or the command, writes piece by piece
WriteSome(t) ==
  /\ Building /\ at[t] = "building"
  /\ disk' = [disk EXCEPT ![t] = Partial(t)]
  /\ at' = [at EXCEPT ![t] = "writing"]
  /\ UNCHANGED <<mode, command, db, cache, pc, entries, csig, calm, settled,
                 edits, trouble>>

\* The contents come from the cache, if it has them,
Retrieve(t) ==
  /\ Building /\ at[t] = "writing"
  /\ \E c \in Cached(t) : disk' = [disk EXCEPT ![t] = c.contents]
  /\ at' = [at EXCEPT ![t] = "written"]
  /\ UNCHANGED <<mode, command, db, cache, pc, entries, csig, calm, settled,
                 edits, trouble>>

\* or from the command
WriteRest(t) ==
  /\ Building /\ at[t] = "writing" /\ Cached(t) = {}
  /\ disk' = [disk EXCEPT ![t] = Result(t, disk)]
  /\ at' = [at EXCEPT ![t] = "written"]
  /\ UNCHANGED <<mode, command, db, cache, pc, entries, csig, calm, settled,
                 edits, trouble>>

\* Mutant: the signature of the last build
PushedStale(t) == [key |-> entries[t], contents |-> disk[t]]

Pushed(t) == [key |-> Result(t, csig), contents |-> disk[t]]

\* Task.executed: push to the cache what it has not, then store_info; what
\* was known of the target itself is forgotten
Executed(t) ==
  /\ Building /\ at[t] = "written"
  /\ cache' = IF mode.cached /\ Cached(t) = {}
              THEN cache \cup {Pushed(t)} ELSE cache
  /\ entries' = [entries EXCEPT ![t] = Result(t, csig)]
  /\ csig' = [csig EXCEPT ![t] = Unknown]
  /\ at' = [at EXCEPT ![t] = "built"]
  /\ UNCHANGED <<mode, disk, command, db, pc, calm, settled, edits, trouble>>

\* The command fails: nothing is stored, and what it wrote stays
CommandFails(t) ==
  /\ Building /\ at[t] \in {"building", "writing"} /\ Cached(t) = {}
  /\ mode.trouble /\ trouble < MaxTrouble
  /\ trouble' = trouble + 1
  /\ at' = [at EXCEPT ![t] = "failed"]
  /\ settled' = FALSE
  /\ UNCHANGED <<mode, fileVars, pc, entries, csig, calm, edits>>

\* A signal: no further task is started
Interrupt ==
  /\ pc = "building"
  /\ mode.trouble /\ trouble < MaxTrouble
  /\ trouble' = trouble + 1
  /\ pc' = "stopping"
  /\ settled' = FALSE
  /\ UNCHANGED <<mode, fileVars, entries, csig, at, calm, edits>>

WalkEnded ==
  /\ \A t \in Target : at[t] \in Ended \cup {"waiting", "failed"}
  /\ Stopped \/ pc = "stopping" \/ \A t \in Target : at[t] \in Ended

\* SConsign.write, whatever the build came to: a file of another name is
\* written whole, the database is removed, and the file takes its place
Unlink ==
  /\ Building /\ WalkEnded
  /\ db' = NoFile
  /\ pc' = "renaming"
  /\ UNCHANGED <<mode, disk, command, cache, entries, csig, at, calm, settled,
                 edits, trouble>>

Rename ==
  /\ pc = "renaming"
  /\ db' = entries
  /\ pc' = "idle"
  /\ settled' = (calm /\ \A t \in Target : at[t] \in Ended)
  /\ UNCHANGED <<mode, disk, command, cache, entries, csig, at, calm, edits,
                 trouble>>

\* The process ends at once; what it kept in memory is lost
Kill ==
  /\ pc # "idle"
  /\ mode.trouble /\ trouble < MaxTrouble
  /\ trouble' = trouble + 1
  /\ pc' = "idle"
  /\ settled' = FALSE
  /\ UNCHANGED <<mode, fileVars, entries, csig, at, calm, edits>>

Init ==
  /\ mode \in Modes
  /\ disk = [n \in Node |-> IF n \in Source THEN Version(n, 1) ELSE Missing]
  /\ command = [t \in Target |-> 1]
  /\ db = NoFile /\ cache = {}
  /\ pc = "idle"
  /\ entries = Nothing /\ csig = [n \in Node |-> Unknown]
  /\ at = [t \in Target |-> "waiting"]
  /\ calm = TRUE /\ settled = FALSE
  /\ edits = 0 /\ trouble = 0

Step(t) ==
  \/ DecideCurrent(t) \/ DecideBuild(t) \/ Retrieve(t)
  \/ WriteSome(t) \/ WriteRest(t) \/ Executed(t)

Build == Start \/ Unlink \/ Rename \/ \E t \in Target : Step(t)

User ==
  \/ \E v \in 1 .. MaxVersion :
       \/ \E s \in Source : Edit(s, v)
       \/ \E t \in Target : EditCommand(t, v)
  \/ \E t \in Target : Remove(t)

Next == Build \/ User \/ Interrupt \/ Kill \/ \E t \in Target : CommandFails(t)

Spec == Init /\ [][Next]_vars

\* Commands end, and the user builds again after every build
FairSpec == Spec /\ WF_vars(Build)

-----------------------------------------------------------------------------
(* Properties *)

Known == {"waiting", "current", "building", "writing", "written", "built", "failed"}

\* Kinds of the values.  About the signatures: a target is recorded as built
\* from whole files only.
TypeOK ==
  /\ mode \in Modes
  /\ \A n \in Node : disk[n] = Missing \/ disk[n].of = n
  /\ command \in [Target -> 1 .. MaxVersion]
  /\ db = NoFile => pc \in {"idle", "renaming"}
  /\ pc \in {"idle", "building", "stopping", "renaming"}
  /\ \A t \in Target : entries[t] = Unknown \/
       (/\ entries[t].of = t
        /\ \A k \in kids[t] : entries[t].from[k] # Partial(k))
  /\ at \in [Target -> Known]
  /\ calm \in BOOLEAN /\ settled \in BOOLEAN
  /\ edits \in 0 .. MaxEdits /\ trouble \in 0 .. MaxTrouble

\* What a build from nothing would make of the sources as they are
Clean[n \in Node] ==
  IF n \in Source THEN disk[n]
  ELSE Contents(n, command[n], [k \in kids[n] |-> Clean[k]])

\* After a successful build during which nothing was edited every target is
\* what a build from nothing would give, whatever failed, was killed or was
\* edited before.  About deciding by stored signatures alone.
SettledIsClean == settled => \A t \in Target : disk[t] = Clean[t]

\* Built again with nothing edited, nothing is built: the signatures written
\* after a build are those the next one takes.
NothingBuiltTwice ==
  [][settled => \A t \in Target : ~(at[t] = "waiting" /\ at'[t] = "building")]_vars

\* An entry of the cache directory holds what its signature says, as long as
\* sources are not edited during a build.
CacheTrue == \A c \in cache : c.contents = c.key

\* Once edits, failures and kills are over builds settle, whatever state the
\* last kill left the files and the database in.
Settles == <>[]settled
=============================================================================
