-------------------------- MODULE BoardSecretProofs --------------------------
(***************************************************************************)
(* Theorems about BoardSecret.tla for any number of overlapping processes, *)
(* actors, secrets and command lines.                                      *)
(***************************************************************************)
EXTENDS BoardSecret, TLAPS

------------------------------------------------------------------------------
(* The inductive invariant.                                                *)

Busy == [at : Steps, command : Commands, key : Key,
         pins : [Actors -> 0 .. MaxCreated], recorded : BOOLEAN]

\* The shape of a process, and the command each of its steps belongs to.
RunsOK == run \in [Runs -> {Idle} \union Busy]
CommandsFit ==
    \A r \in Runs :
        /\ run[r].at \in {"pins", "rename pins"} => run[r].command.do \in {"seal", "open"}
        /\ run[r].at \in {"stat", "seen", "mark", "install"} => run[r].command.do = "open"

\* Without an overlap one process runs at a time.
AloneUnlessOverlap ==
    "overlap" \in mishaps \/
        \A r, q \in Runs : ~At(r, "idle") /\ ~At(q, "idle") => r = q

\* Who created operator.key is the only one to write and to print it.
OperatorKeyInHand ==
    /\ \A r \in Runs :
          /\ At(r, "operator write") => operatorKey = Truncated
          /\ At(r, "operator print") => operatorKey = run[r].key
    /\ \A r, q \in Runs :
          run[r].at \in {"operator write", "operator print"} /\
          run[q].at \in {"operator write", "operator print"} => r = q

\* keygen meets agent.key as it left it, unless processes overlap.
AgentKeyInHand ==
    "overlap" \in mishaps \/
        \A r \in Runs :
            /\ At(r, "truncate") => agentKey \in {Absent} \union retired
            /\ At(r, "write") => agentKey = Truncated
            /\ At(r, "print") => agentKey = run[r].key

\* The pins about to be written are the ones on disk, but for a newer bundle.
PinsInHand ==
    \A r \in Runs : At(r, "rename pins") =>
        /\ run[r].command.bundle[2] > run[r].pins[run[r].command.bundle[1]]
        /\ "overlap" \in mishaps \/ run[r].pins = bundlePins

\* The list of seen ids only grows, and ends in a torn line only after a short write.
SeenInHand ==
    /\ torn => "short write" \in mishaps
    /\ \A r \in Runs :
          /\ ~At(r, "idle") /\ run[r].recorded =>
                run[r].command.do = "open" /\ run[r].command.id \in seenIds
          /\ At(r, "install") => "short write" \in mishaps \/ run[r].command.id \in seenIds

\* A secret about to be written was not written before.
FreshInHand ==
    mishaps = {} => \A r \in Runs :
        At(r, "mark") \/ At(r, "install") => acceptances[run[r].command.id] = 0

FilesStrongInv ==
    /\ FilesInv /\ PrintedIdentityIsKept /\ WrittenSecretsAreRecorded
    /\ ReplayRefusedWithoutMishap
    /\ RunsOK /\ CommandsFit /\ AloneUnlessOverlap
    /\ OperatorKeyInHand /\ AgentKeyInHand /\ PinsInHand /\ SeenInHand /\ FreshInHand

------------------------------------------------------------------------------
(* What a step does to the processes.                                      *)

\* The parts of a command line.
LEMMA CommandShapes ==
    ASSUME NEW c \in Commands
    PROVE  /\ c.do \in {"seal", "open"} =>
                 c.bundle \in Bundle /\ c.bundle[1] \in Actors /\ c.bundle[2] \in 1 .. MaxCreated
           /\ c.do = "open" => c.id \in SecretIds /\ c.out \in Outs
<1>1. CASE c \in [do : {"keygen", "keys", "operator keygen"}]
  BY <1>1
<1>2. CASE c \in [do : {"seal"}, bundle : Bundle]
  BY <1>2 DEF Bundle
<1>3. CASE c \in [do : {"open"}, bundle : Bundle, id : SecretIds, out : Outs, force : BOOLEAN]
  BY <1>3 DEF Bundle
<1> QED
  BY <1>1, <1>2, <1>3, CommandsAssumption

\* No key is the mark of a missing or a truncated file.
LEMMA KeyValues ==
    /\ Absent \notin Key /\ Truncated \notin Key /\ Absent # Truncated
    /\ Absent \notin SecretIds /\ 1 \in Key
  BY BoundsAssumption, SecretIdsAssumption DEF Key, Absent, Truncated

\* A process that is not idle has its locals.
LEMMA BusyLocals ==
    ASSUME RunsOK, NEW r \in Runs, ~At(r, "idle")
    PROVE  /\ run[r] \in Busy /\ run[r].at \in Steps /\ run[r].command \in Commands
           /\ run[r].key \in Key /\ run[r].pins \in [Actors -> 0 .. MaxCreated]
           /\ run[r].recorded \in BOOLEAN
  BY DEF RunsOK, Busy, Idle, At

\* The other processes stay where they are.
OthersWait(r) == \A q \in Runs : q # r => run'[q] = run[q]

\* A process keeps its command and locals.
SameLocals(r) ==
    /\ run'[r].command = run[r].command /\ run'[r].key = run[r].key
    /\ run'[r].pins = run[r].pins /\ run'[r].recorded = run[r].recorded

\* The values that are written stay in their ranges.
LEMMA NumberFits ==
    ASSUME NEW n \in 1 .. MaxStarts, n < MaxStarts
    PROVE  n + 1 \in 1 .. MaxStarts
  BY BoundsAssumption

LEMMA PinFits ==
    ASSUME NEW pins \in [Actors -> 0 .. MaxCreated], NEW a \in Actors, NEW at \in 1 .. MaxCreated
    PROVE  [pins EXCEPT ![a] = at] \in [Actors -> 0 .. MaxCreated]
<1>1. at \in 0 .. MaxCreated
  BY BoundsAssumption
<1> QED
  BY <1>1

LEMMA CountFits ==
    ASSUME NEW count \in [SecretIds -> Nat], NEW i \in SecretIds
    PROVE  [count EXCEPT ![i] = @ + 1] \in [SecretIds -> Nat]
<1>1. count[i] + 1 \in Nat
  <2>1. count[i] \in Nat
    OBVIOUS
  <2> QED
    BY <2>1
<1> QED
  BY <1>1

\* A process starts: it takes the place of an idle one and gets a number, the
\* others wait; that it is not alone is remembered.
LEMMA StartEffect ==
    ASSUME TypeOK, RunsOK, NEW r \in Runs, NEW c \in Commands, NEW step \in Steps, NEW key \in Key,
           Start(r, c, step, key)
    PROVE  /\ run' \in [Runs -> {Idle} \union Busy] /\ OthersWait(r)
           /\ At(r, "idle") /\ run'[r].at = step /\ run'[r].command = c /\ run'[r].key = key
           /\ run'[r].recorded => c.do = "open" /\ c.id \in seenIds
           /\ started' \in 1 .. MaxStarts
           /\ mishaps' \subseteq mishaps \union {"overlap"} /\ mishaps \subseteq mishaps'
           /\ "overlap" \notin mishaps' => \A q \in Runs : At(q, "idle")
<1>1. NoPins \in [Actors -> 0 .. MaxCreated]
  BY BoundsAssumption DEF NoPins
<1>2. [at |-> step, command |-> c, key |-> key, pins |-> NoPins,
       recorded |-> c.do = "open" /\ c.id \in seenIds] \in Busy
  BY <1>1 DEF Busy
<1>3. started' \in 1 .. MaxStarts
  <2>1. started < MaxStarts /\ started' = started + 1
    BY DEF Start
  <2>2. started \in 1 .. MaxStarts
    BY DEF TypeOK
  <2> QED
    BY <2>1, <2>2, NumberFits
<1> QED
  BY <1>2, <1>3 DEF Start, RunsOK, OthersWait

\* A new process has a number of its own.
LEMMA StartNumber ==
    ASSUME TypeOK, NEW r \in Runs, NEW c, NEW step, NEW key, Start(r, c, step, key)
    PROVE  started' \in Key
<1>1. started < MaxStarts /\ started' = started + 1
  BY DEF Start
<1>2. started \in 1 .. MaxStarts
  BY DEF TypeOK
<1> QED
  BY <1>1, <1>2, NumberFits DEF Key

\* A process goes on to its next step.
LEMMA GotoEffect ==
    ASSUME RunsOK, NEW r \in Runs, NEW step \in Steps, ~At(r, "idle"), Goto(r, step)
    PROVE  /\ run' \in [Runs -> {Idle} \union Busy] /\ OthersWait(r)
           /\ run'[r].at = step /\ SameLocals(r)
<1>1. run[r] \in Busy
  BY BusyLocals
<1>2. [run[r] EXCEPT !.at = step] \in Busy
  BY <1>1 DEF Busy
<1> QED
  BY <1>1, <1>2 DEF Goto, RunsOK, OthersWait, SameLocals, Busy

\* A process ends.
LEMMA ExitEffect ==
    ASSUME RunsOK, NEW r \in Runs, Exit(r)
    PROVE  run' \in [Runs -> {Idle} \union Busy] /\ OthersWait(r) /\ run'[r].at = "idle"
  BY DEF Exit, RunsOK, OthersWait, Idle

------------------------------------------------------------------------------
(* Each step keeps the invariant.                                           *)

\* keygen starts, agent.key is absent or hidden: nothing is written yet.
LEMMA StatAgentKeyKeeps ==
    ASSUME FilesStrongInv, NEW r \in Runs, NEW c \in Commands, StatAgentKey(r, c)
    PROVE  FilesStrongInv'
<1> USE DEF FilesStrongInv, FilesInv, files, history
<1>1. /\ c.do = "keygen" /\ UNCHANGED <<files, bundlesPrinted, operatorPrinted>>
      /\ UNCHANGED <<lastAccepted, acceptances>>
      /\ retired \subseteq retired' /\ retired' \subseteq {Truncated} \union Key
      /\ agentKey \in {Absent} \union retired'
  BY DEF StatAgentKey, TypeOK
<1>2. /\ run' \in [Runs -> {Idle} \union Busy] /\ OthersWait(r)
      /\ At(r, "idle") /\ run'[r].at = "truncate" /\ run'[r].command = c /\ run'[r].key = started'
      /\ run'[r].recorded => c.do = "open" /\ c.id \in seenIds
      /\ started' \in 1 .. MaxStarts /\ started' \in Key
      /\ mishaps' \subseteq mishaps \union {"overlap"} /\ mishaps \subseteq mishaps'
      /\ "overlap" \notin mishaps' => \A q \in Runs : At(q, "idle")
  <2>1. Start(r, c, "truncate", started')
    BY DEF StatAgentKey
  <2>2. started' \in Key
    BY <2>1, StartNumber
  <2>3. PICK key \in Key : key = started'
    BY <2>2
  <2> QED
    BY <2>1, <2>3, StartEffect DEF Steps
<1>3. TypeOK'
  BY <1>1, <1>2, BusyLocals, BoundsAssumption, KeyValues DEF TypeOK, RunsOK, Busy, At
<1>4. RunsOK' /\ CommandsFit'
  BY <1>1, <1>2, BusyLocals DEF RunsOK, CommandsFit, At, OthersWait
<1>5. AloneUnlessOverlap'
  BY <1>1, <1>2 DEF AloneUnlessOverlap, At, OthersWait
<1>6. TrustRootIsKept' /\ OperatorKeyInHand'
  BY <1>1, <1>2, KeyValues DEF TrustRootIsKept, OperatorKeyInHand, At, OthersWait
<1>7. PrintedIdentityIsKept' /\ AgentKeyInHand'
  BY <1>1, <1>2, KeyValues DEF PrintedIdentityIsKept, AgentKeyInHand, At, OthersWait
<1>8. PinsAreNewest' /\ PinsInHand'
  BY <1>1, <1>2, BoundsAssumption
  DEF PinsAreNewest, PinsInHand, At, OthersWait, AloneUnlessOverlap, TypeOK
<1>9. RecordedReplayStops'
  BY <1>1, <1>2 DEF RecordedReplayStops, SeenInHand, At, OthersWait
<1>10. SeenInHand'
  BY <1>1, <1>2 DEF SeenInHand, At, OthersWait
<1>11. WrittenSecretsAreRecorded'
  BY <1>1, <1>2 DEF WrittenSecretsAreRecorded, SeenInHand, At, TypeOK
<1>12. ReplayRefusedWithoutMishap' /\ FreshInHand'
  BY <1>1, <1>2, BoundsAssumption
  DEF ReplayRefusedWithoutMishap, ReplayRefused, FreshInHand, At, OthersWait, AloneUnlessOverlap,
      WrittenSecretsAreRecorded, TypeOK
<1> QED
  BY <1>3, <1>4, <1>5, <1>6, <1>7, <1>8, <1>9, <1>10, <1>11, <1>12

\* keys starts, with the key agent.key holds.
LEMMA LoadForKeysKeeps ==
    ASSUME FilesStrongInv, NEW r \in Runs, NEW c \in Commands, LoadForKeys(r, c)
    PROVE  FilesStrongInv'
<1> USE DEF FilesStrongInv, FilesInv, files, history
<1>1. c.do = "keys" /\ UNCHANGED <<files, history>>
  BY DEF LoadForKeys
<1>2. /\ run' \in [Runs -> {Idle} \union Busy] /\ OthersWait(r)
      /\ At(r, "idle") /\ run'[r].at = "print" /\ run'[r].command = c /\ run'[r].key = agentKey
      /\ run'[r].recorded => c.do = "open" /\ c.id \in seenIds
      /\ started' \in 1 .. MaxStarts /\ agentKey \in Key
      /\ mishaps' \subseteq mishaps \union {"overlap"} /\ mishaps \subseteq mishaps'
      /\ "overlap" \notin mishaps' => \A q \in Runs : At(q, "idle")
  <2>1. Start(r, c, "print", agentKey) /\ agentKey \in Key
    BY DEF LoadForKeys, LoadKeys
  <2>2. PICK key \in Key : key = agentKey
    BY <2>1
  <2> QED
    BY <2>1, <2>2, StartEffect DEF Steps
<1>3. TypeOK'
  BY <1>1, <1>2, BusyLocals, BoundsAssumption, KeyValues DEF TypeOK, RunsOK, Busy, At
<1>4. RunsOK' /\ CommandsFit'
  BY <1>1, <1>2, BusyLocals DEF RunsOK, CommandsFit, At, OthersWait
<1>5. AloneUnlessOverlap'
  BY <1>1, <1>2 DEF AloneUnlessOverlap, At, OthersWait
<1>6. TrustRootIsKept' /\ OperatorKeyInHand'
  BY <1>1, <1>2, KeyValues DEF TrustRootIsKept, OperatorKeyInHand, At, OthersWait
<1>7. PrintedIdentityIsKept' /\ AgentKeyInHand'
  BY <1>1, <1>2, KeyValues DEF PrintedIdentityIsKept, AgentKeyInHand, At, OthersWait
<1>8. PinsAreNewest' /\ PinsInHand'
  BY <1>1, <1>2, BoundsAssumption
  DEF PinsAreNewest, PinsInHand, At, OthersWait, AloneUnlessOverlap, TypeOK
<1>9. RecordedReplayStops'
  BY <1>1, <1>2 DEF RecordedReplayStops, SeenInHand, At, OthersWait
<1>10. SeenInHand'
  BY <1>1, <1>2 DEF SeenInHand, At, OthersWait
<1>11. WrittenSecretsAreRecorded'
  BY <1>1, <1>2 DEF WrittenSecretsAreRecorded, SeenInHand, At, TypeOK
<1>12. ReplayRefusedWithoutMishap' /\ FreshInHand'
  BY <1>1, <1>2, BoundsAssumption
  DEF ReplayRefusedWithoutMishap, ReplayRefused, FreshInHand, At, OthersWait, AloneUnlessOverlap,
      WrittenSecretsAreRecorded, TypeOK
<1> QED
  BY <1>3, <1>4, <1>5, <1>6, <1>7, <1>8, <1>9, <1>10, <1>11, <1>12

\* O_EXCL: operator.key was absent, so no process is about to write or print it.
LEMMA CreateOperatorKeyKeeps ==
    ASSUME FilesStrongInv, NEW r \in Runs, NEW c \in Commands, CreateOperatorKey(r, c)
    PROVE  FilesStrongInv'
<1> USE DEF FilesStrongInv, FilesInv, files, history
<1>1. /\ operatorKey = Absent /\ operatorKey' = Truncated /\ c.do = "operator keygen"
      /\ UNCHANGED <<agentKey, bundlePins, seenIds, torn, secrets, history>>
  BY DEF CreateOperatorKey
<1>2. /\ run' \in [Runs -> {Idle} \union Busy] /\ OthersWait(r)
      /\ At(r, "idle") /\ run'[r].at = "operator write" /\ run'[r].command = c /\ run'[r].key = started'
      /\ run'[r].recorded => c.do = "open" /\ c.id \in seenIds
      /\ started' \in 1 .. MaxStarts /\ started' \in Key
      /\ mishaps' \subseteq mishaps \union {"overlap"} /\ mishaps \subseteq mishaps'
      /\ "overlap" \notin mishaps' => \A q \in Runs : At(q, "idle")
  <2>1. Start(r, c, "operator write", started')
    BY DEF CreateOperatorKey
  <2>2. started' \in Key
    BY <2>1, StartNumber
  <2>3. PICK key \in Key : key = started'
    BY <2>2
  <2> QED
    BY <2>1, <2>3, StartEffect DEF Steps
<1>3. TypeOK'
  BY <1>1, <1>2, BusyLocals, BoundsAssumption, KeyValues DEF TypeOK, RunsOK, Busy, At
<1>4. RunsOK' /\ CommandsFit'
  BY <1>1, <1>2, BusyLocals DEF RunsOK, CommandsFit, At, OthersWait
<1>5. AloneUnlessOverlap'
  BY <1>1, <1>2 DEF AloneUnlessOverlap, At, OthersWait
<1>6. TrustRootIsKept' /\ OperatorKeyInHand'
  <2>1. operatorPrinted = {}
    BY <1>1, KeyValues DEF TrustRootIsKept, TypeOK
  <2>2. \A q \in Runs : run[q].at \notin {"operator write", "operator print"}
    BY <1>1, KeyValues, BusyLocals DEF OperatorKeyInHand, At
  <2> QED
    BY <1>1, <1>2, <2>1, <2>2 DEF TrustRootIsKept, OperatorKeyInHand, At, OthersWait
<1>7. PrintedIdentityIsKept' /\ AgentKeyInHand'
  BY <1>1, <1>2, KeyValues DEF PrintedIdentityIsKept, AgentKeyInHand, At, OthersWait
<1>8. PinsAreNewest' /\ PinsInHand'
  BY <1>1, <1>2, BoundsAssumption
  DEF PinsAreNewest, PinsInHand, At, OthersWait, AloneUnlessOverlap, TypeOK
<1>9. RecordedReplayStops'
  BY <1>1, <1>2 DEF RecordedReplayStops, SeenInHand, At, OthersWait
<1>10. SeenInHand'
  BY <1>1, <1>2 DEF SeenInHand, At, OthersWait
<1>11. WrittenSecretsAreRecorded'
  BY <1>1, <1>2 DEF WrittenSecretsAreRecorded, SeenInHand, At, TypeOK
<1>12. ReplayRefusedWithoutMishap' /\ FreshInHand'
  BY <1>1, <1>2, BoundsAssumption
  DEF ReplayRefusedWithoutMishap, ReplayRefused, FreshInHand, At, OthersWait, AloneUnlessOverlap,
      WrittenSecretsAreRecorded, TypeOK
<1> QED
  BY <1>3, <1>4, <1>5, <1>6, <1>7, <1>8, <1>9, <1>10, <1>11, <1>12

\* seal or open starts, with the key agent.key holds.
LEMMA LoadForBundleKeeps ==
    ASSUME FilesStrongInv, NEW r \in Runs, NEW c \in Commands, LoadForBundle(r, c)
    PROVE  FilesStrongInv'
<1> USE DEF FilesStrongInv, FilesInv, files, history
<1>1. c.do \in {"seal", "open"} /\ UNCHANGED <<files, history>>
  BY DEF LoadForBundle
<1>2. /\ run' \in [Runs -> {Idle} \union Busy] /\ OthersWait(r)
      /\ At(r, "idle") /\ run'[r].at = "pins" /\ run'[r].command = c /\ run'[r].key = agentKey
      /\ run'[r].recorded => c.do = "open" /\ c.id \in seenIds
      /\ started' \in 1 .. MaxStarts /\ agentKey \in Key
      /\ mishaps' \subseteq mishaps \union {"overlap"} /\ mishaps \subseteq mishaps'
      /\ "overlap" \notin mishaps' => \A q \in Runs : At(q, "idle")
  <2>1. Start(r, c, "pins", agentKey) /\ agentKey \in Key
    BY DEF LoadForBundle, LoadKeys
  <2>2. PICK key \in Key : key = agentKey
    BY <2>1
  <2> QED
    BY <2>1, <2>2, StartEffect DEF Steps
<1>3. TypeOK'
  BY <1>1, <1>2, BusyLocals, BoundsAssumption, KeyValues DEF TypeOK, RunsOK, Busy, At
<1>4. RunsOK' /\ CommandsFit'
  BY <1>1, <1>2, BusyLocals DEF RunsOK, CommandsFit, At, OthersWait
<1>5. AloneUnlessOverlap'
  BY <1>1, <1>2 DEF AloneUnlessOverlap, At, OthersWait
<1>6. TrustRootIsKept' /\ OperatorKeyInHand'
  BY <1>1, <1>2, KeyValues DEF TrustRootIsKept, OperatorKeyInHand, At, OthersWait
<1>7. PrintedIdentityIsKept' /\ AgentKeyInHand'
  BY <1>1, <1>2, KeyValues DEF PrintedIdentityIsKept, AgentKeyInHand, At, OthersWait
<1>8. PinsAreNewest' /\ PinsInHand'
  BY <1>1, <1>2, BoundsAssumption
  DEF PinsAreNewest, PinsInHand, At, OthersWait, AloneUnlessOverlap, TypeOK
<1>9. RecordedReplayStops'
  BY <1>1, <1>2 DEF RecordedReplayStops, SeenInHand, At, OthersWait
<1>10. SeenInHand'
  BY <1>1, <1>2 DEF SeenInHand, At, OthersWait
<1>11. WrittenSecretsAreRecorded'
  BY <1>1, <1>2 DEF WrittenSecretsAreRecorded, SeenInHand, At, TypeOK
<1>12. ReplayRefusedWithoutMishap' /\ FreshInHand'
  BY <1>1, <1>2, BoundsAssumption
  DEF ReplayRefusedWithoutMishap, ReplayRefused, FreshInHand, At, OthersWait, AloneUnlessOverlap,
      WrittenSecretsAreRecorded, TypeOK
<1> QED
  BY <1>3, <1>4, <1>5, <1>6, <1>7, <1>8, <1>9, <1>10, <1>11, <1>12

\* keygen truncates agent.key: without an overlap no printed identity was in it.
LEMMA TruncateAgentKeyKeeps ==
    ASSUME FilesStrongInv, NEW r \in Runs, TruncateAgentKey(r)
    PROVE  FilesStrongInv'
<1> USE DEF FilesStrongInv, FilesInv, files, history
<1>1. /\ At(r, "truncate")
      /\ agentKey' = Truncated
      /\ UNCHANGED <<operatorKey, bundlePins, seenIds, torn, secrets, started, history, mishaps>>
  BY DEF TruncateAgentKey
<1>2. /\ run' \in [Runs -> {Idle} \union Busy] /\ OthersWait(r)
      /\ run'[r].at = "write" /\ SameLocals(r)
  BY <1>1, GotoEffect DEF TruncateAgentKey, Steps, At
<1>3. TypeOK'
  BY <1>1, <1>2, BusyLocals, BoundsAssumption, KeyValues DEF TypeOK, RunsOK, Busy, At
<1>4. RunsOK' /\ CommandsFit'
  BY <1>1, <1>2, BusyLocals DEF RunsOK, CommandsFit, At, OthersWait, SameLocals
<1>5. AloneUnlessOverlap'
  BY <1>1, <1>2 DEF AloneUnlessOverlap, At, OthersWait
<1>6. TrustRootIsKept' /\ OperatorKeyInHand'
  BY <1>1, <1>2, KeyValues DEF TrustRootIsKept, OperatorKeyInHand, At, OthersWait, SameLocals
<1>7. PrintedIdentityIsKept' /\ AgentKeyInHand'
  <2>1. "overlap" \in mishaps \/ bundlesPrinted \ retired = {}
    <3>1. "overlap" \in mishaps \/ agentKey \in {Absent} \union retired
      BY <1>1 DEF AgentKeyInHand
    <3> QED
      BY <3>1, KeyValues DEF PrintedIdentityIsKept, TypeOK
  <2>2. "overlap" \in mishaps \/ \A q \in Runs : q # r => run[q].at = "idle"
    BY <1>1 DEF AloneUnlessOverlap, At
  <2> QED
    BY <1>1, <1>2, <2>1, <2>2
    DEF PrintedIdentityIsKept, AgentKeyInHand, At, OthersWait, SameLocals
<1>8. PinsAreNewest' /\ PinsInHand'
  BY <1>1, <1>2, BoundsAssumption
  DEF PinsAreNewest, PinsInHand, At, OthersWait, SameLocals, AloneUnlessOverlap, TypeOK
<1>9. RecordedReplayStops'
  BY <1>1, <1>2 DEF RecordedReplayStops, SeenInHand, At, OthersWait, SameLocals
<1>10. SeenInHand'
  BY <1>1, <1>2 DEF SeenInHand, At, OthersWait, SameLocals
<1>11. WrittenSecretsAreRecorded'
  BY <1>1, <1>2 DEF WrittenSecretsAreRecorded, SeenInHand, At, TypeOK
<1>12. ReplayRefusedWithoutMishap' /\ FreshInHand'
  BY <1>1, <1>2, BoundsAssumption
  DEF ReplayRefusedWithoutMishap, ReplayRefused, FreshInHand, At, OthersWait, SameLocals,
      AloneUnlessOverlap, WrittenSecretsAreRecorded, TypeOK
<1> QED
  BY <1>3, <1>4, <1>5, <1>6, <1>7, <1>8, <1>9, <1>10, <1>11, <1>12

\* keygen fills agent.key: without an overlap it is still the file it truncated.
LEMMA WriteAgentKeyKeeps ==
    ASSUME FilesStrongInv, NEW r \in Runs, WriteAgentKey(r)
    PROVE  FilesStrongInv'
<1> USE DEF FilesStrongInv, FilesInv, files, history
<1>1. /\ At(r, "write")
      /\ agentKey' = run[r].key
      /\ UNCHANGED <<operatorKey, bundlePins, seenIds, torn, secrets, started, history, mishaps>>
  BY DEF WriteAgentKey
<1>2. /\ run' \in [Runs -> {Idle} \union Busy] /\ OthersWait(r)
      /\ run'[r].at = "print" /\ SameLocals(r)
  BY <1>1, GotoEffect DEF WriteAgentKey, Steps, At
<1>3. TypeOK'
  BY <1>1, <1>2, BusyLocals, BoundsAssumption, KeyValues DEF TypeOK, RunsOK, Busy, At
<1>4. RunsOK' /\ CommandsFit'
  BY <1>1, <1>2, BusyLocals DEF RunsOK, CommandsFit, At, OthersWait, SameLocals
<1>5. AloneUnlessOverlap'
  BY <1>1, <1>2 DEF AloneUnlessOverlap, At, OthersWait
<1>6. TrustRootIsKept' /\ OperatorKeyInHand'
  BY <1>1, <1>2, KeyValues DEF TrustRootIsKept, OperatorKeyInHand, At, OthersWait, SameLocals
<1>7. PrintedIdentityIsKept' /\ AgentKeyInHand'
  <2>1. "overlap" \in mishaps \/ bundlesPrinted \ retired = {}
    <3>1. "overlap" \in mishaps \/ agentKey = Truncated
      BY <1>1 DEF AgentKeyInHand
    <3> QED
      BY <3>1, KeyValues DEF PrintedIdentityIsKept, TypeOK
  <2>2. "overlap" \in mishaps \/ \A q \in Runs : q # r => run[q].at = "idle"
    BY <1>1 DEF AloneUnlessOverlap, At
  <2> QED
    BY <1>1, <1>2, <2>1, <2>2
    DEF PrintedIdentityIsKept, AgentKeyInHand, At, OthersWait, SameLocals
<1>8. PinsAreNewest' /\ PinsInHand'
  BY <1>1, <1>2, BoundsAssumption
  DEF PinsAreNewest, PinsInHand, At, OthersWait, SameLocals, AloneUnlessOverlap, TypeOK
<1>9. RecordedReplayStops'
  BY <1>1, <1>2 DEF RecordedReplayStops, SeenInHand, At, OthersWait, SameLocals
<1>10. SeenInHand'
  BY <1>1, <1>2 DEF SeenInHand, At, OthersWait, SameLocals
<1>11. WrittenSecretsAreRecorded'
  BY <1>1, <1>2 DEF WrittenSecretsAreRecorded, SeenInHand, At, TypeOK
<1>12. ReplayRefusedWithoutMishap' /\ FreshInHand'
  BY <1>1, <1>2, BoundsAssumption
  DEF ReplayRefusedWithoutMishap, ReplayRefused, FreshInHand, At, OthersWait, SameLocals,
      AloneUnlessOverlap, WrittenSecretsAreRecorded, TypeOK
<1> QED
  BY <1>3, <1>4, <1>5, <1>6, <1>7, <1>8, <1>9, <1>10, <1>11, <1>12

\* The bundle that is printed is the one in agent.key, unless processes overlap.
LEMMA PrintBundleKeeps ==
    ASSUME FilesStrongInv, NEW r \in Runs, PrintBundle(r)
    PROVE  FilesStrongInv'
<1> USE DEF FilesStrongInv, FilesInv, files, history
<1>1. /\ At(r, "print")
      /\ bundlesPrinted' = bundlesPrinted \union {run[r].key}
      /\ UNCHANGED <<files, started, operatorPrinted, retired, lastAccepted, acceptances, mishaps>>
  BY DEF PrintBundle
<1>2. /\ run' \in [Runs -> {Idle} \union Busy] /\ OthersWait(r) /\ run'[r].at = "idle"
  BY ExitEffect DEF PrintBundle
<1>3. TypeOK'
  BY <1>1, <1>2, BusyLocals, BoundsAssumption, KeyValues DEF TypeOK, RunsOK, Busy, At
<1>4. RunsOK' /\ CommandsFit'
  BY <1>1, <1>2, BusyLocals DEF RunsOK, CommandsFit, At, OthersWait, SameLocals
<1>5. AloneUnlessOverlap'
  BY <1>1, <1>2 DEF AloneUnlessOverlap, At, OthersWait
<1>6. TrustRootIsKept' /\ OperatorKeyInHand'
  BY <1>1, <1>2, KeyValues DEF TrustRootIsKept, OperatorKeyInHand, At, OthersWait, SameLocals
<1>7. PrintedIdentityIsKept' /\ AgentKeyInHand'
  BY <1>1, <1>2, KeyValues DEF PrintedIdentityIsKept, AgentKeyInHand, At, OthersWait, SameLocals
<1>8. PinsAreNewest' /\ PinsInHand'
  BY <1>1, <1>2, BoundsAssumption
  DEF PinsAreNewest, PinsInHand, At, OthersWait, SameLocals, AloneUnlessOverlap, TypeOK
<1>9. RecordedReplayStops'
  BY <1>1, <1>2 DEF RecordedReplayStops, SeenInHand, At, OthersWait, SameLocals
<1>10. SeenInHand'
  BY <1>1, <1>2 DEF SeenInHand, At, OthersWait, SameLocals
<1>11. WrittenSecretsAreRecorded'
  BY <1>1, <1>2 DEF WrittenSecretsAreRecorded, SeenInHand, At, TypeOK
<1>12. ReplayRefusedWithoutMishap' /\ FreshInHand'
  BY <1>1, <1>2, BoundsAssumption
  DEF ReplayRefusedWithoutMishap, ReplayRefused, FreshInHand, At, OthersWait, SameLocals,
      AloneUnlessOverlap, WrittenSecretsAreRecorded, TypeOK
<1> QED
  BY <1>3, <1>4, <1>5, <1>6, <1>7, <1>8, <1>9, <1>10, <1>11, <1>12

\* operator.key is filled by the process that created it.
LEMMA WriteOperatorKeyKeeps ==
    ASSUME FilesStrongInv, NEW r \in Runs, WriteOperatorKey(r)
    PROVE  FilesStrongInv'
<1> USE DEF FilesStrongInv, FilesInv, files, history
<1>1. /\ At(r, "operator write")
      /\ operatorKey' = run[r].key
      /\ UNCHANGED <<agentKey, bundlePins, seenIds, torn, secrets, started, history, mishaps>>
  BY DEF WriteOperatorKey
<1>2. /\ run' \in [Runs -> {Idle} \union Busy] /\ OthersWait(r)
      /\ run'[r].at = "operator print" /\ SameLocals(r)
  BY <1>1, GotoEffect DEF WriteOperatorKey, Steps, At
<1>3. TypeOK'
  BY <1>1, <1>2, BusyLocals, BoundsAssumption, KeyValues DEF TypeOK, RunsOK, Busy, At
<1>4. RunsOK' /\ CommandsFit'
  BY <1>1, <1>2, BusyLocals DEF RunsOK, CommandsFit, At, OthersWait, SameLocals
<1>5. AloneUnlessOverlap'
  BY <1>1, <1>2 DEF AloneUnlessOverlap, At, OthersWait
<1>6. TrustRootIsKept' /\ OperatorKeyInHand'
  <2>1. operatorPrinted = {}
    BY <1>1, KeyValues DEF TrustRootIsKept, OperatorKeyInHand, TypeOK
  <2>2. \A q \in Runs : q # r => run[q].at \notin {"operator write", "operator print"}
    BY <1>1 DEF OperatorKeyInHand, At
  <2> QED
    BY <1>1, <1>2, <2>1, <2>2
    DEF TrustRootIsKept, OperatorKeyInHand, At, OthersWait, SameLocals
<1>7. PrintedIdentityIsKept' /\ AgentKeyInHand'
  BY <1>1, <1>2, KeyValues DEF PrintedIdentityIsKept, AgentKeyInHand, At, OthersWait, SameLocals
<1>8. PinsAreNewest' /\ PinsInHand'
  BY <1>1, <1>2, BoundsAssumption
  DEF PinsAreNewest, PinsInHand, At, OthersWait, SameLocals, AloneUnlessOverlap, TypeOK
<1>9. RecordedReplayStops'
  BY <1>1, <1>2 DEF RecordedReplayStops, SeenInHand, At, OthersWait, SameLocals
<1>10. SeenInHand'
  BY <1>1, <1>2 DEF SeenInHand, At, OthersWait, SameLocals
<1>11. WrittenSecretsAreRecorded'
  BY <1>1, <1>2 DEF WrittenSecretsAreRecorded, SeenInHand, At, TypeOK
<1>12. ReplayRefusedWithoutMishap' /\ FreshInHand'
  BY <1>1, <1>2, BoundsAssumption
  DEF ReplayRefusedWithoutMishap, ReplayRefused, FreshInHand, At, OthersWait, SameLocals,
      AloneUnlessOverlap, WrittenSecretsAreRecorded, TypeOK
<1> QED
  BY <1>3, <1>4, <1>5, <1>6, <1>7, <1>8, <1>9, <1>10, <1>11, <1>12

\* The public half that is printed matches operator.key.
LEMMA PrintOperatorKeyKeeps ==
    ASSUME FilesStrongInv, NEW r \in Runs, PrintOperatorKey(r)
    PROVE  FilesStrongInv'
<1> USE DEF FilesStrongInv, FilesInv, files, history
<1>1. /\ At(r, "operator print")
      /\ operatorPrinted' = operatorPrinted \union {run[r].key}
      /\ UNCHANGED <<files, started, bundlesPrinted, retired, lastAccepted, acceptances, mishaps>>
  BY DEF PrintOperatorKey
<1>2. /\ run' \in [Runs -> {Idle} \union Busy] /\ OthersWait(r) /\ run'[r].at = "idle"
  BY ExitEffect DEF PrintOperatorKey
<1>3. TypeOK'
  BY <1>1, <1>2, BusyLocals, BoundsAssumption, KeyValues DEF TypeOK, RunsOK, Busy, At
<1>4. RunsOK' /\ CommandsFit'
  BY <1>1, <1>2, BusyLocals DEF RunsOK, CommandsFit, At, OthersWait, SameLocals
<1>5. AloneUnlessOverlap'
  BY <1>1, <1>2 DEF AloneUnlessOverlap, At, OthersWait
<1>6. TrustRootIsKept' /\ OperatorKeyInHand'
  BY <1>1, <1>2, KeyValues DEF TrustRootIsKept, OperatorKeyInHand, At, OthersWait, SameLocals
<1>7. PrintedIdentityIsKept' /\ AgentKeyInHand'
  BY <1>1, <1>2, KeyValues DEF PrintedIdentityIsKept, AgentKeyInHand, At, OthersWait, SameLocals
<1>8. PinsAreNewest' /\ PinsInHand'
  BY <1>1, <1>2, BoundsAssumption
  DEF PinsAreNewest, PinsInHand, At, OthersWait, SameLocals, AloneUnlessOverlap, TypeOK
<1>9. RecordedReplayStops'
  BY <1>1, <1>2 DEF RecordedReplayStops, SeenInHand, At, OthersWait, SameLocals
<1>10. SeenInHand'
  BY <1>1, <1>2 DEF SeenInHand, At, OthersWait, SameLocals
<1>11. WrittenSecretsAreRecorded'
  BY <1>1, <1>2 DEF WrittenSecretsAreRecorded, SeenInHand, At, TypeOK
<1>12. ReplayRefusedWithoutMishap' /\ FreshInHand'
  BY <1>1, <1>2, BoundsAssumption
  DEF ReplayRefusedWithoutMishap, ReplayRefused, FreshInHand, At, OthersWait, SameLocals,
      AloneUnlessOverlap, WrittenSecretsAreRecorded, TypeOK
<1> QED
  BY <1>3, <1>4, <1>5, <1>6, <1>7, <1>8, <1>9, <1>10, <1>11, <1>12

\* A bundle as old as its pin is accepted: the pin was the last accepted one.
LEMMA BundleAsPinnedKeeps ==
    ASSUME FilesStrongInv, NEW r \in Runs, BundleAsPinned(r)
    PROVE  FilesStrongInv'
<1> USE DEF FilesStrongInv, FilesInv, files, history
<1>1. /\ At(r, "pins")
      /\ PinMatches(r)
      /\ Accept(run[r].command.bundle)
      /\ UNCHANGED <<files, started, bundlesPrinted, operatorPrinted, retired, acceptances, mishaps>>
  BY DEF BundleAsPinned
<1>2. /\ run' \in [Runs -> {Idle} \union Busy] /\ OthersWait(r)
      /\ run'[r].at \in {"seal", "stat"} /\ SameLocals(r)
      /\ run'[r].at = "stat" => run[r].command.do = "open"
  BY <1>1, GotoEffect DEF BundleAsPinned, AfterBundle, Steps, At, CommandsFit
<1>3. run[r].command.bundle[1] \in Actors /\ run[r].command.bundle[2] \in 1 .. MaxCreated
  BY <1>1, BusyLocals, CommandShapes DEF CommandsFit, At
<1>4. TypeOK'
  BY <1>1, <1>2, <1>3, BusyLocals, BoundsAssumption, KeyValues
  DEF TypeOK, RunsOK, Busy, Accept, PinMatches, At
<1>5. RunsOK' /\ CommandsFit'
  BY <1>1, <1>2, <1>3, BusyLocals DEF RunsOK, CommandsFit, At, OthersWait, SameLocals
<1>6. AloneUnlessOverlap'
  BY <1>1, <1>2, <1>3 DEF AloneUnlessOverlap, At, OthersWait
<1>7. TrustRootIsKept' /\ OperatorKeyInHand'
  BY <1>1, <1>2, <1>3, KeyValues DEF TrustRootIsKept, OperatorKeyInHand, At, OthersWait, SameLocals
<1>8. PrintedIdentityIsKept' /\ AgentKeyInHand'
  BY <1>1, <1>2, <1>3, KeyValues
  DEF PrintedIdentityIsKept, AgentKeyInHand, At, OthersWait, SameLocals
<1>9. PinsAreNewest' /\ PinsInHand'
  <2>1. lastAccepted' = [lastAccepted EXCEPT ![run[r].command.bundle[1]] = run[r].command.bundle[2]]
    BY <1>1 DEF Accept
  <2>2. bundlePins = lastAccepted => lastAccepted' = lastAccepted
    BY <1>1, <1>3, <2>1 DEF PinMatches, TypeOK
  <2> QED
    BY <1>1, <1>2, <2>2 DEF PinsAreNewest, PinsInHand, At, OthersWait
<1>10. RecordedReplayStops'
  BY <1>1, <1>2, <1>3 DEF RecordedReplayStops, SeenInHand, At, OthersWait, SameLocals
<1>11. SeenInHand'
  BY <1>1, <1>2, <1>3 DEF SeenInHand, At, OthersWait, SameLocals
<1>12. WrittenSecretsAreRecorded'
  BY <1>1, <1>2, <1>3 DEF WrittenSecretsAreRecorded, SeenInHand, At, TypeOK
<1>13. ReplayRefusedWithoutMishap' /\ FreshInHand'
  BY <1>1, <1>2, <1>3, BoundsAssumption
  DEF ReplayRefusedWithoutMishap, ReplayRefused, FreshInHand, At, OthersWait, SameLocals,
      AloneUnlessOverlap, WrittenSecretsAreRecorded, TypeOK
<1> QED
  BY <1>4, <1>5, <1>6, <1>7, <1>8, <1>9, <1>10, <1>11, <1>12, <1>13

\* A newer bundle is about to be pinned, in the pins that are on disk now.
LEMMA BundleNewerKeeps ==
    ASSUME FilesStrongInv, NEW r \in Runs, BundleNewer(r)
    PROVE  FilesStrongInv'
<1> USE DEF FilesStrongInv, FilesInv, files, history
<1>1. /\ At(r, "pins")
      /\ run[r].command.bundle[2] > bundlePins[run[r].command.bundle[1]]
      /\ UNCHANGED <<files, started, history, mishaps>>
  BY DEF BundleNewer
<1>2. /\ run' \in [Runs -> {Idle} \union Busy] /\ OthersWait(r)
      /\ run'[r].at = "rename pins" /\ run'[r].pins = bundlePins
      /\ run'[r].command = run[r].command /\ run'[r].key = run[r].key
      /\ run'[r].recorded = run[r].recorded
  <2>1. run' = [run EXCEPT ![r] = [run[r] EXCEPT !.at = "rename pins", !.pins = bundlePins]]
    BY DEF BundleNewer
  <2>2. [run[r] EXCEPT !.at = "rename pins", !.pins = bundlePins] \in Busy
    BY <1>1, BusyLocals DEF Busy, Steps, TypeOK, At
  <2> QED
    BY <1>1, <2>1, <2>2, BusyLocals DEF RunsOK, OthersWait, Busy, At
<1>3. TypeOK'
  BY <1>1, <1>2, BusyLocals, BoundsAssumption, KeyValues DEF TypeOK, RunsOK, Busy, At
<1>4. RunsOK' /\ CommandsFit'
  BY <1>1, <1>2, BusyLocals DEF RunsOK, CommandsFit, At, OthersWait, SameLocals
<1>5. AloneUnlessOverlap'
  BY <1>1, <1>2 DEF AloneUnlessOverlap, At, OthersWait
<1>6. TrustRootIsKept' /\ OperatorKeyInHand'
  BY <1>1, <1>2, KeyValues DEF TrustRootIsKept, OperatorKeyInHand, At, OthersWait, SameLocals
<1>7. PrintedIdentityIsKept' /\ AgentKeyInHand'
  BY <1>1, <1>2, KeyValues DEF PrintedIdentityIsKept, AgentKeyInHand, At, OthersWait, SameLocals
<1>8. PinsAreNewest' /\ PinsInHand'
  BY <1>1, <1>2, BoundsAssumption
  DEF PinsAreNewest, PinsInHand, At, OthersWait, SameLocals, AloneUnlessOverlap, TypeOK
<1>9. RecordedReplayStops'
  BY <1>1, <1>2 DEF RecordedReplayStops, SeenInHand, At, OthersWait, SameLocals
<1>10. SeenInHand'
  BY <1>1, <1>2 DEF SeenInHand, At, OthersWait, SameLocals
<1>11. WrittenSecretsAreRecorded'
  BY <1>1, <1>2 DEF WrittenSecretsAreRecorded, SeenInHand, At, TypeOK
<1>12. ReplayRefusedWithoutMishap' /\ FreshInHand'
  BY <1>1, <1>2, BoundsAssumption
  DEF ReplayRefusedWithoutMishap, ReplayRefused, FreshInHand, At, OthersWait, SameLocals,
      AloneUnlessOverlap, WrittenSecretsAreRecorded, TypeOK
<1> QED
  BY <1>3, <1>4, <1>5, <1>6, <1>7, <1>8, <1>9, <1>10, <1>11, <1>12

\* The pins are replaced by those that were read, with the newer one.
LEMMA RenamePinsKeeps ==
    ASSUME FilesStrongInv, NEW r \in Runs, RenamePins(r)
    PROVE  FilesStrongInv'
<1> USE DEF FilesStrongInv, FilesInv, files, history
<1>1. /\ At(r, "rename pins")
      /\ bundlePins' = PinnedWith(r, run[r].command.bundle)
      /\ Accept(run[r].command.bundle)
      /\ UNCHANGED <<agentKey, operatorKey, seenIds, torn, secrets, started,
                     bundlesPrinted, operatorPrinted, retired, acceptances, mishaps>>
  BY DEF RenamePins
<1>2. /\ run' \in [Runs -> {Idle} \union Busy] /\ OthersWait(r)
      /\ run'[r].at \in {"seal", "stat"} /\ run'[r].pins = NoPins
      /\ run'[r].at = "stat" => run[r].command.do = "open"
      /\ run'[r].command = run[r].command /\ run'[r].key = run[r].key
      /\ run'[r].recorded = run[r].recorded
  <2>1. run' = [run EXCEPT ![r] = [run[r] EXCEPT !.at = AfterBundle(r), !.pins = NoPins]]
    BY DEF RenamePins
  <2>2. AfterBundle(r) \in {"seal", "stat"} /\ (AfterBundle(r) = "stat" => run[r].command.do = "open")
    BY <1>1 DEF AfterBundle, CommandsFit, At
  <2>3. NoPins \in [Actors -> 0 .. MaxCreated]
    BY BoundsAssumption DEF NoPins
  <2>4. [run[r] EXCEPT !.at = AfterBundle(r), !.pins = NoPins] \in Busy
    BY <1>1, <2>2, <2>3, BusyLocals DEF Busy, Steps, At
  <2> QED
    BY <1>1, <2>1, <2>2, <2>4, BusyLocals DEF RunsOK, OthersWait, Busy, At
<1>3. run[r].command.bundle[1] \in Actors /\ run[r].command.bundle[2] \in 1 .. MaxCreated
  BY <1>1, BusyLocals, CommandShapes DEF CommandsFit, At
<1>4. TypeOK'
  <2>1. bundlePins' \in [Actors -> 0 .. MaxCreated]
    <3>1. run[r].pins \in [Actors -> 0 .. MaxCreated]
      BY <1>1, BusyLocals DEF At
    <3> QED
      BY <1>1, <1>3, <3>1, PinFits DEF PinnedWith
  <2>2. lastAccepted' \in [Actors -> 0 .. MaxCreated]
    <3>1. lastAccepted \in [Actors -> 0 .. MaxCreated]
      BY DEF TypeOK
    <3> QED
      BY <1>1, <1>3, <3>1, PinFits DEF Accept
  <2> QED
    BY <1>1, <1>2, <2>1, <2>2 DEF TypeOK, RunsOK, Busy
<1>5. RunsOK' /\ CommandsFit'
  BY <1>1, <1>2, <1>3, BusyLocals DEF RunsOK, CommandsFit, At, OthersWait, SameLocals
<1>6. AloneUnlessOverlap'
  BY <1>1, <1>2, <1>3 DEF AloneUnlessOverlap, At, OthersWait
<1>7. TrustRootIsKept' /\ OperatorKeyInHand'
  BY <1>1, <1>2, <1>3, KeyValues DEF TrustRootIsKept, OperatorKeyInHand, At, OthersWait, SameLocals
<1>8. PrintedIdentityIsKept' /\ AgentKeyInHand'
  BY <1>1, <1>2, <1>3, KeyValues
  DEF PrintedIdentityIsKept, AgentKeyInHand, At, OthersWait, SameLocals
<1>9. PinsAreNewest' /\ PinsInHand'
  BY <1>1, <1>2, <1>3, BoundsAssumption
  DEF PinsAreNewest, PinsInHand, At, OthersWait, SameLocals, Accept, PinMatches, PinnedWith,
      AloneUnlessOverlap, TypeOK
<1>10. RecordedReplayStops'
  BY <1>1, <1>2, <1>3 DEF RecordedReplayStops, SeenInHand, At, OthersWait, SameLocals
<1>11. SeenInHand'
  BY <1>1, <1>2, <1>3 DEF SeenInHand, At, OthersWait, SameLocals
<1>12. WrittenSecretsAreRecorded'
  BY <1>1, <1>2, <1>3 DEF WrittenSecretsAreRecorded, SeenInHand, At, TypeOK
<1>13. ReplayRefusedWithoutMishap' /\ FreshInHand'
  BY <1>1, <1>2, <1>3, BoundsAssumption
  DEF ReplayRefusedWithoutMishap, ReplayRefused, FreshInHand, At, OthersWait, SameLocals,
      AloneUnlessOverlap, WrittenSecretsAreRecorded, TypeOK
<1> QED
  BY <1>4, <1>5, <1>6, <1>7, <1>8, <1>9, <1>10, <1>11, <1>12, <1>13

\* seal ends: no file changes.
LEMMA PrintEnvelopeKeeps ==
    ASSUME FilesStrongInv, NEW r \in Runs, PrintEnvelope(r)
    PROVE  FilesStrongInv'
<1> USE DEF FilesStrongInv, FilesInv, files, history
<1>1. /\ At(r, "seal")
      /\ UNCHANGED <<files, started, history, mishaps>>
  BY DEF PrintEnvelope
<1>2. /\ run' \in [Runs -> {Idle} \union Busy] /\ OthersWait(r) /\ run'[r].at = "idle"
  BY ExitEffect DEF PrintEnvelope
<1>3. TypeOK'
  BY <1>1, <1>2, BusyLocals, BoundsAssumption, KeyValues DEF TypeOK, RunsOK, Busy, At
<1>4. RunsOK' /\ CommandsFit'
  BY <1>1, <1>2, BusyLocals DEF RunsOK, CommandsFit, At, OthersWait, SameLocals
<1>5. AloneUnlessOverlap'
  BY <1>1, <1>2 DEF AloneUnlessOverlap, At, OthersWait
<1>6. TrustRootIsKept' /\ OperatorKeyInHand'
  BY <1>1, <1>2, KeyValues DEF TrustRootIsKept, OperatorKeyInHand, At, OthersWait, SameLocals
<1>7. PrintedIdentityIsKept' /\ AgentKeyInHand'
  BY <1>1, <1>2, KeyValues DEF PrintedIdentityIsKept, AgentKeyInHand, At, OthersWait, SameLocals
<1>8. PinsAreNewest' /\ PinsInHand'
  BY <1>1, <1>2, BoundsAssumption
  DEF PinsAreNewest, PinsInHand, At, OthersWait, SameLocals, AloneUnlessOverlap, TypeOK
<1>9. RecordedReplayStops'
  BY <1>1, <1>2 DEF RecordedReplayStops, SeenInHand, At, OthersWait, SameLocals
<1>10. SeenInHand'
  BY <1>1, <1>2 DEF SeenInHand, At, OthersWait, SameLocals
<1>11. WrittenSecretsAreRecorded'
  BY <1>1, <1>2 DEF WrittenSecretsAreRecorded, SeenInHand, At, TypeOK
<1>12. ReplayRefusedWithoutMishap' /\ FreshInHand'
  BY <1>1, <1>2, BoundsAssumption
  DEF ReplayRefusedWithoutMishap, ReplayRefused, FreshInHand, At, OthersWait, SameLocals,
      AloneUnlessOverlap, WrittenSecretsAreRecorded, TypeOK
<1> QED
  BY <1>3, <1>4, <1>5, <1>6, <1>7, <1>8, <1>9, <1>10, <1>11, <1>12

\* open found its destination free.
LEMMA StatOutKeeps ==
    ASSUME FilesStrongInv, NEW r \in Runs, StatOut(r)
    PROVE  FilesStrongInv'
<1> USE DEF FilesStrongInv, FilesInv, files, history
<1>1. /\ At(r, "stat")
      /\ UNCHANGED <<files, started, history, mishaps>>
  BY DEF StatOut
<1>2. /\ run' \in [Runs -> {Idle} \union Busy] /\ OthersWait(r)
      /\ run'[r].at = "seen" /\ SameLocals(r)
  BY <1>1, GotoEffect DEF StatOut, Steps, At
<1>3. TypeOK'
  BY <1>1, <1>2, BusyLocals, BoundsAssumption, KeyValues DEF TypeOK, RunsOK, Busy, At
<1>4. RunsOK' /\ CommandsFit'
  BY <1>1, <1>2, BusyLocals DEF RunsOK, CommandsFit, At, OthersWait, SameLocals
<1>5. AloneUnlessOverlap'
  BY <1>1, <1>2 DEF AloneUnlessOverlap, At, OthersWait
<1>6. TrustRootIsKept' /\ OperatorKeyInHand'
  BY <1>1, <1>2, KeyValues DEF TrustRootIsKept, OperatorKeyInHand, At, OthersWait, SameLocals
<1>7. PrintedIdentityIsKept' /\ AgentKeyInHand'
  BY <1>1, <1>2, KeyValues DEF PrintedIdentityIsKept, AgentKeyInHand, At, OthersWait, SameLocals
<1>8. PinsAreNewest' /\ PinsInHand'
  BY <1>1, <1>2, BoundsAssumption
  DEF PinsAreNewest, PinsInHand, At, OthersWait, SameLocals, AloneUnlessOverlap, TypeOK
<1>9. RecordedReplayStops'
  BY <1>1, <1>2 DEF RecordedReplayStops, SeenInHand, At, OthersWait, SameLocals
<1>10. SeenInHand'
  BY <1>1, <1>2 DEF SeenInHand, At, OthersWait, SameLocals
<1>11. WrittenSecretsAreRecorded'
  BY <1>1, <1>2 DEF WrittenSecretsAreRecorded, SeenInHand, At, TypeOK
<1>12. ReplayRefusedWithoutMishap' /\ FreshInHand'
  BY <1>1, <1>2, BoundsAssumption
  DEF ReplayRefusedWithoutMishap, ReplayRefused, FreshInHand, At, OthersWait, SameLocals,
      AloneUnlessOverlap, WrittenSecretsAreRecorded, TypeOK
<1> QED
  BY <1>3, <1>4, <1>5, <1>6, <1>7, <1>8, <1>9, <1>10, <1>11, <1>12

\* open did not find the id, so the secret was not written, unless a line was torn.
LEMMA CheckSeenListKeeps ==
    ASSUME FilesStrongInv, NEW r \in Runs, CheckSeenList(r)
    PROVE  FilesStrongInv'
<1> USE DEF FilesStrongInv, FilesInv, files, history
<1>1. /\ At(r, "seen")
      /\ run[r].command.id \notin seenIds
      /\ UNCHANGED <<files, started, history, mishaps>>
  BY DEF CheckSeenList
<1>2. /\ run' \in [Runs -> {Idle} \union Busy] /\ OthersWait(r)
      /\ run'[r].at = "mark" /\ SameLocals(r)
  BY <1>1, GotoEffect DEF CheckSeenList, Steps, At
<1>3. TypeOK'
  BY <1>1, <1>2, BusyLocals, BoundsAssumption, KeyValues DEF TypeOK, RunsOK, Busy, At
<1>4. RunsOK' /\ CommandsFit'
  BY <1>1, <1>2, BusyLocals DEF RunsOK, CommandsFit, At, OthersWait, SameLocals
<1>5. AloneUnlessOverlap'
  BY <1>1, <1>2 DEF AloneUnlessOverlap, At, OthersWait
<1>6. TrustRootIsKept' /\ OperatorKeyInHand'
  BY <1>1, <1>2, KeyValues DEF TrustRootIsKept, OperatorKeyInHand, At, OthersWait, SameLocals
<1>7. PrintedIdentityIsKept' /\ AgentKeyInHand'
  BY <1>1, <1>2, KeyValues DEF PrintedIdentityIsKept, AgentKeyInHand, At, OthersWait, SameLocals
<1>8. PinsAreNewest' /\ PinsInHand'
  BY <1>1, <1>2, BoundsAssumption
  DEF PinsAreNewest, PinsInHand, At, OthersWait, SameLocals, AloneUnlessOverlap, TypeOK
<1>9. RecordedReplayStops'
  BY <1>1, <1>2 DEF RecordedReplayStops, SeenInHand, At, OthersWait, SameLocals
<1>10. SeenInHand'
  BY <1>1, <1>2 DEF SeenInHand, At, OthersWait, SameLocals
<1>11. WrittenSecretsAreRecorded'
  BY <1>1, <1>2 DEF WrittenSecretsAreRecorded, SeenInHand, At, TypeOK
<1>12. ReplayRefusedWithoutMishap' /\ FreshInHand'
  <2>1. mishaps = {} => acceptances[run[r].command.id] = 0
    <3>1. run[r].command.id \in SecretIds
      BY <1>1, BusyLocals, CommandShapes DEF CommandsFit, At
    <3> QED
      BY <1>1, <3>1 DEF WrittenSecretsAreRecorded, TypeOK
  <2> QED
    BY <1>1, <1>2, <2>1
    DEF ReplayRefusedWithoutMishap, ReplayRefused, FreshInHand, At, OthersWait, SameLocals
<1> QED
  BY <1>3, <1>4, <1>5, <1>6, <1>7, <1>8, <1>9, <1>10, <1>11, <1>12

\* open could not read the list: a mishap.
LEMMA SeenListUnreadableKeeps ==
    ASSUME FilesStrongInv, NEW r \in Runs, SeenListUnreadable(r)
    PROVE  FilesStrongInv'
<1> USE DEF FilesStrongInv, FilesInv, files, history
<1>1. /\ At(r, "seen")
      /\ mishaps' = mishaps \union {"read error"}
      /\ UNCHANGED <<files, started, history>>
  BY DEF SeenListUnreadable
<1>2. /\ run' \in [Runs -> {Idle} \union Busy] /\ OthersWait(r)
      /\ run'[r].at = "mark" /\ SameLocals(r)
  BY <1>1, GotoEffect DEF SeenListUnreadable, Steps, At
<1>3. TypeOK'
  BY <1>1, <1>2, BusyLocals, BoundsAssumption, KeyValues DEF TypeOK, RunsOK, Busy, At
<1>4. RunsOK' /\ CommandsFit'
  BY <1>1, <1>2, BusyLocals DEF RunsOK, CommandsFit, At, OthersWait, SameLocals
<1>5. AloneUnlessOverlap'
  BY <1>1, <1>2 DEF AloneUnlessOverlap, At, OthersWait
<1>6. TrustRootIsKept' /\ OperatorKeyInHand'
  BY <1>1, <1>2, KeyValues DEF TrustRootIsKept, OperatorKeyInHand, At, OthersWait, SameLocals
<1>7. PrintedIdentityIsKept' /\ AgentKeyInHand'
  BY <1>1, <1>2, KeyValues DEF PrintedIdentityIsKept, AgentKeyInHand, At, OthersWait, SameLocals
<1>8. PinsAreNewest' /\ PinsInHand'
  BY <1>1, <1>2, BoundsAssumption
  DEF PinsAreNewest, PinsInHand, At, OthersWait, SameLocals, AloneUnlessOverlap, TypeOK
<1>9. RecordedReplayStops'
  BY <1>1, <1>2 DEF RecordedReplayStops, SeenInHand, At, OthersWait, SameLocals
<1>10. SeenInHand'
  BY <1>1, <1>2 DEF SeenInHand, At, OthersWait, SameLocals
<1>11. WrittenSecretsAreRecorded'
  BY <1>1, <1>2 DEF WrittenSecretsAreRecorded, SeenInHand, At, TypeOK
<1>12. ReplayRefusedWithoutMishap' /\ FreshInHand'
  BY <1>1, <1>2, BoundsAssumption
  DEF ReplayRefusedWithoutMishap, ReplayRefused, FreshInHand, At, OthersWait, SameLocals,
      AloneUnlessOverlap, WrittenSecretsAreRecorded, TypeOK
<1> QED
  BY <1>3, <1>4, <1>5, <1>6, <1>7, <1>8, <1>9, <1>10, <1>11, <1>12

\* The id is in the list before the secret is written.
LEMMA MarkSeenKeeps ==
    ASSUME FilesStrongInv, NEW r \in Runs, MarkSeen(r)
    PROVE  FilesStrongInv'
<1> USE DEF FilesStrongInv, FilesInv, files, history
<1>1. /\ At(r, "mark")
      /\ torn' = FALSE
      /\ seenIds' = IF torn THEN seenIds ELSE seenIds \union {run[r].command.id}
      /\ UNCHANGED <<agentKey, operatorKey, bundlePins, secrets, started, history, mishaps>>
  BY DEF MarkSeen
<1>2. /\ run' \in [Runs -> {Idle} \union Busy] /\ OthersWait(r)
      /\ run'[r].at = "install" /\ SameLocals(r)
  BY <1>1, GotoEffect DEF MarkSeen, Steps, At
<1>3. run[r].command.id \in SecretIds /\ run[r].command.out \in Outs
  BY <1>1, BusyLocals, CommandShapes DEF CommandsFit, At
<1>4. TypeOK'
  BY <1>1, <1>2, <1>3, BusyLocals, BoundsAssumption, KeyValues DEF TypeOK, RunsOK, Busy, At
<1>5. RunsOK' /\ CommandsFit'
  BY <1>1, <1>2, <1>3, BusyLocals DEF RunsOK, CommandsFit, At, OthersWait, SameLocals
<1>6. AloneUnlessOverlap'
  BY <1>1, <1>2, <1>3 DEF AloneUnlessOverlap, At, OthersWait
<1>7. TrustRootIsKept' /\ OperatorKeyInHand'
  BY <1>1, <1>2, <1>3, KeyValues DEF TrustRootIsKept, OperatorKeyInHand, At, OthersWait, SameLocals
<1>8. PrintedIdentityIsKept' /\ AgentKeyInHand'
  BY <1>1, <1>2, <1>3, KeyValues
  DEF PrintedIdentityIsKept, AgentKeyInHand, At, OthersWait, SameLocals
<1>9. PinsAreNewest' /\ PinsInHand'
  BY <1>1, <1>2, <1>3, BoundsAssumption
  DEF PinsAreNewest, PinsInHand, At, OthersWait, SameLocals, AloneUnlessOverlap, TypeOK
<1>10. RecordedReplayStops'
  BY <1>1, <1>2, <1>3 DEF RecordedReplayStops, SeenInHand, At, OthersWait, SameLocals
<1>11. SeenInHand'
  BY <1>1, <1>2, <1>3 DEF SeenInHand, At, OthersWait, SameLocals
<1>12. WrittenSecretsAreRecorded'
  BY <1>1, <1>2, <1>3 DEF WrittenSecretsAreRecorded, SeenInHand, At, TypeOK
<1>13. ReplayRefusedWithoutMishap' /\ FreshInHand'
  BY <1>1, <1>2
  DEF ReplayRefusedWithoutMishap, ReplayRefused, FreshInHand, At, OthersWait, SameLocals
<1> QED
  BY <1>4, <1>5, <1>6, <1>7, <1>8, <1>9, <1>10, <1>11, <1>12, <1>13

\* A short append: a mishap, and the process ends.
LEMMA MarkSeenShortKeeps ==
    ASSUME FilesStrongInv, NEW r \in Runs, MarkSeenShort(r)
    PROVE  FilesStrongInv'
<1> USE DEF FilesStrongInv, FilesInv, files, history
<1>1. /\ At(r, "mark")
      /\ torn' = TRUE
      /\ mishaps' = mishaps \union {"short write"}
      /\ UNCHANGED <<agentKey, operatorKey, bundlePins, seenIds, secrets, started, history>>
  BY DEF MarkSeenShort
<1>2. /\ run' \in [Runs -> {Idle} \union Busy] /\ OthersWait(r) /\ run'[r].at = "idle"
  BY ExitEffect DEF MarkSeenShort
<1>3. TypeOK'
  BY <1>1, <1>2, BusyLocals, BoundsAssumption, KeyValues DEF TypeOK, RunsOK, Busy, At
<1>4. RunsOK' /\ CommandsFit'
  BY <1>1, <1>2, BusyLocals DEF RunsOK, CommandsFit, At, OthersWait, SameLocals
<1>5. AloneUnlessOverlap'
  BY <1>1, <1>2 DEF AloneUnlessOverlap, At, OthersWait
<1>6. TrustRootIsKept' /\ OperatorKeyInHand'
  BY <1>1, <1>2, KeyValues DEF TrustRootIsKept, OperatorKeyInHand, At, OthersWait, SameLocals
<1>7. PrintedIdentityIsKept' /\ AgentKeyInHand'
  BY <1>1, <1>2, KeyValues DEF PrintedIdentityIsKept, AgentKeyInHand, At, OthersWait, SameLocals
<1>8. PinsAreNewest' /\ PinsInHand'
  BY <1>1, <1>2, BoundsAssumption
  DEF PinsAreNewest, PinsInHand, At, OthersWait, SameLocals, AloneUnlessOverlap, TypeOK
<1>9. RecordedReplayStops'
  BY <1>1, <1>2 DEF RecordedReplayStops, SeenInHand, At, OthersWait, SameLocals
<1>10. SeenInHand'
  BY <1>1, <1>2 DEF SeenInHand, At, OthersWait, SameLocals
<1>11. WrittenSecretsAreRecorded'
  BY <1>1, <1>2 DEF WrittenSecretsAreRecorded, SeenInHand, At, TypeOK
<1>12. ReplayRefusedWithoutMishap' /\ FreshInHand'
  BY <1>1, <1>2, BoundsAssumption
  DEF ReplayRefusedWithoutMishap, ReplayRefused, FreshInHand, At, OthersWait, SameLocals,
      AloneUnlessOverlap, WrittenSecretsAreRecorded, TypeOK
<1> QED
  BY <1>3, <1>4, <1>5, <1>6, <1>7, <1>8, <1>9, <1>10, <1>11, <1>12

\* The secret is written: for the first time, unless a mishap happened.
LEMMA RenameSecretKeeps ==
    ASSUME FilesStrongInv, NEW r \in Runs, RenameSecret(r)
    PROVE  FilesStrongInv'
<1> USE DEF FilesStrongInv, FilesInv, files, history
<1>1. /\ At(r, "install")
      /\ secrets' = [secrets EXCEPT ![run[r].command.out] = run[r].command.id]
      /\ acceptances' = [acceptances EXCEPT ![run[r].command.id] = @ + 1]
      /\ UNCHANGED <<agentKey, operatorKey, bundlePins, seenIds, torn, started,
                     bundlesPrinted, operatorPrinted, retired, lastAccepted, mishaps>>
  BY DEF RenameSecret
<1>2. /\ run' \in [Runs -> {Idle} \union Busy] /\ OthersWait(r) /\ run'[r].at = "idle"
  BY ExitEffect DEF RenameSecret
<1>3. run[r].command.id \in SecretIds /\ run[r].command.out \in Outs
  BY <1>1, BusyLocals, CommandShapes DEF CommandsFit, At
<1>4. TypeOK'
  <2>1. acceptances' \in [SecretIds -> Nat]
    <3>1. acceptances \in [SecretIds -> Nat]
      BY DEF TypeOK
    <3> QED
      BY <1>1, <1>3, <3>1, CountFits
  <2>2. secrets' \in [Outs -> {Absent} \union SecretIds]
    BY <1>1, <1>3 DEF TypeOK
  <2> QED
    BY <1>1, <1>2, <2>1, <2>2 DEF TypeOK, RunsOK, Busy
<1>5. RunsOK' /\ CommandsFit'
  BY <1>1, <1>2, <1>3, BusyLocals DEF RunsOK, CommandsFit, At, OthersWait, SameLocals
<1>6. AloneUnlessOverlap'
  BY <1>1, <1>2, <1>3 DEF AloneUnlessOverlap, At, OthersWait
<1>7. TrustRootIsKept' /\ OperatorKeyInHand'
  BY <1>1, <1>2, <1>3, KeyValues DEF TrustRootIsKept, OperatorKeyInHand, At, OthersWait, SameLocals
<1>8. PrintedIdentityIsKept' /\ AgentKeyInHand'
  BY <1>1, <1>2, <1>3, KeyValues
  DEF PrintedIdentityIsKept, AgentKeyInHand, At, OthersWait, SameLocals
<1>9. PinsAreNewest' /\ PinsInHand'
  BY <1>1, <1>2, <1>3, BoundsAssumption
  DEF PinsAreNewest, PinsInHand, At, OthersWait, SameLocals, AloneUnlessOverlap, TypeOK
<1>10. RecordedReplayStops'
  BY <1>1, <1>2, <1>3 DEF RecordedReplayStops, SeenInHand, At, OthersWait, SameLocals
<1>11. SeenInHand'
  BY <1>1, <1>2, <1>3 DEF SeenInHand, At, OthersWait, SameLocals
<1>12. WrittenSecretsAreRecorded'
  BY <1>1, <1>2, <1>3 DEF WrittenSecretsAreRecorded, SeenInHand, At, TypeOK
<1>13. ReplayRefusedWithoutMishap' /\ FreshInHand'
  <2>1. mishaps = {} => acceptances[run[r].command.id] = 0
    BY <1>1 DEF FreshInHand
  <2>2. mishaps = {} => \A i \in SecretIds : acceptances'[i] <= 1
    BY <1>1, <1>3, <2>1 DEF ReplayRefusedWithoutMishap, ReplayRefused, TypeOK
  <2>3. mishaps = {} => \A q \in Runs : q # r => run[q].at = "idle"
    BY <1>1 DEF AloneUnlessOverlap, At
  <2> QED
    BY <1>1, <1>2, <2>2, <2>3
    DEF ReplayRefusedWithoutMishap, ReplayRefused, FreshInHand, At, OthersWait
<1> QED
  BY <1>4, <1>5, <1>6, <1>7, <1>8, <1>9, <1>10, <1>11, <1>12, <1>13

\* A process ends early: what it wrote stays.
LEMMA AbortKeeps ==
    ASSUME FilesStrongInv, NEW r \in Runs, Abort(r)
    PROVE  FilesStrongInv'
<1> USE DEF FilesStrongInv, FilesInv, files, history
<1>1. UNCHANGED <<files, started, history, mishaps>>
  BY DEF Abort
<1>2. /\ run' \in [Runs -> {Idle} \union Busy] /\ OthersWait(r) /\ run'[r].at = "idle"
  BY ExitEffect DEF Abort
<1>3. TypeOK'
  BY <1>1, <1>2, BusyLocals, BoundsAssumption, KeyValues DEF TypeOK, RunsOK, Busy, At
<1>4. RunsOK' /\ CommandsFit'
  BY <1>1, <1>2, BusyLocals DEF RunsOK, CommandsFit, At, OthersWait, SameLocals
<1>5. AloneUnlessOverlap'
  BY <1>1, <1>2 DEF AloneUnlessOverlap, At, OthersWait
<1>6. TrustRootIsKept' /\ OperatorKeyInHand'
  BY <1>1, <1>2, KeyValues DEF TrustRootIsKept, OperatorKeyInHand, At, OthersWait, SameLocals
<1>7. PrintedIdentityIsKept' /\ AgentKeyInHand'
  BY <1>1, <1>2, KeyValues DEF PrintedIdentityIsKept, AgentKeyInHand, At, OthersWait, SameLocals
<1>8. PinsAreNewest' /\ PinsInHand'
  BY <1>1, <1>2, BoundsAssumption
  DEF PinsAreNewest, PinsInHand, At, OthersWait, SameLocals, AloneUnlessOverlap, TypeOK
<1>9. RecordedReplayStops'
  BY <1>1, <1>2 DEF RecordedReplayStops, SeenInHand, At, OthersWait, SameLocals
<1>10. SeenInHand'
  BY <1>1, <1>2 DEF SeenInHand, At, OthersWait, SameLocals
<1>11. WrittenSecretsAreRecorded'
  BY <1>1, <1>2 DEF WrittenSecretsAreRecorded, SeenInHand, At, TypeOK
<1>12. ReplayRefusedWithoutMishap' /\ FreshInHand'
  BY <1>1, <1>2, BoundsAssumption
  DEF ReplayRefusedWithoutMishap, ReplayRefused, FreshInHand, At, OthersWait, SameLocals,
      AloneUnlessOverlap, WrittenSecretsAreRecorded, TypeOK
<1> QED
  BY <1>3, <1>4, <1>5, <1>6, <1>7, <1>8, <1>9, <1>10, <1>11, <1>12

\* The user deletes agent.key: its identity is retired.
LEMMA DeleteAgentKeyKeeps ==
    ASSUME FilesStrongInv, DeleteAgentKey
    PROVE  FilesStrongInv'
<1> USE DEF FilesStrongInv, FilesInv, files, history
<1>1. /\ agentKey # Absent /\ agentKey' = Absent /\ retired' = retired \union {agentKey}
      /\ \A r \in Runs : At(r, "idle")
      /\ UNCHANGED <<operatorKey, bundlePins, seenIds, torn, secrets, run, started, bundlesPrinted,
                     operatorPrinted, lastAccepted, acceptances, mishaps>>
  BY DEF DeleteAgentKey
<1>2. TypeOK'
  BY <1>1, BoundsAssumption, KeyValues DEF TypeOK, RunsOK, Busy, At
<1>3. RunsOK' /\ CommandsFit'
  BY <1>1, BusyLocals DEF RunsOK, CommandsFit, At
<1>4. AloneUnlessOverlap'
  BY <1>1 DEF AloneUnlessOverlap, At
<1>5. TrustRootIsKept' /\ OperatorKeyInHand'
  BY <1>1, KeyValues DEF TrustRootIsKept, OperatorKeyInHand, At
<1>6. PrintedIdentityIsKept' /\ AgentKeyInHand'
  BY <1>1, KeyValues DEF PrintedIdentityIsKept, AgentKeyInHand, At
<1>7. PinsAreNewest' /\ PinsInHand'
  BY <1>1, BoundsAssumption DEF PinsAreNewest, PinsInHand, At, AloneUnlessOverlap, TypeOK
<1>8. RecordedReplayStops'
  BY <1>1 DEF RecordedReplayStops, SeenInHand, At
<1>9. SeenInHand'
  BY <1>1 DEF SeenInHand, At
<1>10. WrittenSecretsAreRecorded'
  BY <1>1 DEF WrittenSecretsAreRecorded, SeenInHand, At, TypeOK
<1>11. ReplayRefusedWithoutMishap' /\ FreshInHand'
  BY <1>1, BoundsAssumption
  DEF ReplayRefusedWithoutMishap, ReplayRefused, FreshInHand, At, AloneUnlessOverlap,
      WrittenSecretsAreRecorded, TypeOK
<1> QED
  BY <1>2, <1>3, <1>4, <1>5, <1>6, <1>7, <1>8, <1>9, <1>10, <1>11

------------------------------------------------------------------------------
(* The theorems.                                                           *)

\* The files as the first process finds them.
LEMMA InitFiles == Init => FilesStrongInv
<1> SUFFICES ASSUME Init PROVE FilesStrongInv
  OBVIOUS
<1> USE DEF Init
<1>1. NoPins \in [Actors -> 0 .. MaxCreated] /\ Idle.at = "idle"
  BY BoundsAssumption DEF NoPins, Idle
<1>2. \A r \in Runs : run[r] = Idle /\ run[r].at = "idle"
  BY <1>1
<1>3. TypeOK
  <2>1. started \in 1 .. MaxStarts
    BY BoundsAssumption
  <2>2. agentKey \in {Absent} \union Key
    BY KeyValues
  <2> QED
    BY <1>1, <1>2, <2>1, <2>2 DEF TypeOK
<1>4. RunsOK /\ CommandsFit /\ AloneUnlessOverlap
  BY <1>2 DEF RunsOK, CommandsFit, AloneUnlessOverlap, At
<1>5. OperatorKeyInHand /\ AgentKeyInHand /\ PinsInHand /\ SeenInHand /\ FreshInHand
  BY <1>2 DEF OperatorKeyInHand, AgentKeyInHand, PinsInHand, SeenInHand, FreshInHand, At
<1>6. TrustRootIsKept /\ PinsAreNewest /\ RecordedReplayStops /\ PrintedIdentityIsKept
  BY <1>2 DEF TrustRootIsKept, PinsAreNewest, RecordedReplayStops, PrintedIdentityIsKept, At
<1>7. WrittenSecretsAreRecorded /\ ReplayRefusedWithoutMishap
  BY DEF WrittenSecretsAreRecorded, ReplayRefusedWithoutMishap, ReplayRefused
<1> QED
  BY <1>3, <1>4, <1>5, <1>6, <1>7 DEF FilesStrongInv, FilesInv

\* Nothing changes in a stuttering step.
LEMMA StutterKeepsFiles ==
    ASSUME FilesStrongInv, UNCHANGED vars
    PROVE  FilesStrongInv'
<1> USE DEF vars, files, history
<1>1. FilesInv'
  BY DEF FilesStrongInv, FilesInv, TypeOK, TrustRootIsKept, PinsAreNewest, RecordedReplayStops, At
<1>2. /\ PrintedIdentityIsKept' /\ WrittenSecretsAreRecorded' /\ ReplayRefusedWithoutMishap'
      /\ RunsOK' /\ CommandsFit' /\ AloneUnlessOverlap'
  BY DEF FilesStrongInv, PrintedIdentityIsKept, WrittenSecretsAreRecorded,
         ReplayRefusedWithoutMishap, ReplayRefused, RunsOK, CommandsFit, AloneUnlessOverlap, At
<1>3. OperatorKeyInHand' /\ AgentKeyInHand' /\ PinsInHand' /\ SeenInHand' /\ FreshInHand'
  BY DEF FilesStrongInv, OperatorKeyInHand, AgentKeyInHand, PinsInHand, SeenInHand, FreshInHand, At
<1> QED
  BY <1>1, <1>2, <1>3 DEF FilesStrongInv

\* Every step keeps the invariant.
LEMMA StepKeepsFiles == FilesStrongInv /\ [Next]_vars => FilesStrongInv'
<1> SUFFICES ASSUME FilesStrongInv, [Next]_vars PROVE FilesStrongInv'
  OBVIOUS
<1>1. CASE UNCHANGED vars
  BY <1>1, StutterKeepsFiles
<1>2. ASSUME NEW r \in Runs, NEW c \in Commands,
             StatAgentKey(r, c) \/ LoadForKeys(r, c) \/ CreateOperatorKey(r, c) \/ LoadForBundle(r, c)
      PROVE  FilesStrongInv'
  BY <1>2, StatAgentKeyKeeps, LoadForKeysKeeps, CreateOperatorKeyKeeps, LoadForBundleKeeps
<1>3. ASSUME NEW r \in Runs,
             TruncateAgentKey(r) \/ WriteAgentKey(r) \/ PrintBundle(r)
             \/ WriteOperatorKey(r) \/ PrintOperatorKey(r)
      PROVE  FilesStrongInv'
  BY <1>3, TruncateAgentKeyKeeps, WriteAgentKeyKeeps, PrintBundleKeeps, WriteOperatorKeyKeeps,
     PrintOperatorKeyKeeps
<1>4. ASSUME NEW r \in Runs,
             BundleAsPinned(r) \/ BundleNewer(r) \/ RenamePins(r) \/ PrintEnvelope(r) \/ StatOut(r)
      PROVE  FilesStrongInv'
  BY <1>4, BundleAsPinnedKeeps, BundleNewerKeeps, RenamePinsKeeps, PrintEnvelopeKeeps, StatOutKeeps
<1>5. ASSUME NEW r \in Runs,
             CheckSeenList(r) \/ SeenListUnreadable(r) \/ MarkSeen(r) \/ MarkSeenShort(r)
             \/ RenameSecret(r) \/ Abort(r)
      PROVE  FilesStrongInv'
  BY <1>5, CheckSeenListKeeps, SeenListUnreadableKeeps, MarkSeenKeeps, MarkSeenShortKeeps,
     RenameSecretKeeps, AbortKeeps
<1> QED
  BY <1>1, <1>2, <1>3, <1>4, <1>5, DeleteAgentKeyKeeps DEF Next

\* A step lowers the created_at accepted last of no actor, unless processes overlap.
LEMMA StepRefusesRollback ==
    ASSUME FilesStrongInv, [Next]_vars
    PROVE  \A a \in Actors : "overlap" \in mishaps \/ lastAccepted[a] <= lastAccepted'[a]
<1>1. lastAccepted \in [Actors -> 0 .. MaxCreated]
  BY DEF FilesStrongInv, FilesInv, TypeOK
<1>2. CASE UNCHANGED lastAccepted
  <2>1. \A a \in Actors : lastAccepted[a] \in 0 .. MaxCreated
    BY <1>1
  <2> QED
    BY <1>2, <2>1, BoundsAssumption
<1>3. ASSUME NEW r \in Runs, BundleAsPinned(r) \/ RenamePins(r), "overlap" \notin mishaps
      PROVE  \A a \in Actors : lastAccepted[a] <= lastAccepted'[a]
  <2> DEFINE bundle == run[r].command.bundle
  <2>1. bundle[1] \in Actors /\ bundle[2] \in 1 .. MaxCreated
    BY <1>3, BusyLocals, CommandShapes
    DEF BundleAsPinned, RenamePins, FilesStrongInv, CommandsFit, At
  <2>2. lastAccepted' = [lastAccepted EXCEPT ![bundle[1]] = bundle[2]]
    BY <1>3 DEF BundleAsPinned, RenamePins, Accept
  <2>3. bundlePins = lastAccepted
    BY <1>3 DEF FilesStrongInv, FilesInv, PinsAreNewest
  <2>4. bundle[2] = lastAccepted[bundle[1]] \/ bundle[2] > lastAccepted[bundle[1]]
    <3>1. CASE BundleAsPinned(r)
      BY <2>3, <3>1 DEF BundleAsPinned, PinMatches
    <3>2. CASE RenamePins(r)
      BY <1>3, <2>3, <3>2 DEF RenamePins, FilesStrongInv, PinsInHand
    <3> QED
      BY <1>3, <3>1, <3>2
  <2> HIDE DEF bundle
  <2>5. \A a \in Actors : lastAccepted[a] \in 0 .. MaxCreated /\ lastAccepted'[a] =
            IF a = bundle[1] THEN bundle[2] ELSE lastAccepted[a]
    BY <1>1, <2>1, <2>2
  <2> QED
    BY <2>1, <2>4, <2>5, BoundsAssumption
<1>4. UNCHANGED lastAccepted \/ \E r \in Runs : BundleAsPinned(r) \/ RenamePins(r)
  <2> USE DEF vars, history
  <2>1. ASSUME NEW r \in Runs, NEW c \in Commands,
               StatAgentKey(r, c) \/ LoadForKeys(r, c) \/ CreateOperatorKey(r, c) \/ LoadForBundle(r, c)
        PROVE  UNCHANGED lastAccepted
    BY <2>1 DEF StatAgentKey, LoadForKeys, CreateOperatorKey, LoadForBundle
  <2>2. ASSUME NEW r \in Runs,
               TruncateAgentKey(r) \/ WriteAgentKey(r) \/ PrintBundle(r)
               \/ WriteOperatorKey(r) \/ PrintOperatorKey(r)
        PROVE  UNCHANGED lastAccepted
    BY <2>2 DEF TruncateAgentKey, WriteAgentKey, PrintBundle, WriteOperatorKey, PrintOperatorKey
  <2>3. ASSUME NEW r \in Runs, BundleNewer(r) \/ PrintEnvelope(r) \/ StatOut(r) \/ CheckSeenList(r)
               \/ SeenListUnreadable(r)
        PROVE  UNCHANGED lastAccepted
    BY <2>3 DEF BundleNewer, PrintEnvelope, StatOut, CheckSeenList, SeenListUnreadable
  <2>4. ASSUME NEW r \in Runs, MarkSeen(r) \/ MarkSeenShort(r) \/ RenameSecret(r) \/ Abort(r)
        PROVE  UNCHANGED lastAccepted
    BY <2>4 DEF MarkSeen, MarkSeenShort, RenameSecret, Abort
  <2>5. CASE DeleteAgentKey
    BY <2>5 DEF DeleteAgentKey
  <2>6. CASE UNCHANGED vars
    BY <2>6
  <2> QED
    BY <2>1, <2>2, <2>3, <2>4, <2>5, <2>6 DEF Next
<1> QED
  BY <1>2, <1>3, <1>4

\* The inductive invariant of the files under any interleaving, kill and refusal.
THEOREM FilesInvariant == Spec => []FilesStrongInv
  BY InitFiles, StepKeepsFiles, PTL DEF Spec

\* The trust root is never overwritten, the pins are the newest accepted ones, and
\* a recorded replay stops, for any number of overlapping processes.
THEOREM FilesKeepTheirPromises == Spec => []FilesInv
<1>1. FilesStrongInv => FilesInv
  BY DEF FilesStrongInv
<1> QED
  BY <1>1, FilesInvariant, PTL

\* keygen (main.go:251-252): a bundle that was printed has its private half in
\* agent.key until it is deleted on purpose, a failing Stat hides it, or processes overlap.
THEOREM PrintedIdentitySurvives == Spec => []PrintedIdentityIsKept
<1>1. FilesStrongInv => PrintedIdentityIsKept
  BY DEF FilesStrongInv
<1> QED
  BY <1>1, FilesInvariant, PTL

\* open (main.go:422-424): the id of every secret that was written is in seen_ids,
\* unless an append was cut short.
THEOREM SecretsAreRecordedFirst == Spec => []WrittenSecretsAreRecorded
<1>1. FilesStrongInv => WrittenSecretsAreRecorded
  BY DEF FilesStrongInv
<1> QED
  BY <1>1, FilesInvariant, PTL

\* open (main.go:583-584): without a mishap each secret is written once.
THEOREM ReplaysAreRefused == Spec => []ReplayRefusedWithoutMishap
<1>1. FilesStrongInv => ReplayRefusedWithoutMishap
  BY DEF FilesStrongInv
<1> QED
  BY <1>1, FilesInvariant, PTL

\* checkBundlePin (main.go:485-488): no step accepts a bundle older than the last
\* one accepted of its actor, unless processes overlap.
THEOREM RollbacksAreRefused == Spec => RolledBackBundleRefused
<1>1. FilesStrongInv /\ [Next]_vars =>
          [\A a \in Actors : "overlap" \in mishaps \/ lastAccepted[a] <= lastAccepted'[a]]_vars
  BY StepRefusesRollback
<1> QED
  BY <1>1, FilesInvariant, PTL DEF Spec, RolledBackBundleRefused

==============================================================================
