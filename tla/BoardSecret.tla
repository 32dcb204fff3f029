----------------------------- MODULE BoardSecret -----------------------------
(***************************************************************************)
(* The board-secret CLI on one host: processes that share the files of     *)
(* ~/.board-secret and ~/.secrets and no lock.  One step is one file       *)
(* access; a process may be killed, or refuse and exit, between any two.   *)
(*                                                                         *)
(* Cryptography is reduced to which key made or opens what.  Keys are      *)
(* numbered by the process that generated them, and a bundle is an actor   *)
(* with the created_at its operator-signed keys carry.  Envelopes are      *)
(* handed to `open` as often as anybody likes.                             *)
(***************************************************************************)
EXTENDS Integers

CONSTANTS
    Runs,          \* processes alive at the same time
    Actors,        \* the other agents, whose bundles are pinned
    MaxCreated,    \* bound: the values of created_at
    SecretIds,
    Envelope,      \* of each secret id: the bundle that signed it, the key it is sealed to
    Outs,          \* --out paths under ~/.secrets
    Commands,      \* bound: the command lines that are tried
    MaxStarts      \* bound: processes started, the one that made key 1 included

Bundle == Actors \X (1 .. MaxCreated)

ASSUME BoundsAssumption == MaxCreated \in Nat \ {0} /\ MaxStarts \in Nat \ {0}
ASSUME SecretIdsAssumption == 0 \notin SecretIds
ASSUME EnvelopeAssumption == Envelope \in [SecretIds -> [bundle : Bundle, key : Nat \ {0}]]
ASSUME CommandsAssumption ==
    Commands \subseteq [do : {"keygen", "keys", "operator keygen"}]
       \union [do : {"seal"}, bundle : Bundle]
       \union [do : {"open"}, bundle : Bundle, id : SecretIds, out : Outs, force : BOOLEAN]

VARIABLES
    agentKey,        \* agent.key: Absent, Truncated, or the key it holds
    operatorKey,     \* operator.key, on the operator's machine
    bundlePins,      \* bundle_pins.json: the pinned created_at of an actor, 0 if none
    seenIds,         \* the lines of seen_ids that are a secret id
    torn,            \* seen_ids ends in the middle of a line
    secrets,         \* the secret each file under ~/.secrets holds, Absent if there is none
    run,             \* what each process does next, and its locals
    started,         \* processes started so far
    bundlesPrinted,  \* history: agent keys whose bundle was printed
    operatorPrinted, \* history: operator keys whose public half was printed
    retired,         \* history: agent keys deleted on purpose, or hidden by a failing Stat
    lastAccepted,    \* history: created_at of the bundle of an actor accepted last
    acceptances,     \* history: how often each secret was written
    mishaps          \* history: "overlap", "read error", "short write"

files == <<agentKey, operatorKey, bundlePins, seenIds, torn, secrets>>
history == <<bundlesPrinted, operatorPrinted, retired, lastAccepted, acceptances>>
vars == <<files, run, started, history, mishaps>>

Absent == 0
Truncated == -1
Key == 1 .. MaxStarts

NoPins == [a \in Actors |-> 0]

Idle == [at |-> "idle"]
At(r, step) == run[r].at = step
Exit(r) == run' = [run EXCEPT ![r] = Idle]
Goto(r, step) == run' = [run EXCEPT ![r].at = step]

Init ==
    /\ agentKey \in {Absent, 1}
    /\ bundlesPrinted = {agentKey} \ {Absent}
    /\ operatorKey = Absent /\ operatorPrinted = {}
    /\ bundlePins = NoPins /\ lastAccepted = NoPins
    /\ seenIds = {} /\ torn = FALSE
    /\ secrets = [o \in Outs |-> Absent]
    /\ acceptances = [i \in SecretIds |-> 0]
    /\ run = [r \in Runs |-> Idle]
    /\ started = 1
    /\ retired = {} /\ mishaps = {}

\* Process r runs command c as number started', and goes on at step with key.
\* `recorded` is history: the secret to open was in seen_ids by then.
Start(r, c, step, key) ==
    /\ At(r, "idle")
    /\ started < MaxStarts
    /\ started' = started + 1
    /\ run' = [run EXCEPT ![r] =
          [at |-> step, command |-> c, key |-> key, pins |-> NoPins,
           recorded |-> c.do = "open" /\ c.id \in seenIds]]
    /\ mishaps' = mishaps \union
          (IF \A o \in Runs : At(o, "idle") THEN {} ELSE {"overlap"})

------------------------------------------------------------------------------
(* keygen, keys, operator keygen.                                          *)

\* Faulty variant: agent.key is not looked for.
StatNothing(r, c) ==
    /\ c.do = "keygen"
    /\ Start(r, c, "truncate", started')
    /\ UNCHANGED <<files, history>>

\* runKeygen: Stat finds no agent.key, or fails for whatever other reason, which
\* counts as that; the keys are generated.
StatAgentKey(r, c) ==
    /\ c.do = "keygen"
    /\ \/ agentKey = Absent /\ UNCHANGED retired
       \/ agentKey # Absent /\ retired' = retired \union {agentKey}
    /\ Start(r, c, "truncate", started')
    /\ UNCHANGED <<files, bundlesPrinted, operatorPrinted, lastAccepted, acceptances>>

\* saveKeys: os.WriteFile truncates the file, whoever made it, and fills it.
TruncateAgentKey(r) ==
    /\ At(r, "truncate")
    /\ agentKey' = Truncated
    /\ Goto(r, "write")
    /\ UNCHANGED <<operatorKey, bundlePins, seenIds, torn, secrets, started, history, mishaps>>

WriteAgentKey(r) ==
    /\ At(r, "write")
    /\ agentKey' = run[r].key
    /\ Goto(r, "print")
    /\ UNCHANGED <<operatorKey, bundlePins, seenIds, torn, secrets, started, history, mishaps>>

\* The bundle goes to the operator for signing.
PrintBundle(r) ==
    /\ At(r, "print")
    /\ bundlesPrinted' = bundlesPrinted \union {run[r].key}
    /\ Exit(r)
    /\ UNCHANGED <<files, started, operatorPrinted, retired, lastAccepted, acceptances, mishaps>>

\* loadKeys fails on a missing or truncated file.
LoadKeys == agentKey \in Key

\* runKeys prints the bundle of the keys it loads.
LoadForKeys(r, c) ==
    /\ c.do = "keys"
    /\ LoadKeys
    /\ Start(r, c, "print", agentKey)
    /\ UNCHANGED <<files, history>>

\* "delete it yourself if you mean it"
DeleteAgentKey ==
    /\ agentKey # Absent
    /\ \A r \in Runs : At(r, "idle")
    /\ agentKey' = Absent
    /\ retired' = retired \union {agentKey}
    /\ UNCHANGED <<operatorKey, bundlePins, seenIds, torn, secrets, run, started,
                   bundlesPrinted, operatorPrinted, lastAccepted, acceptances, mishaps>>

\* Faulty variant: no O_EXCL, an existing file is truncated.
TruncateOperatorKey(r, c) ==
    /\ c.do = "operator keygen"
    /\ operatorKey' = Truncated
    /\ Start(r, c, "operator write", started')
    /\ UNCHANGED <<agentKey, bundlePins, seenIds, torn, secrets, history>>

\* runOperator keygen: O_CREATE|O_EXCL, then the write, then the public half.
CreateOperatorKey(r, c) ==
    /\ c.do = "operator keygen"
    /\ operatorKey = Absent
    /\ operatorKey' = Truncated
    /\ Start(r, c, "operator write", started')
    /\ UNCHANGED <<agentKey, bundlePins, seenIds, torn, secrets, history>>

WriteOperatorKey(r) ==
    /\ At(r, "operator write")
    /\ operatorKey' = run[r].key
    /\ Goto(r, "operator print")
    /\ UNCHANGED <<agentKey, bundlePins, seenIds, torn, secrets, started, history, mishaps>>

PrintOperatorKey(r) ==
    /\ At(r, "operator print")
    /\ operatorPrinted' = operatorPrinted \union {run[r].key}
    /\ Exit(r)
    /\ UNCHANGED <<files, started, bundlesPrinted, retired, lastAccepted, acceptances, mishaps>>

------------------------------------------------------------------------------
(* loadVerifiedBundle, the first half of seal and of open.                 *)

LoadForBundle(r, c) ==
    /\ c.do \in {"seal", "open"}
    /\ LoadKeys
    /\ Start(r, c, "pins", agentKey)
    /\ UNCHANGED <<files, history>>

AfterBundle(r) == IF run[r].command.do = "seal" THEN "seal" ELSE "stat"

Accept(bundle) == lastAccepted' = [lastAccepted EXCEPT ![bundle[1]] = bundle[2]]

\* checkBundlePin reads the pins: the bundle is as old as the pin.
PinMatches(r) == run[r].command.bundle[2] = bundlePins[run[r].command.bundle[1]]

BundleAsPinned(r) ==
    /\ At(r, "pins")
    /\ PinMatches(r)
    /\ Accept(run[r].command.bundle)
    /\ Goto(r, AfterBundle(r))
    /\ UNCHANGED <<files, started, bundlesPrinted, operatorPrinted, retired, acceptances, mishaps>>

\* A newer one is to be pinned, in the map that was read.  An older one is
\* refused: Exit.
BundleNewer(r) ==
    /\ At(r, "pins")
    /\ run[r].command.bundle[2] > bundlePins[run[r].command.bundle[1]]
    /\ run' = [run EXCEPT ![r].at = "rename pins", ![r].pins = bundlePins]
    /\ UNCHANGED <<files, started, history, mishaps>>

\* Faulty variant: the file is written from the one bundle at hand.
PinAlone(r, bundle) == [a \in Actors |-> IF a = bundle[1] THEN bundle[2] ELSE 0]

\* The map that was read, with the bundle's entry replaced.
PinnedWith(r, bundle) == [run[r].pins EXCEPT ![bundle[1]] = bundle[2]]

\* The whole map replaces the file, by a temporary file and rename.
RenamePins(r) ==
    LET bundle == run[r].command.bundle
    IN  /\ At(r, "rename pins")
        /\ bundlePins' = PinnedWith(r, bundle)
        /\ Accept(bundle)
        /\ run' = [run EXCEPT ![r].at = AfterBundle(r), ![r].pins = NoPins]
        /\ UNCHANGED <<agentKey, operatorKey, seenIds, torn, secrets, started,
                       bundlesPrinted, operatorPrinted, retired, acceptances, mishaps>>

\* runSeal: the plaintext is sealed to the bundle and printed.
PrintEnvelope(r) ==
    /\ At(r, "seal")
    /\ Exit(r)
    /\ UNCHANGED <<files, started, history, mishaps>>

------------------------------------------------------------------------------
(* open.                                                                   *)

\* confineToSecretsDir, and Lstat unless --force.
MayWriteOut(r) == run[r].command.force \/ secrets[run[r].command.out] = Absent

StatOut(r) ==
    /\ At(r, "stat")
    /\ MayWriteOut(r)
    /\ Goto(r, "seen")
    /\ UNCHANGED <<files, started, history, mishaps>>

\* secrethandoff.Open: signed with the sender's key in the bundle, sealed to
\* the key that was loaded.  The other checks of the header and the time
\* window only refuse: Exit.
Opens(r) ==
    Envelope[run[r].command.id] = [bundle |-> run[r].command.bundle, key |-> run[r].key]

\* Faulty variant: the list is not read.
CheckNoList(r) ==
    /\ At(r, "seen")
    /\ Opens(r)
    /\ Goto(r, "mark")
    /\ UNCHANGED <<files, started, history, mishaps>>

\* checkSeenList does not find the id, and the envelope opens.
CheckSeenList(r) ==
    /\ At(r, "seen")
    /\ run[r].command.id \notin seenIds
    /\ Opens(r)
    /\ Goto(r, "mark")
    /\ UNCHANGED <<files, started, history, mishaps>>

\* A list that cannot be read passes for one that does not exist yet.
SeenListUnreadable(r) ==
    /\ At(r, "seen")
    /\ seenIds # {}
    /\ Opens(r)
    /\ Goto(r, "mark")
    /\ mishaps' = mishaps \union {"read error"}
    /\ UNCHANGED <<files, started, history>>

\* Faulty variant: an error of markSeen is ignored.
AppendUnchecked(r) ==
    /\ At(r, "mark")
    /\ seenIds' \in {seenIds, IF torn THEN seenIds ELSE seenIds \union {run[r].command.id}}
    /\ torn' = FALSE
    /\ Goto(r, "install")
    /\ UNCHANGED <<agentKey, operatorKey, bundlePins, secrets, started, history, mishaps>>

\* markSeen appends the id and syncs.  After an unfinished line the id becomes
\* the end of that line, which equals no id.
MarkSeen(r) ==
    /\ At(r, "mark")
    /\ seenIds' = IF torn THEN seenIds ELSE seenIds \union {run[r].command.id}
    /\ torn' = FALSE
    /\ Goto(r, "install")
    /\ UNCHANGED <<agentKey, operatorKey, bundlePins, secrets, started, history, mishaps>>

\* The append is cut short (disk full): the run refuses to write the secret.
MarkSeenShort(r) ==
    /\ At(r, "mark")
    /\ torn' = TRUE
    /\ Exit(r)
    /\ mishaps' = mishaps \union {"short write"}
    /\ UNCHANGED <<agentKey, operatorKey, bundlePins, seenIds, secrets, started, history>>

\* The temporary file, whole and synced, is renamed to the destination.
RenameSecret(r) ==
    LET c == run[r].command
    IN  /\ At(r, "install")
        /\ secrets' = [secrets EXCEPT ![c.out] = c.id]
        /\ acceptances' = [acceptances EXCEPT ![c.id] = @ + 1]
        /\ Exit(r)
        /\ UNCHANGED <<agentKey, operatorKey, bundlePins, seenIds, torn, started,
                       bundlesPrinted, operatorPrinted, retired, lastAccepted, mishaps>>

\* A check refuses, a file access fails, or the process is killed: what has
\* been written stays.
Abort(r) ==
    /\ ~At(r, "idle")
    /\ Exit(r)
    /\ UNCHANGED <<files, started, history, mishaps>>

Next ==
    \/ \E r \in Runs, c \in Commands :
          \/ StatAgentKey(r, c)
          \/ LoadForKeys(r, c)
          \/ CreateOperatorKey(r, c)
          \/ LoadForBundle(r, c)
    \/ \E r \in Runs :
          \/ TruncateAgentKey(r) \/ WriteAgentKey(r) \/ PrintBundle(r)
          \/ WriteOperatorKey(r) \/ PrintOperatorKey(r)
          \/ BundleAsPinned(r) \/ BundleNewer(r) \/ RenamePins(r)
          \/ PrintEnvelope(r)
          \/ StatOut(r)
          \/ CheckSeenList(r) \/ SeenListUnreadable(r)
          \/ MarkSeen(r) \/ MarkSeenShort(r)
          \/ RenameSecret(r)
          \/ Abort(r)
    \/ DeleteAgentKey

Spec == Init /\ [][Next]_vars

------------------------------------------------------------------------------
Steps == {"truncate", "write", "print", "operator write", "operator print", "pins",
          "rename pins", "seal", "stat", "seen", "mark", "install"}

TypeOK ==
    /\ agentKey \in {Absent, Truncated} \union Key
    /\ operatorKey \in {Absent, Truncated} \union Key
    /\ bundlePins \in [Actors -> 0 .. MaxCreated]
    /\ seenIds \subseteq SecretIds
    /\ torn \in BOOLEAN
    /\ secrets \in [Outs -> {Absent} \union SecretIds]
    /\ \A r \in Runs : run[r] = Idle \/
          run[r] \in [at : Steps, command : Commands, key : Key,
                     pins : [Actors -> 0 .. MaxCreated], recorded : BOOLEAN]
    /\ started \in 1 .. MaxStarts
    /\ bundlesPrinted \subseteq Key /\ operatorPrinted \subseteq Key
    /\ retired \subseteq {Truncated} \union Key
    /\ lastAccepted \in [Actors -> 0 .. MaxCreated]
    /\ acceptances \in [SecretIds -> Nat]
    /\ mishaps \subseteq {"overlap", "read error", "short write"}

\* main.go:251-252: keygen refuses to overwrite an identity.  A bundle that was
\* printed for signing still has its private half on this host, unless it was
\* deleted on purpose, a Stat failed on it, or two processes ran at once.
PrintedIdentityIsKept ==
    "overlap" \in mishaps \/ bundlesPrinted \ retired \subseteq {agentKey}

\* main.go:170-171: the trust root is never overwritten.  With O_EXCL this
\* needs no proviso: whatever runs at once or is killed, a public half that
\* was printed matches the file.
TrustRootIsKept == operatorPrinted \subseteq {operatorKey}

\* main.go:487-488: the pin is the newest created_at accepted of each actor,
\* kills and refusals at any point included, while processes do not overlap.
PinsAreNewest == "overlap" \in mishaps \/ bundlePins = lastAccepted

\* main.go:485-488: after a key rotation the old bundle is not accepted again.
RolledBackBundleRefused ==
    [][\A a \in Actors :
          "overlap" \in mishaps \/ lastAccepted[a] <= lastAccepted'[a]]_vars

\* main.go:422-424: the id of a secret under ~/.secrets is in seen_ids, whoever
\* ran at once and wherever they were killed.  A line an earlier append left
\* unfinished swallows it.
WrittenSecretsAreRecorded ==
    "short write" \in mishaps \/ \A i \in SecretIds : acceptances[i] > 0 => i \in seenIds

\* main.go:583-584: a replayed envelope is refused: each secret is written once.
ReplayRefused == \A i \in SecretIds : acceptances[i] <= 1

\* The same, unless a mishap the code does not guard against has happened.
ReplayRefusedWithoutMishap == mishaps = {} => ReplayRefused

\* A replay that starts when the id is recorded never gets to write, overlap or
\* not, unless the list could not be read.
RecordedReplayStops ==
    "read error" \in mishaps \/
       \A r \in Runs : ~At(r, "idle") /\ run[r].recorded => ~At(r, "mark") /\ ~At(r, "install")

\* What the files keep across overlapping and killed processes: their shape, the
\* trust root, the newest pins and the record of what was accepted.
FilesInv == TypeOK /\ TrustRootIsKept /\ PinsAreNewest /\ RecordedReplayStops

==============================================================================
