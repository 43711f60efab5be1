----------------------------- MODULE RemoteHome -----------------------------
(***************************************************************************)
(* ~/.remote-agent-host on a remote machine, shared by everyone who        *)
(* connects to it: the agent binary that bootstraps detect, upload,        *)
(* install and start (bootstrap/, connection/ssh.rs), and the certificate  *)
(* authority the agent processes load or create (tap/ca.rs).               *)
(*                                                                         *)
(* A command sent over SSH is a process of the remote machine: its shell   *)
(* steps interleave with those of others and go on when the connection is  *)
(* lost, and a cat writes to the file it opened wherever that is renamed   *)
(* to.  A binary is a sequence of chunks, each the name of the client it   *)
(* came from; files, pipes and shells are external. A client has at most   *)
(* one lost cat and one script here: a script of an attempt before, if it  *)
(* has not ended by then, gives way to that of the next one.               *)
(***************************************************************************)
EXTENDS Integers, Sequences, FiniteSets

CONSTANTS
    Client,         \* desktops that bootstrap the machine, each with a binary
    Persistent,     \* those that try again without end
    Nobody,         \* the origin of a hole in a file, the maker of no CA
    Chunks,         \* chunks of a binary
    MaxAttempts,    \* bound: attempts of a client that is not persistent
    MaxFaults       \* bound: lost connections and killed processes

ASSUME RemoteHomeAssumption ==
    /\ Persistent \subseteq Client /\ Nobody \notin Client
    /\ Chunks \in Nat \ {0} /\ MaxAttempts \in Nat /\ MaxFaults \in Nat

VARIABLES
    client,     \* client -> where run_bootstrap is
    attempts,   \* client -> attempts made
    cat,        \* client -> its `cat > agent.tmp` [fd, written]
    stray,      \* client -> the file a cat it has lost still holds open
    script,     \* client -> where its verify script is
    tmp,        \* agent.tmp
    agent,      \* agent
    running,    \* client -> what its start command executes
    ca,         \* ca.pem and ca.key, by the agent process that made them
    load,       \* client -> load_or_create in the agent it started
    made,       \* CAs generated so far
    faults,     \* faults so far
    alone,      \* history: attempts that overlapped nothing
    apart       \* history: no two loads have overlapped

bootstrap == <<client, attempts, cat, stray, script>>
files == <<tmp, agent>>
authority == <<ca, load, made, apart>>
vars == <<bootstrap, files, running, authority, faults, alone>>

Absent == [there |-> FALSE, data |-> <<>>, exec |-> FALSE]
NoCat == [fd |-> "none", written |-> 0]
Missing == 0    \* a file of the CA that does not exist
Torn == -1      \* one that is being written, or was when its writer was killed
NotRun == <<>>

Whole(c) == [k \in 1..Chunks |-> c]
Binaries == {Whole(c) : c \in Client}

Steps == {"detecting", "uploading", "writing", "verifying", "starting"}
LoadSteps == {"reading", "cert", "certTruncated", "key", "keyTruncated", "ready"}
Descriptors == {"none", "tmp", "agent", "unlinked"}
Binary == Seq(Client \cup {Nobody})
FileType == [there : BOOLEAN, data : Binary, exec : BOOLEAN]
Authorities == {Missing, Torn} \cup (1..made)

\* The types of the variables: no file is longer than a binary, a client is
\* uploading exactly while its cat has the file open, and a made CA has a number.
TypeOK ==
    /\ client \in [Client -> Steps \cup {"off", "up"}]
    /\ attempts \in [Client -> Nat]
    /\ cat \in [Client -> [fd : Descriptors, written : 0..Chunks]]
    /\ \A c \in Client : cat[c].fd # "none" <=> client[c] = "writing"
    /\ stray \in [Client -> Descriptors]
    /\ script \in [Client -> {"none", "stat", "mv", "chmod", "OK", "SIZE"}]
    /\ tmp \in FileType /\ agent \in FileType
    /\ \A f \in {tmp, agent} : (f.exec => f.there) /\ Len(f.data) <= Chunks
    /\ running \in [Client -> Binary]
    /\ ca \in [cert : Authorities, key : Authorities]
    /\ load \in [Client -> [at : LoadSteps \cup {"none", "failed", "tapped"},
                           cert : Authorities, key : Authorities, trusted : BOOLEAN]]
    /\ made \in Nat /\ faults \in 0..MaxFaults
    /\ alone \subseteq Client /\ apart \in BOOLEAN

NoLoad == [at |-> "none", cert |-> Missing, key |-> Missing, trusted |-> FALSE]

Init ==
    /\ client = [c \in Client |-> "off"]
    /\ attempts = [c \in Client |-> 0]
    /\ cat = [c \in Client |-> NoCat]
    /\ stray = [c \in Client |-> "none"]
    /\ script = [c \in Client |-> "none"]
    /\ tmp = Absent /\ agent = Absent
    /\ running = [c \in Client |-> NotRun]
    /\ ca = [cert |-> Missing, key |-> Missing]
    /\ load = [c \in Client |-> NoLoad]
    /\ made = 0 /\ faults = 0
    /\ alone = {} /\ apart = TRUE

-----------------------------------------------------------------------------
(* Bootstrap *)

Busy(c) == client[c] \in Steps \/ script[c] # "none" \/ stray[c] # "none"
Go(c, at) == client' = [client EXCEPT ![c] = at]

\* ssh::connect has authenticated, and run_bootstrap begins.
Connect(c) ==
    /\ client[c] = "off"
    /\ c \notin Persistent => attempts[c] < MaxAttempts
    /\ Go(c, "detecting")
    /\ attempts' = IF c \in Persistent THEN attempts ELSE [attempts EXCEPT ![c] = @ + 1]
    /\ alone' = LET others == {d \in Client : Busy(d)}
                IN  IF others = {} THEN alone \cup {c} ELSE alone \ (others \cup {c})
    /\ UNCHANGED <<cat, stray, script, files, running, authority, faults>>

\* Variant: the agent is uploaded only if it is not installed.
NeedUploadMissing(c) == ~(agent.there /\ agent.exec)

\* The hash of the agent is asked for only if it is executable.
NeedUpload(c) == ~(agent.there /\ agent.exec /\ agent.data = Whole(c))

Detect(c) ==
    /\ client[c] = "detecting"
    /\ Go(c, IF NeedUpload(c) THEN "uploading" ELSE "starting")
    /\ UNCHANGED <<attempts, cat, stray, script, files, running, authority, faults, alone>>

\* `cat > agent.tmp` truncates the file that is there, or creates it.
OpenTmp(c) ==
    /\ client[c] = "uploading"
    /\ Go(c, "writing")
    /\ cat' = [cat EXCEPT ![c] = [fd |-> "tmp", written |-> 0]]
    /\ tmp' = [tmp EXCEPT !.there = TRUE, !.data = <<>>]
    /\ UNCHANGED <<attempts, stray, script, agent, running, authority, faults, alone>>

\* Variant: cat appends to the file.
WrittenAppended(f, k, c) == [f EXCEPT !.data = Append(@, c)]

\* A write at an offset past the end leaves a hole.
Written(f, k, c) ==
    [f EXCEPT !.data = [j \in 1..(IF k > Len(@) THEN k ELSE Len(@)) |->
                            CASE j = k -> c
                              [] j # k /\ j <= Len(@) -> @[j]
                              [] OTHER -> Nobody]]

WriteChunk(c) ==
    /\ cat[c].fd # "none" /\ cat[c].written < Chunks
    /\ LET k == cat[c].written + 1 IN
       /\ cat' = [cat EXCEPT ![c].written = k]
       /\ tmp' = IF cat[c].fd = "tmp" THEN Written(tmp, k, c) ELSE tmp
       /\ agent' = IF cat[c].fd = "agent" THEN Written(agent, k, c) ELSE agent
    /\ UNCHANGED <<client, attempts, stray, script, running, authority, faults, alone>>

\* The upload command has exited; the verify script is sent.
CatExits(c) ==
    /\ client[c] = "writing" /\ cat[c].written = Chunks
    /\ Go(c, "verifying")
    /\ cat' = [cat EXCEPT ![c] = NoCat]
    /\ script' = [script EXCEPT ![c] = "stat"]
    /\ UNCHANGED <<attempts, stray, files, running, authority, faults, alone>>

ScriptStep(c, from, to) ==
    /\ script[c] = from
    /\ script' = [script EXCEPT ![c] = to]
    /\ UNCHANGED <<client, attempts, running, authority, faults, alone>>

\* stat -c%s of agent.tmp, compared with the size of the client's binary.
Stat(c) ==
    /\ ScriptStep(c, "stat", IF tmp.there /\ Len(tmp.data) = Chunks THEN "mv" ELSE "SIZE")
    /\ UNCHANGED <<cat, stray, files>>

\* Whoever has agent.tmp open goes on writing to what is now the agent, and who
\* had the old agent open to a file without a name.
Renamed(fd) == CASE fd = "tmp" -> "agent" [] fd = "agent" -> "unlinked" [] OTHER -> fd

Mv(c) ==
    /\ ScriptStep(c, "mv", IF tmp.there THEN "chmod" ELSE "SIZE")
    /\ IF tmp.there
       THEN /\ agent' = tmp /\ tmp' = Absent
            /\ cat' = [d \in Client |-> [cat[d] EXCEPT !.fd = Renamed(@)]]
            /\ stray' = [d \in Client |-> Renamed(stray[d])]
       ELSE UNCHANGED <<cat, stray, files>>

\* Variant: the script does not make the agent executable.
ChmodForgotten(c) == ScriptStep(c, "chmod", "OK") /\ UNCHANGED <<cat, stray, files>>

Chmod(c) ==
    /\ ScriptStep(c, "chmod", "OK")
    /\ agent' = [agent EXCEPT !.exec = agent.there]
    /\ UNCHANGED <<cat, stray, tmp>>

\* The client reads OK or something else; the output of a script whose client is
\* gone is read by nobody.
ScriptEnds(c) ==
    /\ script[c] \in {"OK", "SIZE"}
    /\ script' = [script EXCEPT ![c] = "none"]
    /\ client' = IF client[c] # "verifying" THEN client
                 ELSE [client EXCEPT ![c] = IF script[c] = "OK" THEN "starting" ELSE "off"]
    /\ UNCHANGED <<attempts, cat, stray, files, running, authority, faults, alone>>

\* A file somebody has open for writing cannot be executed.
Executable == agent.there /\ agent.exec /\ \A d \in Client : "agent" \notin {cat[d].fd, stray[d]}

\* start_agent reports success once the command is accepted, whatever the shell
\* makes of it.
Start(c) ==
    /\ client[c] = "starting"
    /\ Go(c, "up")
    /\ running' = [running EXCEPT ![c] = IF Executable THEN agent.data ELSE NotRun]
    /\ UNCHANGED <<attempts, cat, stray, script, files, authority, faults, alone>>

Runs(c) == client[c] = "up" /\ running[c] \in Binaries

\* What is not a whole binary does not come up: its channel ends, the actor of the
\* transport clears the flag, and whoever looks at the flag may connect again.
Dies(c) ==
    /\ client[c] = "up" /\ ~Runs(c)
    /\ Go(c, "off")
    /\ running' = [running EXCEPT ![c] = NotRun]
    /\ UNCHANGED <<attempts, cat, stray, script, files, authority, faults, alone>>

Loading(c) == load[c].at \in LoadSteps

\* The connection breaks.  A script goes on, an agent finishes what it does and
\* ends, and cat gets nothing more but holds its file until sshd notices.
ConnectionLost(c) ==
    /\ faults < MaxFaults /\ client[c] # "off" /\ ~Loading(c)
    /\ "none" \in {stray[c], cat[c].fd}
    /\ stray' = IF cat[c].fd = "none" THEN stray ELSE [stray EXCEPT ![c] = cat[c].fd]
    /\ faults' = faults + 1
    /\ Go(c, "off")
    /\ cat' = [cat EXCEPT ![c] = NoCat]
    /\ running' = [running EXCEPT ![c] = NotRun]
    /\ load' = [load EXCEPT ![c] = NoLoad]
    /\ UNCHANGED <<attempts, script, files, ca, made, apart, alone>>

StrayEnds(c) ==
    /\ stray[c] # "none"
    /\ stray' = [stray EXCEPT ![c] = "none"]
    /\ UNCHANGED <<client, attempts, cat, script, files, running, authority, faults, alone>>

-----------------------------------------------------------------------------
(* The certificate authority *)

Loads(c, new) ==
    /\ load' = [load EXCEPT ![c] = new]
    /\ UNCHANGED <<bootstrap, files, running, faults, alone>>

\* Variant: what is there of the CA is kept.
LoadOrCreateMissing(c) ==
    /\ Runs(c) /\ ~Loading(c)
    /\ IF Missing \in {ca.cert, ca.key}
       THEN /\ made' = made + 1
            /\ Loads(c, [NoLoad EXCEPT !.at = IF ca.cert = Missing THEN "cert" ELSE "key",
                                      !.key = made + 1])
       ELSE /\ Loads(c, [NoLoad EXCEPT !.at = "reading", !.cert = ca.cert])
            /\ UNCHANGED made
    /\ apart' = (apart /\ \A d \in Client : ~Loading(d))
    /\ UNCHANGED ca

\* load_or_create of a tapped launch looks for both files, and generates a CA if
\* one is missing.
LoadOrCreate(c) ==
    /\ Runs(c) /\ ~Loading(c)
    /\ IF Missing \in {ca.cert, ca.key}
       THEN /\ made' = made + 1
            /\ Loads(c, [NoLoad EXCEPT !.at = "cert", !.key = made + 1])
       ELSE /\ Loads(c, [NoLoad EXCEPT !.at = "reading", !.cert = ca.cert])
            /\ UNCHANGED made
    /\ apart' = (apart /\ \A d \in Client : ~Loading(d))
    /\ UNCHANGED ca

\* ca.pem has been read; ca.key is, and both are parsed. Nothing compares them.
ReadKey(c) ==
    /\ load[c].at = "reading"
    /\ Loads(c, [load[c] EXCEPT
                   !.at = IF Torn \in {load[c].cert, ca.key} THEN "failed" ELSE "ready",
                   !.key = ca.key])
    /\ UNCHANGED <<ca, made, apart>>

\* fs::write truncates a file, then writes it: ca.pem first, ca.key second.
Truncate(c, file, from, to) ==
    /\ load[c].at = from
    /\ Loads(c, [load[c] EXCEPT !.at = to])
    /\ ca' = [ca EXCEPT ![file] = Torn]
    /\ UNCHANGED <<made, apart>>

Write(c, file, from, to) ==
    /\ load[c].at = from
    /\ Loads(c, [load[c] EXCEPT !.at = to])
    /\ ca' = [ca EXCEPT ![file] = load[c].key]
    /\ UNCHANGED <<made, apart>>

\* The CLI reads ca.pem when it starts, and the proxy signs what it is shown with
\* the key it has loaded.
LaunchCli(c) ==
    /\ load[c].at = "ready"
    /\ Loads(c, [load[c] EXCEPT !.at = "tapped", !.trusted = (ca.cert = load[c].key)])
    /\ UNCHANGED <<ca, made, apart>>

\* The agent is killed while it loads.
Kill(c) ==
    /\ faults < MaxFaults /\ Loading(c)
    /\ faults' = faults + 1
    /\ Go(c, "off")
    /\ running' = [running EXCEPT ![c] = NotRun]
    /\ load' = [load EXCEPT ![c] = NoLoad]
    /\ UNCHANGED <<attempts, cat, stray, script, files, ca, made, apart, alone>>

-----------------------------------------------------------------------------
Bootstrap(c) ==
    \/ Connect(c) \/ Detect(c) \/ OpenTmp(c) \/ WriteChunk(c) \/ CatExits(c)
    \/ Stat(c) \/ Mv(c) \/ Chmod(c) \/ ScriptEnds(c) \/ Start(c) \/ Dies(c)
    \/ StrayEnds(c)

Load(c) ==
    \/ LoadOrCreate(c) \/ ReadKey(c)
    \/ Truncate(c, "cert", "cert", "certTruncated") \/ Write(c, "cert", "certTruncated", "key")
    \/ Truncate(c, "key", "key", "keyTruncated") \/ Write(c, "key", "keyTruncated", "ready")
    \/ LaunchCli(c)

Next == \E c \in Client : Bootstrap(c) \/ Load(c) \/ ConnectionLost(c) \/ Kill(c)

Spec == Init /\ [][Next]_vars

\* Processes of the remote machine and tasks of the desktop go on; a user who
\* wants the machine tries again.
FairSpec ==
    /\ Spec
    /\ \A c \in Client :
         /\ c \in Persistent => WF_vars(Connect(c))
         /\ WF_vars(Detect(c)) /\ WF_vars(OpenTmp(c)) /\ WF_vars(WriteChunk(c))
         /\ WF_vars(CatExits(c)) /\ WF_vars(Stat(c)) /\ WF_vars(Mv(c)) /\ WF_vars(Chmod(c))
         /\ WF_vars(ScriptEnds(c)) /\ WF_vars(Start(c)) /\ WF_vars(Dies(c))
         /\ WF_vars(StrayEnds(c))

-----------------------------------------------------------------------------
(* Properties *)

\* A bootstrap that overlapped no other, and no command an earlier one left
\* behind, ends with the client's own binary running, whatever it found in the
\* files: a partial agent.tmp, another client's agent, an agent that is not
\* executable (detector.rs:28-41, installer.rs:65-83, uploader.rs:175-219).
RunsWhole == \A c \in alone : client[c] = "up" => running[c] = Whole(c)

\* A client that keeps trying comes up in the end, on a binary that is whole,
\* whatever the faults and the attempts of the others left behind: nothing in
\* the directory makes a bootstrap fail for ever (detector.rs:33-41,
\* uploader.rs:184-219).
Heals == \A c \in Persistent : <>[]Runs(c)

\* As long as the loads of the CA do not overlap, a CLI trusts the certificates
\* its proxy signs, also after an agent was killed between the two files: a CA
\* is read whole or made anew, never half of each (ca.rs:56-75).
TrustedAlone == apart => \A c \in Client : load[c].at = "tapped" => load[c].trusted

(* Said of the program and not kept by it *)

\* "the rename is atomic so a partial upload never clobbers a good binary"
\* (uploader.rs:202-203): what is renamed may be open for writing by another
\* client, and a file with a hole has the right size.
AgentNeverPartial == agent.there => agent.data \in Binaries

\* "so the Node-based CLIs trust our interception leaf certs" (ca.rs:5-6): two
\* agents that start together can keep one's certificate and the other's key.
CliTrusts == \A c \in Client : load[c].at = "tapped" => load[c].trusted

\* "Load the persisted CA, or generate + persist a new one" (ca.rs:49): a file
\* left torn is neither, and every launch fails to be tapped.
CaUsable == (\A c \in Client : ~Loading(c)) => Torn \notin {ca.cert, ca.key}
=============================================================================
