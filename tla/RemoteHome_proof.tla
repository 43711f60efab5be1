--------------------------- MODULE RemoteHome_proof ---------------------------
(***************************************************************************)
(* What module RemoteHome promises of one machine that many desktops       *)
(* share, proved for any number of them, any size of a binary and any      *)
(* number of faults: a bootstrap that is alone runs its own binary, and    *)
(* loads of the certificate authority that do not overlap agree.           *)
(***************************************************************************)
EXTENDS RemoteHome, TLAPS

\* An agent that loads is running, for a client that is up.
LoadingRuns == \A c \in Client : Loading(c) => Runs(c)

\* A CA that was made without interference is whole, missing, or half written
\* with its end missing, and each load knows which.
OneLoads == \A c, d \in Client : Loading(c) /\ Loading(d) => c = d

CaAgrees ==
    /\ ca.key # Missing => ca.cert \in 1..made /\ ca.key \in {Torn, ca.cert}
    /\ \A c \in Client :
         LET l == load[c] IN
         /\ l.at \in {"cert", "certTruncated", "key", "keyTruncated", "ready"} => l.key # Missing
         /\ l.at \in {"cert", "certTruncated", "key", "keyTruncated"} => l.key # Torn
         /\ l.at \in {"cert", "certTruncated", "key"} => ca.key = Missing
         /\ l.at = "reading" => l.cert = ca.cert /\ ca.key # Missing
         /\ l.at \in {"key", "keyTruncated", "ready"} => ca.cert = l.key
         /\ l.at = "keyTruncated" => ca.key = Torn
         /\ l.at = "tapped" => l.trusted

CaInv == apart => OneLoads /\ CaAgrees

\* Where an attempt that overlapped nothing has got, and what it has made.
Prefix(c, n) == [k \in 1..n |-> c]
Ready(f, c) == f.there /\ f.data = Whole(c)

Progress(c) ==
    /\ \A d \in Client : Busy(d) => d = c
    /\ stray[c] = "none"
    /\ script[c] # "none" <=> client[c] = "verifying"
    /\ client[c] = "writing" =>
         cat[c].fd = "tmp" /\ tmp.there /\ tmp.data = Prefix(c, cat[c].written)
    /\ script[c] \in {"stat", "mv"} => Ready(tmp, c)
    /\ script[c] \in {"chmod", "OK"} => Ready(agent, c)
    /\ script[c] = "OK" \/ client[c] = "starting" => agent.exec
    /\ script[c] # "SIZE"
    /\ client[c] = "starting" => Ready(agent, c)

AloneInv == \A c \in alone : /\ client[c] \in Steps => Progress(c)
                             /\ client[c] = "up" => running[c] = Whole(c)

IInv == TypeOK /\ LoadingRuns /\ CaInv /\ AloneInv

-----------------------------------------------------------------------------
(* Sequences of chunks *)

\* A file of one client's chunks is a sequence of as many.
LEMMA PrefixType ==
    ASSUME NEW c \in Client, NEW n \in Nat
    PROVE  [k \in 1..n |-> c] \in Binary /\ Len([k \in 1..n |-> c]) = n
BY DEF Binary

\* A write gives a file that is as long as the offset, or as it was.
LEMMA WrittenType ==
    ASSUME NEW f \in FileType, Len(f.data) <= Chunks, NEW k \in 1..Chunks, NEW c \in Client
    PROVE  Written(f, k, c) \in FileType /\ Len(Written(f, k, c).data) <= Chunks
           /\ Written(f, k, c).there = f.there /\ Written(f, k, c).exec = f.exec
<1>. DEFINE m == IF k > Len(f.data) THEN k ELSE Len(f.data)
            data == [j \in 1..m |-> CASE j = k -> c
                                      [] j # k /\ j <= Len(f.data) -> f.data[j]
                                      [] OTHER -> Nobody]
<1>1. f.data \in Binary /\ Len(f.data) \in Nat
  BY DEF FileType, Binary
<1>2. m \in Nat /\ m <= Chunks
  BY <1>1, RemoteHomeAssumption
<1>3. ASSUME NEW j \in 1..m PROVE data[j] \in Client \cup {Nobody}
  <2>1. CASE j = k
    BY <2>1
  <2>2. CASE j # k /\ j <= Len(f.data)
    <3>1. f.data[j] \in Client \cup {Nobody}
      BY <1>1, <1>2, <2>2 DEF Binary
    <3>. QED BY <2>2, <3>1
  <2>3. CASE j # k /\ ~ (j <= Len(f.data))
    BY <2>3
  <2>. QED BY <2>1, <2>2, <2>3
<1>4. data \in [1..m -> Client \cup {Nobody}]
  <2>. HIDE DEF m
  <2>. QED BY <1>3
<1>5. Written(f, k, c) = [f EXCEPT !.data = data]
  BY DEF Written, FileType
<1>. HIDE DEF data, m
<1>6. data \in Binary /\ Len(data) = m
  BY <1>2, <1>4 DEF Binary
<1>. QED BY <1>2, <1>5, <1>6 DEF FileType

\* The next chunk of a client goes behind its others.
LEMMA WrittenNext ==
    ASSUME NEW f \in FileType, NEW n \in Nat, NEW c \in Client, f.data = Prefix(c, n)
    PROVE  Written(f, n + 1, c).data = Prefix(c, n + 1)
<1>1. Len(f.data) = n
  BY PrefixType DEF Prefix
<1>2. Written(f, n + 1, c).data = [j \in 1..(n + 1) |-> CASE j = n + 1 -> c
                                      [] j # n + 1 /\ j <= n -> f.data[j]
                                      [] OTHER -> Nobody]
  BY <1>1 DEF Written, FileType
<1>3. ASSUME NEW j \in 1..(n + 1)
      PROVE  (CASE j = n + 1 -> c [] j # n + 1 /\ j <= n -> f.data[j] [] OTHER -> Nobody) = c
  <2>1. CASE j = n + 1
    BY <2>1
  <2>2. CASE j # n + 1
    <3>1. j \in 1..n
      BY <2>2
    <3>2. f.data[j] = c
      BY <3>1 DEF Prefix
    <3>. QED BY <2>2, <3>1, <3>2
  <2>. QED BY <2>1, <2>2
<1>. QED BY <1>2, <1>3 DEF Prefix

-----------------------------------------------------------------------------
(* Types *)

\* The types hold at the start.
LEMMA InitType == Init => TypeOK
<1>. SUFFICES ASSUME Init PROVE TypeOK
  OBVIOUS
<1>. USE RemoteHomeAssumption
<1>1. Absent \in FileType /\ Len(Absent.data) = 0 /\ ~Absent.exec
  BY DEF Absent, FileType, Binary
<1>2. NotRun \in Binary
  BY DEF NotRun, Binary
<1>. QED BY <1>1, <1>2 DEF Init, TypeOK, NoCat, NoLoad, Steps, LoadSteps, Descriptors, Authorities, Missing

\* A step of a bootstrap keeps the types.
LEMMA BootstrapType == ASSUME TypeOK, NEW c \in Client, Bootstrap(c) PROVE TypeOK'
<1>. USE RemoteHomeAssumption
<1>0. tmp \in FileType /\ agent \in FileType /\ (tmp.exec => tmp.there) /\ Len(tmp.data) <= Chunks
      /\ (agent.exec => agent.there) /\ Len(agent.data) <= Chunks
  BY DEF TypeOK
<1>1. CASE Connect(c)
  BY <1>1, SMTT(30) DEF Connect, Go, TypeOK, Steps, Descriptors, Authorities, authority, files, bootstrap
<1>2. CASE Detect(c)
  BY <1>2 DEF Detect, Go, TypeOK, Steps, Descriptors, Authorities, authority, files, bootstrap
<1>3. CASE OpenTmp(c)
  <2>. DEFINE new == [tmp EXCEPT !.there = TRUE, !.data = <<>>]
  <2>1. new \in FileType /\ Len(new.data) = 0 /\ new.there
    <3>1. <<>> \in Binary /\ Len(<<>>) = 0
      BY DEF Binary
    <3>2. new \in FileType /\ new.data = <<>> /\ new.there
      BY <1>0, <3>1 DEF FileType
    <3>. QED BY <3>1, <3>2
  <2>2. tmp' = new
    BY <1>3 DEF OpenTmp
  <2>. HIDE DEF new
  <2>. QED BY <1>0, <1>3, <2>1, <2>2 DEF OpenTmp, Go, TypeOK, Steps, Descriptors, Authorities, authority
<1>4. CASE WriteChunk(c)
  <2>. DEFINE k == cat[c].written + 1
  <2>1. k \in 1..Chunks
    BY <1>4 DEF WriteChunk, TypeOK
  <2>. HIDE DEF k
  <2>2. cat' = [cat EXCEPT ![c].written = k]
    BY <1>4 DEF WriteChunk, k
  <2>3. tmp' \in {tmp, Written(tmp, k, c)} /\ agent' \in {agent, Written(agent, k, c)}
    BY <1>4 DEF WriteChunk, k
  <2>4. tmp' \in FileType /\ (tmp'.exec => tmp'.there) /\ Len(tmp'.data) <= Chunks
        /\ agent' \in FileType /\ (agent'.exec => agent'.there) /\ Len(agent'.data) <= Chunks
    BY <1>0, <2>1, <2>3, WrittenType
  <2>5. cat' \in [Client -> [fd : Descriptors, written : 0..Chunks]]
        /\ \A d \in Client : cat'[d].fd = cat[d].fd
    <3>1. cat \in [Client -> [fd : Descriptors, written : 0..Chunks]] /\ k \in 0..Chunks
      BY <2>1 DEF TypeOK
    <3>. QED BY <2>2, <3>1
  <2>6. \A f \in {tmp', agent'} : (f.exec => f.there) /\ Len(f.data) <= Chunks
    BY <2>4
  <2>7. UNCHANGED <<client, attempts, stray, script, running, authority, faults, alone>>
    BY <1>4 DEF WriteChunk
  <2>. QED BY <2>4, <2>5, <2>6, <2>7 DEF TypeOK, Authorities, authority
<1>5. CASE CatExits(c)
  BY <1>5 DEF CatExits, Go, NoCat, TypeOK, Steps, Descriptors, Authorities, authority, files, bootstrap
<1>6. CASE Stat(c)
  BY <1>6 DEF Stat, ScriptStep, TypeOK, Authorities, authority, files
<1>7. CASE Mv(c)
  <2>1. \A fd \in Descriptors : Renamed(fd) \in Descriptors /\ (Renamed(fd) = "none" <=> fd = "none")
    BY DEF Renamed, Descriptors
  <2>2. script' \in [Client -> {"none", "stat", "mv", "chmod", "OK", "SIZE"}]
        /\ UNCHANGED <<client, attempts, running, authority, faults, alone>>
    BY <1>7 DEF Mv, ScriptStep, TypeOK
  <2>3. CASE ~tmp.there
    BY <1>7, <2>2, <2>3, SMTT(30) DEF Mv, TypeOK, Authorities, authority, files
  <2>4. CASE tmp.there
    <3>1. agent' = tmp /\ tmp' = Absent
          /\ cat' = [d \in Client |-> [cat[d] EXCEPT !.fd = Renamed(@)]]
          /\ stray' = [d \in Client |-> Renamed(stray[d])]
      BY <1>7, <2>4 DEF Mv
    <3>2. cat' \in [Client -> [fd : Descriptors, written : 0..Chunks]] /\ stray' \in [Client -> Descriptors]
      BY <2>1, <3>1 DEF TypeOK
    <3>3. \A d \in Client : cat'[d].fd = Renamed(cat[d].fd) /\ cat[d].fd \in Descriptors
      BY <3>1 DEF TypeOK
    <3>4. \A d \in Client : cat'[d].fd # "none" <=> client'[d] = "writing"
      BY <2>1, <2>2, <3>3 DEF TypeOK
    <3>5. Absent \in FileType /\ Len(Absent.data) = 0 /\ ~Absent.exec
      BY DEF Absent, FileType, Binary
    <3>6. tmp' \in FileType /\ agent' \in FileType
          /\ \A f \in {tmp', agent'} : (f.exec => f.there) /\ Len(f.data) <= Chunks
      BY <1>0, <3>1, <3>5
    <3>. QED BY <2>2, <3>2, <3>4, <3>6 DEF TypeOK, Authorities, authority
  <2>. QED BY <2>3, <2>4
<1>8. CASE Chmod(c)
  <2>1. agent' \in FileType /\ (agent'.exec => agent'.there) /\ agent'.data = agent.data
    BY <1>0, <1>8 DEF Chmod, FileType
  <2>. QED BY <1>0, <1>8, <2>1 DEF Chmod, ScriptStep, TypeOK, Authorities, authority
<1>9. CASE ScriptEnds(c)
  BY <1>9 DEF ScriptEnds, TypeOK, Steps, Descriptors, Authorities, authority, files, bootstrap
<1>10. CASE Start(c)
  <2>1. (IF Executable THEN agent.data ELSE NotRun) \in Binary
    BY <1>0 DEF FileType, NotRun, Binary
  <2>. QED BY <1>10, <2>1 DEF Start, Go, TypeOK, Steps, Authorities, authority, files
<1>11. CASE Dies(c)
  <2>1. NotRun \in Binary
    BY DEF NotRun, Binary
  <2>. QED BY <1>11, <2>1 DEF Dies, Go, TypeOK, Authorities, authority, files
<1>12. CASE StrayEnds(c)
  BY <1>12 DEF StrayEnds, TypeOK, Steps, Descriptors, Authorities, authority, files, bootstrap
<1>. QED BY <1>1, <1>2, <1>3, <1>4, <1>5, <1>6, <1>7, <1>8, <1>9, <1>10, <1>11, <1>12 DEF Bootstrap

\* A step of a load keeps the types: a CA that is generated has the next number.
LEMMA LoadType == ASSUME TypeOK, NEW c \in Client, Load(c) PROVE TypeOK'
<1>0. UNCHANGED <<client, attempts, cat, stray, script, tmp, agent, running, faults, alone>>
  BY DEF Load, LoadOrCreate, ReadKey, Truncate, Write, LaunchCli, Loads, bootstrap, files
<1>. DEFINE L == [at : LoadSteps \cup {"none", "failed", "tapped"}, cert : Authorities,
                  key : Authorities, trusted : BOOLEAN]
<1>1. SUFFICES ca' \in [cert : Authorities', key : Authorities'] /\ load' \in [Client -> L'] /\ made' \in Nat
               /\ apart' \in BOOLEAN
  BY <1>0, <1>1 DEF TypeOK
<1>2. Authorities \subseteq Authorities' /\ made \in Nat /\ made' \in Nat
  BY DEF Load, LoadOrCreate, ReadKey, Truncate, Write, LaunchCli, TypeOK, Authorities
<1>3. load \in [Client -> L] /\ ca.cert \in Authorities /\ ca.key \in Authorities
      /\ ca \in [cert : Authorities, key : Authorities] /\ apart \in BOOLEAN
  BY DEF TypeOK
<1>4. L \subseteq L' /\ ca \in [cert : Authorities', key : Authorities']
  BY <1>2, <1>3
<1>5. CASE LoadOrCreate(c)
  <2>1. CASE Missing \in {ca.cert, ca.key}
    <3>. DEFINE new == [NoLoad EXCEPT !.at = "cert", !.key = made + 1]
    <3>1. made' = made + 1 /\ load' = [load EXCEPT ![c] = new] /\ UNCHANGED ca /\ apart' \in BOOLEAN
      BY <1>5, <2>1 DEF LoadOrCreate, Loads
    <3>2. made + 1 \in Authorities' /\ Missing \in Authorities'
      BY <1>2, <3>1 DEF Authorities
    <3>3. new \in L'
      BY <3>2 DEF NoLoad, LoadSteps
    <3>. HIDE DEF new, L
    <3>. QED BY <1>2, <1>3, <1>4, <3>1, <3>3
  <2>2. CASE Missing \notin {ca.cert, ca.key}
    <3>. DEFINE new == [NoLoad EXCEPT !.at = "reading", !.cert = ca.cert]
    <3>1. UNCHANGED made /\ load' = [load EXCEPT ![c] = new] /\ UNCHANGED ca /\ apart' \in BOOLEAN
      BY <1>5, <2>2 DEF LoadOrCreate, Loads
    <3>2. ca.cert \in Authorities' /\ Missing \in Authorities'
      BY <1>2, <1>3 DEF Authorities
    <3>3. new \in L'
      BY <3>2 DEF NoLoad, LoadSteps
    <3>. HIDE DEF new, L
    <3>. QED BY <1>2, <1>3, <1>4, <3>1, <3>3
  <2>. QED BY <2>1, <2>2
<1>6. ASSUME ~LoadOrCreate(c) PROVE UNCHANGED made
  BY <1>6 DEF Load, ReadKey, Truncate, Write, LaunchCli
<1>7. ASSUME ~LoadOrCreate(c) PROVE Authorities' = Authorities /\ L' = L /\ UNCHANGED <<made, apart>>
  <2>1. UNCHANGED <<made, apart>>
    BY <1>7 DEF Load, ReadKey, Truncate, Write, LaunchCli
  <2>. QED BY <2>1 DEF Authorities
<1>8. CASE ReadKey(c) /\ ~LoadOrCreate(c)
  <2>. DEFINE at == IF Torn \in {load[c].cert, ca.key} THEN "failed" ELSE "ready"
              new == [load[c] EXCEPT !.at = at, !.key = ca.key]
  <2>1. load' = [load EXCEPT ![c] = new] /\ UNCHANGED ca
    BY <1>8 DEF ReadKey, Loads
  <2>2. at \in {"failed", "ready"}
    OBVIOUS
  <2>. HIDE DEF at
  <2>3. new \in L
    BY <1>3, <2>2 DEF LoadSteps
  <2>. HIDE DEF new, L
  <2>. QED BY <1>2, <1>3, <1>7, <1>8, <2>1, <2>3
<1>9. ASSUME NEW file \in {"cert", "key"}, NEW from, NEW to \in LoadSteps, ~LoadOrCreate(c),
             Truncate(c, file, from, to) \/ Write(c, file, from, to)
      PROVE  load' \in [Client -> L'] /\ ca' \in [cert : Authorities', key : Authorities']
  <2>. DEFINE new == [load[c] EXCEPT !.at = to]
  <2>1. load' = [load EXCEPT ![c] = new] /\ ca' \in {[ca EXCEPT ![file] = Torn], [ca EXCEPT ![file] = load[c].key]}
    BY <1>9 DEF Truncate, Write, Loads
  <2>2. new \in L /\ load[c].key \in Authorities /\ Torn \in Authorities
    BY <1>3 DEF Authorities
  <2>3. ca' \in [cert : Authorities, key : Authorities]
    <3>1. \A a \in Authorities : [ca EXCEPT ![file] = a] \in [cert : Authorities, key : Authorities]
      BY <1>3
    <3>. QED BY <2>1, <2>2, <3>1
  <2>. HIDE DEF new, L
  <2>. QED BY <1>3, <1>7, <1>9, <2>1, <2>2, <2>3
<1>10. CASE LaunchCli(c) /\ ~LoadOrCreate(c)
  <2>. DEFINE trusted == ca.cert = load[c].key
              new == [load[c] EXCEPT !.at = "tapped", !.trusted = trusted]
  <2>1. load' = [load EXCEPT ![c] = new] /\ UNCHANGED ca
    BY <1>10 DEF LaunchCli, Loads
  <2>2. trusted \in BOOLEAN
    OBVIOUS
  <2>. HIDE DEF trusted
  <2>3. new \in L
    BY <1>3, <2>2
  <2>. HIDE DEF new, L
  <2>. QED BY <1>2, <1>3, <1>7, <1>10, <2>1, <2>3
<1>11. {"certTruncated", "key", "keyTruncated", "ready"} \subseteq LoadSteps
  BY DEF LoadSteps
<1>12. ASSUME ~LoadOrCreate(c), ~ReadKey(c), ~LaunchCli(c)
       PROVE  load' \in [Client -> L'] /\ ca' \in [cert : Authorities', key : Authorities']
  <2>. HIDE DEF L
  <2>. QED BY <1>9, <1>11, <1>12 DEF Load
<1>. HIDE DEF L
<1>. QED BY <1>2, <1>3, <1>5, <1>7, <1>8, <1>10, <1>12

\* Faults keep the types: an agent that loads is of a client that writes nothing.
LEMMA FaultType ==
    ASSUME TypeOK, LoadingRuns, NEW c \in Client, ConnectionLost(c) \/ Kill(c)
    PROVE  TypeOK'
<1>. USE RemoteHomeAssumption
<1>1. NotRun \in Binary
  BY DEF NotRun, Binary
<1>2. NoLoad \in [at : LoadSteps \cup {"none", "failed", "tapped"}, cert : Authorities,
                  key : Authorities, trusted : BOOLEAN]
  BY DEF NoLoad, Authorities
<1>3. CASE ConnectionLost(c)
  BY <1>1, <1>2, <1>3 DEF ConnectionLost, Go, NoCat, TypeOK, Descriptors, Authorities, files
<1>4. CASE Kill(c)
  <2>1. client[c] = "up"
    BY <1>4 DEF Kill, LoadingRuns, Runs
  <2>. QED BY <1>1, <1>2, <1>4, <2>1, SMTT(30) DEF Kill, Go, TypeOK, Authorities, files
<1>. QED BY <1>3, <1>4

\* Every step keeps the types.
LEMMA StepType == TypeOK /\ LoadingRuns /\ [Next]_vars => TypeOK'
<1>. SUFFICES ASSUME TypeOK, LoadingRuns, [Next]_vars PROVE TypeOK'
  OBVIOUS
<1>1. CASE UNCHANGED vars
  BY <1>1 DEF vars, bootstrap, files, authority, TypeOK, Authorities
<1>2. ASSUME NEW c \in Client, Bootstrap(c) \/ Load(c) \/ ConnectionLost(c) \/ Kill(c) PROVE TypeOK'
  BY <1>2, BootstrapType, LoadType, FaultType
<1>. QED BY <1>1, <1>2 DEF Next

-----------------------------------------------------------------------------
(* The certificate authority *)

\* A load is in a running agent: what ends the agent ends the load first.
LEMMA StepLoading == TypeOK /\ LoadingRuns /\ [Next]_vars => LoadingRuns'
<1>. SUFFICES ASSUME TypeOK, LoadingRuns, [Next]_vars, NEW d \in Client, Loading(d)' PROVE Runs(d)'
  BY DEF LoadingRuns
<1>1. CASE UNCHANGED vars
  BY <1>1 DEF vars, bootstrap, authority, LoadingRuns, Loading, Runs
<1>2. ASSUME NEW c \in Client, Bootstrap(c) PROVE Runs(d)'
  <2>1. Loading(d) /\ Runs(d) /\ client[d] = "up"
    BY <1>2 DEF Bootstrap, Connect, Detect, OpenTmp, WriteChunk, CatExits, Stat, Mv, Chmod, ScriptStep,
         ScriptEnds, Start, Dies, StrayEnds, authority, LoadingRuns, Loading, Runs
  <2>2. client'[d] = "up" /\ running'[d] = running[d]
    BY <1>2, <2>1 DEF Bootstrap, Connect, Detect, OpenTmp, WriteChunk, CatExits, Stat, Mv, Chmod, ScriptStep,
         ScriptEnds, Start, Dies, StrayEnds, Go, TypeOK
  <2>. QED BY <2>1, <2>2 DEF Runs
<1>3. ASSUME NEW c \in Client, Load(c) PROVE Runs(d)'
  <2>1. UNCHANGED <<client, running>>
    BY <1>3 DEF Load, LoadOrCreate, ReadKey, Truncate, Write, LaunchCli, Loads, bootstrap
  <2>2. Runs(d)
    <3>1. CASE LoadOrCreate(c)
      BY <3>1 DEF LoadOrCreate, Loads, TypeOK, LoadingRuns, Loading
    <3>2. CASE ~LoadOrCreate(c)
      <4>1. Loading(c) /\ \A e \in Client : e # c => load'[e] = load[e]
        BY <1>3, <3>2 DEF Load, ReadKey, Truncate, Write, LaunchCli, Loads, TypeOK, Loading, LoadSteps
      <4>. QED BY <4>1 DEF LoadingRuns, Loading
    <3>. QED BY <3>1, <3>2
  <2>. QED BY <2>1, <2>2 DEF Runs
<1>4. ASSUME NEW c \in Client, ConnectionLost(c) \/ Kill(c) PROVE Runs(d)'
  <2>1. load' = [load EXCEPT ![c] = NoLoad] /\ client' = [client EXCEPT ![c] = "off"]
        /\ running' = [running EXCEPT ![c] = NotRun]
    BY <1>4 DEF ConnectionLost, Kill, Go
  <2>2. d # c
    BY <2>1 DEF Loading, NoLoad, LoadSteps, TypeOK
  <2>. QED BY <2>1, <2>2 DEF Loading, LoadingRuns, Runs, TypeOK
<1>. QED BY <1>1, <1>2, <1>3, <1>4 DEF Next

\* One load after the other leaves a certificate and a key that match, or an end
\* that is missing or torn.
LEMMA StepCa == TypeOK /\ CaInv /\ [Next]_vars => CaInv'
<1>. SUFFICES ASSUME TypeOK, CaInv, [Next]_vars, apart' PROVE OneLoads' /\ CaAgrees'
  BY DEF CaInv
<1>0. apart /\ OneLoads /\ CaAgrees
  BY ZenonT(30) DEF CaInv, Next, vars, authority, Bootstrap, Connect, Detect, OpenTmp, WriteChunk, CatExits, Stat, Mv,
     Chmod, ScriptStep, ScriptEnds, Start, Dies, StrayEnds, Load, LoadOrCreate, ReadKey, Truncate, Write,
     LaunchCli, ConnectionLost, Kill, TypeOK
<1>1. CASE UNCHANGED authority
  BY <1>0, <1>1 DEF authority, OneLoads, CaAgrees, Loading
<1>2. ASSUME NEW c \in Client, ConnectionLost(c) \/ Kill(c) PROVE OneLoads' /\ CaAgrees'
  <2>1. load' = [load EXCEPT ![c] = NoLoad] /\ UNCHANGED <<ca, made>>
    BY <1>2 DEF ConnectionLost, Kill
  <2>2. load'[c].at = "none" /\ \A d \in Client : d # c => load'[d] = load[d]
    BY <2>1 DEF NoLoad, TypeOK
  <2>. QED BY <1>0, <2>1, <2>2 DEF OneLoads, CaAgrees, Loading, LoadSteps
<1>3. ASSUME NEW c \in Client, LoadOrCreate(c) PROVE OneLoads' /\ CaAgrees'
  <2>1. \A d \in Client : ~Loading(d)
    BY <1>3 DEF LoadOrCreate
  <2>2. UNCHANGED ca /\ ca.key \in Authorities /\ ca.cert \in Authorities /\ made \in Nat
    BY <1>3 DEF LoadOrCreate, TypeOK
  <2>3. CASE Missing \in {ca.cert, ca.key}
    <3>1. made' = made + 1 /\ load' = [load EXCEPT ![c] = [NoLoad EXCEPT !.at = "cert", !.key = made + 1]]
      BY <1>3, <2>3 DEF LoadOrCreate, Loads
    <3>2. load'[c].at = "cert" /\ load'[c].key = made + 1 /\ \A d \in Client : d # c => load'[d] = load[d]
      BY <3>1 DEF NoLoad, TypeOK
    <3>3. ca.key = Missing
      BY <1>0, <2>2, <2>3 DEF CaAgrees, Missing
    <3>4. OneLoads'
      BY <2>1, <3>2 DEF OneLoads, Loading
    <3>5. CaAgrees'
      BY <1>0, <2>1, <2>2, <3>2, <3>3 DEF CaAgrees, Loading, LoadSteps, Missing, Torn
    <3>. QED BY <3>4, <3>5
  <2>4. CASE Missing \notin {ca.cert, ca.key}
    <3>1. UNCHANGED made /\ load' = [load EXCEPT ![c] = [NoLoad EXCEPT !.at = "reading", !.cert = ca.cert]]
      BY <1>3, <2>4 DEF LoadOrCreate, Loads
    <3>2. load'[c].at = "reading" /\ load'[c].cert = ca.cert /\ \A d \in Client : d # c => load'[d] = load[d]
      BY <3>1 DEF NoLoad, TypeOK
    <3>3. OneLoads'
      BY <2>1, <3>2 DEF OneLoads, Loading
    <3>4. CaAgrees'
      BY <1>0, <2>1, <2>2, <2>4, <3>1, <3>2 DEF CaAgrees, Loading, LoadSteps
    <3>. QED BY <3>3, <3>4
  <2>. QED BY <2>3, <2>4
<1>4. ASSUME NEW c \in Client, ReadKey(c) PROVE OneLoads' /\ CaAgrees'
  <2>. DEFINE at == IF Torn \in {load[c].cert, ca.key} THEN "failed" ELSE "ready"
  <2>1. load[c].at = "reading" /\ UNCHANGED <<ca, made>>
        /\ load' = [load EXCEPT ![c] = [load[c] EXCEPT !.at = at, !.key = ca.key]]
    BY <1>4 DEF ReadKey, Loads
  <2>2. load'[c].at = at /\ load'[c].key = ca.key /\ \A d \in Client : d # c => load'[d] = load[d]
    BY <2>1 DEF TypeOK
  <2>3. ca.key # Missing /\ load[c].cert = ca.cert /\ ca.key \in {Torn, ca.cert}
    BY <1>0, <2>1 DEF CaAgrees
  <2>4. at \in {"failed", "ready"} /\ (at = "ready" => ca.key = ca.cert)
    BY <2>3
  <2>5. Loading(c)
    BY <2>1 DEF Loading, LoadSteps
  <2>. HIDE DEF at
  <2>6. OneLoads'
    BY <1>0, <2>2, <2>5 DEF OneLoads, Loading
  <2>7. CaAgrees'
    BY <1>0, <2>1, <2>2, <2>3, <2>4 DEF CaAgrees
  <2>. QED BY <2>6, <2>7
<1>5. ASSUME NEW c \in Client, Truncate(c, "cert", "cert", "certTruncated") PROVE OneLoads' /\ CaAgrees'
  <2>1. load[c].at = "cert" /\ load' = [load EXCEPT ![c] = [load[c] EXCEPT !.at = "certTruncated"]]
        /\ ca' = [ca EXCEPT !.cert = Torn] /\ UNCHANGED made
    BY <1>5 DEF Truncate, Loads
  <2>2. load'[c].at = "certTruncated" /\ load'[c].key = load[c].key /\ ca'.key = ca.key
        /\ \A d \in Client : d # c => load'[d] = load[d]
    BY <2>1 DEF TypeOK
  <2>3. \A d \in Client : d # c => ~Loading(d)
    BY <1>0, <2>1 DEF OneLoads, Loading, LoadSteps
  <2>. QED BY <1>0, <2>1, <2>2, <2>3 DEF OneLoads, CaAgrees, Loading, LoadSteps
<1>6. ASSUME NEW c \in Client, Write(c, "cert", "certTruncated", "key") PROVE OneLoads' /\ CaAgrees'
  <2>1. load[c].at = "certTruncated" /\ load' = [load EXCEPT ![c] = [load[c] EXCEPT !.at = "key"]]
        /\ ca' = [ca EXCEPT !.cert = load[c].key] /\ UNCHANGED made
    BY <1>6 DEF Write, Loads
  <2>2. load'[c].at = "key" /\ load'[c].key = load[c].key /\ ca'.key = ca.key /\ ca'.cert = load[c].key
        /\ \A d \in Client : d # c => load'[d] = load[d]
    BY <2>1 DEF TypeOK
  <2>3. \A d \in Client : d # c => ~Loading(d)
    BY <1>0, <2>1 DEF OneLoads, Loading, LoadSteps
  <2>. QED BY <1>0, <2>1, <2>2, <2>3 DEF OneLoads, CaAgrees, Loading, LoadSteps
<1>7. ASSUME NEW c \in Client, Truncate(c, "key", "key", "keyTruncated") PROVE OneLoads' /\ CaAgrees'
  <2>1. load[c].at = "key" /\ load' = [load EXCEPT ![c] = [load[c] EXCEPT !.at = "keyTruncated"]]
        /\ ca' = [ca EXCEPT !.key = Torn] /\ UNCHANGED made
    BY <1>7 DEF Truncate, Loads
  <2>2. load'[c].at = "keyTruncated" /\ load'[c].key = load[c].key /\ ca'.key = Torn /\ ca'.cert = ca.cert
        /\ \A d \in Client : d # c => load'[d] = load[d]
    BY <2>1 DEF TypeOK
  <2>3. \A d \in Client : d # c => ~Loading(d)
    BY <1>0, <2>1 DEF OneLoads, Loading, LoadSteps
  <2>4. load[c].key \in 1..made /\ ca.cert = load[c].key
    BY <1>0, <2>1 DEF CaAgrees, TypeOK, Authorities
  <2>. QED BY <1>0, <2>1, <2>2, <2>3, <2>4 DEF OneLoads, CaAgrees, Loading, LoadSteps
<1>8. ASSUME NEW c \in Client, Write(c, "key", "keyTruncated", "ready") PROVE OneLoads' /\ CaAgrees'
  <2>1. load[c].at = "keyTruncated" /\ load' = [load EXCEPT ![c] = [load[c] EXCEPT !.at = "ready"]]
        /\ ca' = [ca EXCEPT !.key = load[c].key] /\ UNCHANGED made
    BY <1>8 DEF Write, Loads
  <2>2. load'[c].at = "ready" /\ load'[c].key = load[c].key /\ ca'.key = load[c].key /\ ca'.cert = ca.cert
        /\ \A d \in Client : d # c => load'[d] = load[d]
    BY <2>1 DEF TypeOK
  <2>3. \A d \in Client : d # c => ~Loading(d)
    BY <1>0, <2>1 DEF OneLoads, Loading, LoadSteps
  <2>4. load[c].key \in 1..made /\ ca.cert = load[c].key
    BY <1>0, <2>1 DEF CaAgrees, TypeOK, Authorities
  <2>. QED BY <1>0, <2>1, <2>2, <2>3, <2>4 DEF OneLoads, CaAgrees, Loading, LoadSteps
<1>9. ASSUME NEW c \in Client, LaunchCli(c) PROVE OneLoads' /\ CaAgrees'
  <2>. DEFINE trusted == ca.cert = load[c].key
  <2>1. load[c].at = "ready" /\ UNCHANGED <<ca, made>>
        /\ load' = [load EXCEPT ![c] = [load[c] EXCEPT !.at = "tapped", !.trusted = trusted]]
    BY <1>9 DEF LaunchCli, Loads
  <2>2. load'[c].at = "tapped" /\ load'[c].trusted = trusted /\ \A d \in Client : d # c => load'[d] = load[d]
    BY <2>1 DEF TypeOK
  <2>3. trusted
    BY <1>0, <2>1 DEF CaAgrees
  <2>4. Loading(c)
    BY <2>1 DEF Loading, LoadSteps
  <2>. HIDE DEF trusted
  <2>5. OneLoads'
    BY <1>0, <2>2, <2>4 DEF OneLoads, Loading
  <2>6. CaAgrees'
    BY <1>0, <2>1, <2>2, <2>3 DEF CaAgrees
  <2>. QED BY <2>5, <2>6
<1>10. ASSUME NEW c \in Client, Load(c) PROVE OneLoads' /\ CaAgrees'
  BY <1>3, <1>4, <1>5, <1>6, <1>7, <1>8, <1>9, <1>10 DEF Load
<1>11. ASSUME NEW c \in Client, Bootstrap(c) PROVE UNCHANGED authority
  BY <1>11 DEF Bootstrap, Connect, Detect, OpenTmp, WriteChunk, CatExits, Stat, Mv, Chmod, ScriptStep,
     ScriptEnds, Start, Dies, StrayEnds
<1>12. UNCHANGED vars => UNCHANGED authority
  BY DEF vars
<1>. QED BY <1>1, <1>2, <1>10, <1>11, <1>12 DEF Next

-----------------------------------------------------------------------------
(* A bootstrap that is alone *)

\* A client that is not busy does nothing to the files and to the scripts, and
\* does not become busy unless it connects.
LEMMA IdleStep ==
    ASSUME TypeOK, NEW d \in Client, ~Busy(d), Dies(d) \/ ConnectionLost(d) \/ Kill(d)
    PROVE  /\ UNCHANGED <<stray, script, tmp, agent, alone>>
           /\ client' = [client EXCEPT ![d] = "off"]
           /\ \A e \in Client : e # d => cat'[e] = cat[e]
<1>1. cat[d].fd = "none" /\ stray[d] = "none"
  BY DEF Busy, TypeOK, Steps
<1>2. CASE Dies(d)
  BY <1>2 DEF Dies, Go, files
<1>3. CASE Kill(d)
  BY <1>3 DEF Kill, Go, files
<1>4. CASE ConnectionLost(d)
  BY <1>1, <1>4 DEF ConnectionLost, Go, files, TypeOK
<1>. QED BY <1>2, <1>3, <1>4

\* What the others do leaves an attempt that is alone where it is.
LEMMA StepOther ==
    ASSUME TypeOK, AloneInv, NEW c \in alone, NEW d \in Client, c # d,
           Bootstrap(d) \/ ConnectionLost(d) \/ Kill(d), ~Connect(d)
    PROVE  /\ client[c] \in Steps => Progress(c)'
           /\ client'[c] = client[c] /\ running'[c] = running[c]
<1>0. c \in Client
  BY DEF TypeOK
<1>1. client'[c] = client[c] /\ running'[c] = running[c]
  BY <1>0 DEF Bootstrap, Detect, OpenTmp, WriteChunk, CatExits, Stat, Mv, Chmod, ScriptStep, ScriptEnds, Start,
     Dies, StrayEnds, ConnectionLost, Kill, Go, TypeOK
<1>2. ASSUME client[c] \in Steps PROVE Progress(c)'
  <2>1. Progress(c)
    BY <1>2 DEF AloneInv
  <2>2. ~Busy(d) /\ \A e \in Client : Busy(e) => e = c
    BY <2>1 DEF Progress
  <2>3. Dies(d) \/ ConnectionLost(d) \/ Kill(d)
    BY <2>2 DEF Bootstrap, Detect, OpenTmp, WriteChunk, CatExits, Stat, Mv, Chmod, ScriptStep, ScriptEnds, Start,
       StrayEnds, Busy, Steps, TypeOK
  <2>4. /\ UNCHANGED <<stray, script, tmp, agent, alone>>
        /\ client' = [client EXCEPT ![d] = "off"]
        /\ cat'[c] = cat[c]
    BY <1>0, <2>2, <2>3, IdleStep
  <2>5. \A e \in Client : Busy(e)' => Busy(e)
    BY <2>4 DEF Busy, Steps, TypeOK
  <2>. QED BY <1>1, <2>1, <2>2, <2>4, <2>5 DEF Progress, Ready
<1>. QED BY <1>1, <1>2

\* Each step of an attempt that is alone leaves what the next one needs.
LEMMA StepOwn ==
    ASSUME TypeOK, NEW c \in Client, client[c] \in Steps => Progress(c),
           client[c] = "up" => running[c] = Whole(c),
           Bootstrap(c) \/ ConnectionLost(c) \/ Kill(c), ~Connect(c)
    PROVE  /\ client'[c] \in Steps => Progress(c)'
           /\ client'[c] = "up" => running'[c] = Whole(c)
<1>. USE RemoteHomeAssumption
<1>0. tmp \in FileType /\ agent \in FileType /\ \A d \in Client : cat[d].fd # "none" <=> client[d] = "writing"
  BY DEF TypeOK
<1>1. ASSUME NEW d \in Client, d # c
      PROVE  client'[d] = client[d] /\ script'[d] = script[d] /\ (stray[d] = "none" => stray'[d] = "none")
  <2>1. CASE Mv(c)
    <3>1. client'[d] = client[d] /\ script'[d] = script[d]
      BY <1>1, <2>1 DEF Mv, ScriptStep, TypeOK
    <3>2. stray' \in {stray, [e \in Client |-> Renamed(stray[e])]}
      BY <2>1 DEF Mv
    <3>3. Renamed("none") = "none"
      BY DEF Renamed
    <3>. QED BY <3>1, <3>2, <3>3
  <2>2. CASE ~Mv(c)
    BY <1>1, <2>2 DEF Bootstrap, Detect, OpenTmp, WriteChunk, CatExits, Stat, Chmod, ScriptStep, ScriptEnds,
       Start, Dies, StrayEnds, ConnectionLost, Kill, Go, TypeOK
  <2>. QED BY <2>1, <2>2
<1>2. (\A d \in Client : Busy(d) => d = c) => \A d \in Client : Busy(d)' => d = c
  BY <1>1 DEF Busy
<1>3. CASE client[c] \notin Steps
  <2>1. client'[c] \notin Steps /\ (client'[c] = "up" => client[c] = "up" /\ running'[c] = running[c])
    BY <1>0, <1>3 DEF Bootstrap, Detect, OpenTmp, WriteChunk, CatExits, Stat, Mv, Chmod, ScriptStep, ScriptEnds,
       Start, Dies, StrayEnds, ConnectionLost, Kill, Go, TypeOK, Steps
  <2>. QED BY <2>1
<1>4. CASE client[c] \in Steps
  <2>0. Progress(c) /\ \A d \in Client : Busy(d)' => d = c
    BY <1>2, <1>4 DEF Progress
  <2>1. CASE Detect(c)
    <3>1. client'[c] \in {"uploading", "starting"} /\ (client'[c] = "starting" => ~NeedUpload(c))
          /\ UNCHANGED <<cat, stray, script, tmp, agent>> /\ client[c] = "detecting"
      BY <2>1 DEF Detect, Go, TypeOK, files
    <3>. QED BY <2>0, <3>1 DEF Progress, Ready, NeedUpload
  <2>2. CASE OpenTmp(c)
    <3>1. client[c] = "uploading" /\ client'[c] = "writing" /\ cat'[c].fd = "tmp" /\ cat'[c].written = 0
          /\ tmp'.there /\ tmp'.data = <<>> /\ UNCHANGED <<stray, script, agent>>
      BY <1>0, <2>2 DEF OpenTmp, Go, TypeOK, FileType
    <3>2. Prefix(c, 0) = <<>>
      BY DEF Prefix
    <3>. QED BY <2>0, <3>1, <3>2 DEF Progress
  <2>3. CASE WriteChunk(c)
    <3>1. client[c] = "writing" /\ cat[c].fd = "tmp" /\ tmp.there /\ cat[c].written \in Nat
          /\ tmp.data = Prefix(c, cat[c].written)
      BY <1>0, <2>0, <2>3 DEF WriteChunk, Progress, TypeOK
    <3>2. cat' = [cat EXCEPT ![c].written = cat[c].written + 1]
          /\ tmp' = Written(tmp, cat[c].written + 1, c)
          /\ UNCHANGED <<client, stray, script, agent>>
      BY <2>3, <3>1 DEF WriteChunk
    <3>3. cat'[c].fd = "tmp" /\ cat'[c].written = cat[c].written + 1
      BY <3>1, <3>2 DEF TypeOK
    <3>4. tmp'.data = Prefix(c, cat'[c].written)
      BY <1>0, <3>1, <3>2, <3>3, WrittenNext
    <3>5. tmp'.there
      BY <1>0, <3>1, <3>2 DEF Written, FileType
    <3>. QED BY <2>0, <3>1, <3>2, <3>3, <3>4, <3>5 DEF Progress
  <2>4. CASE CatExits(c)
    <3>1. client[c] = "writing" /\ cat[c].written = Chunks /\ client'[c] = "verifying" /\ script'[c] = "stat"
          /\ UNCHANGED <<stray, tmp, agent>>
      BY <2>4 DEF CatExits, Go, TypeOK, files
    <3>. QED BY <2>0, <3>1 DEF Progress, Prefix, Ready, Whole
  <2>5. CASE Stat(c)
    <3>1. script[c] = "stat" /\ client[c] = "verifying" /\ UNCHANGED <<client, cat, stray, tmp, agent>>
          /\ Ready(tmp, c)
      BY <2>0, <2>5 DEF Stat, ScriptStep, Progress, files
    <3>2. Len(tmp.data) = Chunks
      BY <3>1, PrefixType DEF Ready, Whole
    <3>3. script'[c] = "mv"
      BY <2>5, <3>1, <3>2 DEF Stat, ScriptStep, Ready, TypeOK
    <3>. QED BY <2>0, <3>1, <3>3 DEF Progress, Ready
  <2>6. CASE Mv(c)
    <3>1. script[c] = "mv" /\ client[c] = "verifying" /\ UNCHANGED client /\ Ready(tmp, c) /\ tmp.there
      BY <2>0, <2>6 DEF Mv, ScriptStep, Progress, Ready
    <3>2. agent' = tmp /\ stray' = [d \in Client |-> Renamed(stray[d])] /\ script'[c] = "chmod"
      BY <2>6, <3>1 DEF Mv, ScriptStep, TypeOK
    <3>3. stray'[c] = "none"
      BY <2>0, <3>2 DEF Progress, Renamed
    <3>. QED BY <2>0, <3>1, <3>2, <3>3 DEF Progress, Ready
  <2>7. CASE Chmod(c)
    <3>1. script[c] = "chmod" /\ client[c] = "verifying" /\ UNCHANGED <<client, stray>> /\ script'[c] = "OK"
          /\ Ready(agent, c) /\ agent' = [agent EXCEPT !.exec = agent.there]
      BY <2>0, <2>7 DEF Chmod, ScriptStep, Progress, TypeOK
    <3>2. agent'.exec /\ agent'.there /\ agent'.data = agent.data
      BY <1>0, <3>1 DEF FileType, Ready
    <3>. QED BY <2>0, <3>1, <3>2 DEF Progress, Ready
  <2>8. CASE ScriptEnds(c)
    <3>1. script[c] = "OK" /\ client[c] = "verifying" /\ Ready(agent, c) /\ agent.exec
      BY <2>0, <2>8 DEF ScriptEnds, Progress
    <3>2. client'[c] = "starting" /\ script'[c] = "none" /\ UNCHANGED <<cat, stray, tmp, agent>>
      BY <2>8, <3>1 DEF ScriptEnds, TypeOK, files
    <3>. QED BY <2>0, <3>1, <3>2 DEF Progress, Ready
  <2>9. CASE Start(c)
    <3>1. client[c] = "starting" /\ client'[c] = "up"
          /\ running' = [running EXCEPT ![c] = IF Executable THEN agent.data ELSE NotRun]
      BY <2>9 DEF Start, Go, TypeOK
    <3>2. Ready(agent, c) /\ agent.exec
      BY <2>0, <3>1 DEF Progress
    <3>3. \A d \in Client : stray[d] = "none" /\ cat[d].fd = "none"
      BY <1>0, <2>0, <3>1 DEF Progress, Busy, Steps
    <3>4. Executable
      BY <3>2, <3>3 DEF Executable, Ready
    <3>5. running'[c] = Whole(c)
      BY <3>1, <3>2, <3>4 DEF Ready, TypeOK
    <3>. QED BY <3>1, <3>5 DEF Steps
  <2>10. CASE StrayEnds(c)
    BY <2>0, <2>10 DEF StrayEnds, Progress
  <2>11. CASE Dies(c)
    BY <1>4, <2>11 DEF Dies, Steps
  <2>12. CASE ConnectionLost(c) \/ Kill(c)
    <3>1. client'[c] = "off"
      BY <2>12 DEF ConnectionLost, Kill, Go, TypeOK
    <3>. QED BY <3>1 DEF Steps
  <2>. QED BY <2>1, <2>2, <2>3, <2>4, <2>5, <2>6, <2>7, <2>8, <2>9, <2>10, <2>11, <2>12 DEF Bootstrap
<1>. QED BY <1>3, <1>4

\* An attempt stays alone until somebody connects while it goes on.
LEMMA StepAlone == TypeOK /\ AloneInv /\ [Next]_vars => AloneInv'
<1>. SUFFICES ASSUME TypeOK, AloneInv, [Next]_vars, NEW c \in alone'
              PROVE  /\ client'[c] \in Steps => Progress(c)'
                     /\ client'[c] = "up" => running'[c] = Whole(c)
  BY DEF AloneInv, Whole
<1>1. ASSUME UNCHANGED <<bootstrap, files, running, alone>>
      PROVE  /\ client'[c] \in Steps => Progress(c)'
             /\ client'[c] = "up" => running'[c] = Whole(c)
  BY <1>1 DEF bootstrap, files, AloneInv, Progress, Ready, Busy
<1>2. ASSUME NEW d \in Client, Connect(d)
      PROVE  /\ client'[c] \in Steps => Progress(c)'
             /\ client'[c] = "up" => running'[c] = Whole(c)
  <2>. DEFINE others == {e \in Client : Busy(e)}
  <2>1. client' = [client EXCEPT ![d] = "detecting"]
        /\ alone' = (IF others = {} THEN alone \cup {d} ELSE alone \ (others \cup {d}))
        /\ UNCHANGED <<cat, stray, script, tmp, agent, running>>
    BY <1>2 DEF Connect, Go, files
  <2>2. CASE c = d
    <3>1. others = {}
      BY <2>1, <2>2
    <3>2. \A e \in Client : ~Busy(e)
      BY <3>1
    <3>3. client'[c] = "detecting" /\ \A e \in Client : e # c => client'[e] = client[e]
      BY <2>1, <2>2 DEF TypeOK
    <3>4. stray'[c] = "none" /\ script'[c] = "none"
      BY <2>1, <2>2, <3>2 DEF Busy
    <3>5. \A e \in Client : Busy(e)' => e = c
      BY <2>1, <3>2, <3>3 DEF Busy
    <3>. QED BY <3>3, <3>4, <3>5 DEF Progress
  <2>3. CASE c # d
    <3>1. c \in alone /\ c \in Client /\ ~Busy(c)
      BY <2>1, <2>3 DEF TypeOK
    <3>2. client'[c] = client[c] /\ client[c] \notin Steps /\ running'[c] = running[c]
      BY <2>1, <2>3, <3>1 DEF Busy, TypeOK
    <3>. QED BY <3>1, <3>2 DEF AloneInv
  <2>. QED BY <2>2, <2>3
<1>3. ASSUME NEW d \in Client, Bootstrap(d) \/ ConnectionLost(d) \/ Kill(d), ~Connect(d)
      PROVE  /\ client'[c] \in Steps => Progress(c)'
             /\ client'[c] = "up" => running'[c] = Whole(c)
  <2>1. c \in alone /\ c \in Client
    <3>1. UNCHANGED alone
      BY <1>3 DEF Bootstrap, Detect, OpenTmp, WriteChunk, CatExits, Stat, Mv, Chmod, ScriptStep, ScriptEnds, Start,
         Dies, StrayEnds, ConnectionLost, Kill
    <3>. QED BY <3>1 DEF TypeOK
  <2>2. (client[c] \in Steps => Progress(c)) /\ (client[c] = "up" => running[c] = Whole(c))
    BY <2>1 DEF AloneInv
  <2>3. CASE c = d
    BY <1>3, <2>1, <2>2, <2>3, StepOwn
  <2>4. CASE c # d
    <3>1. /\ client[c] \in Steps => Progress(c)'
          /\ client'[c] = client[c] /\ running'[c] = running[c]
      BY <1>3, <2>1, <2>4, StepOther
    <3>. QED BY <2>2, <3>1
  <2>. QED BY <2>3, <2>4
<1>4. ASSUME NEW d \in Client, Load(d) PROVE UNCHANGED <<bootstrap, files, running, alone>>
  BY <1>4 DEF Load, LoadOrCreate, ReadKey, Truncate, Write, LaunchCli, Loads
<1>5. CASE UNCHANGED vars
  BY <1>1, <1>5 DEF vars
<1>. QED BY <1>1, <1>2, <1>3, <1>4, <1>5 DEF Next

-----------------------------------------------------------------------------
(* The theorems *)

\* The machine starts with no CA, no load and no attempt.
LEMMA InitInvariant == Init => IInv
<1>. SUFFICES ASSUME Init PROVE IInv
  OBVIOUS
<1>1. \A c \in Client : load[c].at = "none"
  BY DEF Init, NoLoad
<1>2. LoadingRuns
  BY <1>1 DEF LoadingRuns, Loading, LoadSteps
<1>3. OneLoads /\ CaAgrees
  BY <1>1 DEF Init, OneLoads, CaAgrees, Loading, LoadSteps
<1>4. AloneInv
  BY DEF Init, AloneInv
<1>. QED BY <1>2, <1>3, <1>4, InitType DEF IInv, CaInv

\* The invariant is inductive.
LEMMA Invariant == Spec => []IInv
<1>1. IInv /\ [Next]_vars => IInv'
  BY StepType, StepLoading, StepCa, StepAlone DEF IInv
<1>. QED BY <1>1, InitInvariant, PTL DEF Spec

\* The variables have their types: a file is never longer than a binary, whoever
\* writes to it, and a client uploads exactly while its cat has a file open.
THEOREM TypeCorrect == Spec => []TypeOK
<1>1. IInv => TypeOK
  BY DEF IInv
<1>. QED BY <1>1, Invariant, PTL

\* A bootstrap that overlapped nothing runs its own whole binary, whatever the
\* attempts before it left in the directory.
THEOREM RunsAlone == Spec => []RunsWhole
<1>1. IInv => RunsWhole
  BY DEF IInv, AloneInv, RunsWhole
<1>. QED BY <1>1, Invariant, PTL

\* While loads of the CA do not overlap, a CLI trusts what its proxy signs, also
\* after an agent that was killed between the two files.
THEOREM Trusted == Spec => []TrustedAlone
<1>1. IInv => TrustedAlone
  BY DEF IInv, CaInv, CaAgrees, TrustedAlone
<1>. QED BY <1>1, Invariant, PTL
=============================================================================
