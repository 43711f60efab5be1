---------------------------- MODULE OtaCache_proof ----------------------------
(***************************************************************************)
(* What module OtaCache promises of one cache, proved for any number of    *)
(* releases, whatever they list, of bootstraps, and of crashes at any      *)
(* step: what a pass installs is whole and of its manifest, and sessions   *)
(* that a restart saved are restored.                                      *)
(***************************************************************************)
EXTENDS OtaCache, TLAPS

\* The loader and the application do not run at once, and the updater and the
\* bootstraps are part of the application.
LoaderSteps == {"ask", "keep", "sync", "launch"}
PassSteps == {"save", "compare", "download", "unpack", "unpacking"}
OneProcess ==
    /\ stage = "loader" <=> updater.pc \in LoaderSteps
    /\ updater.pc \in PassSteps => stage = "running"
    /\ stage # "running" => \A b \in Boots : boot[b].pc = "idle"

\* The tarball the updater has dealt with is the listed one, if it is there.
TarballListed ==
    /\ cache[Tarball] # Torn
    /\ updater.pc \in PassSteps \ {"save"} /\ Wanted(Tarball) # 0 =>
         \/ Tarball \in updater.todo /\ updater.pc \in {"compare", "download"}
         \/ cache[Tarball] \in {0, Wanted(Tarball)}
    /\ updater.pc \in {"unpack", "unpacking"} => updater.file = Tarball

\* The files the loader has dealt with are the listed ones.
LoaderSynced ==
    /\ updater.pc = "sync" =>
         \A f \in Files : f \notin updater.todo /\ Wanted(f) # 0 => cache[f] = Wanted(f)
    /\ updater.pc = "launch" => \A f \in Files : cache[f] = Wanted(f)

\* The manifest in the cache is not older than the executable once it has been
\* looked at, nor while a restart is owed its sessions; nor is the one that the
\* updater is fetching.
ManifestKept ==
    /\ stage \in {"window", "restore", "unflag", "running"} \/ owed = "yes" => ~EmbeddedNewer
    /\ updater.pc = "save" => embedded <= updater.of

\* Sessions that are owed are in the flag, and no start that clears it, or that
\* has passed it, is under way.
OwedFlagged == owed = "yes" => flag = "set" /\ stage \in {"down", "loader", "window", "restore"}

IInv == TypeOK /\ OneProcess /\ TarballListed /\ LoaderSynced /\ ManifestKept /\ OwedFlagged

-----------------------------------------------------------------------------
(* Types *)

\* What is published has contents.
LEMMA PublishedType ==
    ASSUME NEW r \in 1..Releases, NEW f \in Files
    PROVE  Published[r][f] \in Contents
BY OtaAssumption

\* What a request is answered with is the content of a release, and is not torn.
LEMMA ServedType ==
    ASSUME TypeOK, NEW f \in Files, NEW content \in Served(f)
    PROVE  content \in Contents
BY PublishedType DEF Served

\* What a manifest asks for is a content.
LEMMA WantedType == ASSUME TypeOK, NEW f \in Files PROVE Wanted(f) \in Contents
BY PublishedType, OtaAssumption DEF Wanted, TypeOK

\* The types of all variables but the updater, whose record is taken apart here.
Pcs == {"idle", "save", "compare", "download", "unpack", "unpacking", "ask", "keep", "sync", "launch"}
Updaters == [pc : Pcs, of : 1..latest, todo : SUBSET Files, file : Files]

RestOK ==
    /\ latest \in 1..Releases /\ embedded \in 1..latest
    /\ manifest \in Contents \cup {Torn} /\ manifest <= latest
    /\ cache \in [Files -> Contents \cup {Torn}]
    /\ frontend \in Contents \cup {Torn}
    /\ stage \in {"down", "loader", "clear", "baseline", "window", "restore", "unflag", "running"}
    /\ window \in [from : {"none", "embedded", "cache"}, content : Contents \cup {Torn}]
    /\ boot \in [Boots -> [pc : {"idle", "download", "write", "writing", "upload"},
                           data : Contents \cup {Torn}]]
    /\ exits \in 0..MaxExits
    /\ flag \in {"none", "torn", "set"} /\ owed \in {"no", "yes", "behind"}
    /\ stage \in {"down", "loader"} => window = NoWindow

LEMMA TypeParts == /\ TypeOK <=> RestOK /\ updater \in Updaters
                   /\ TypeOK' <=> RestOK' /\ updater' \in Updaters'
                   /\ UNCHANGED latest => Updaters' = Updaters
BY DEF TypeOK, RestOK, Updaters, Pcs

\* The steps of the world keep the types.
LEMMA WorldTypes ==
    ASSUME IInv, Publish \/ Upgrade \/ Exit \/ PrepareRestart \/ ExitToRestart
    PROVE  TypeOK'
<1>. USE OtaAssumption DEF IInv, TypeOK, Contents, Files, Torn
<1>1. CASE Publish
  BY <1>1 DEF Publish, restart
<1>2. CASE Upgrade
  BY <1>2 DEF Upgrade
<1>3. CASE Exit
  BY <1>3 DEF Exit, Down, restart, Idle, Resting, NoWindow
<1>4. CASE PrepareRestart
  BY <1>4 DEF PrepareRestart
<1>5. CASE ExitToRestart
  BY <1>5 DEF ExitToRestart, Down, Idle, Resting, NoWindow
<1>. QED BY <1>1, <1>2, <1>3, <1>4, <1>5

\* The steps of a start keep the types.
LEMMA StartupTypes ==
    ASSUME IInv, NEW f \in Files,
           Start \/ ClearFile(f) \/ ClearFrontend \/ ClearManifest \/ ClearFlag \/ BaselineBegins \/
           BaselineEnds \/ OpenWindow \/ Restore \/ Unflag
    PROVE  TypeOK'
<1>. USE OtaAssumption DEF IInv, TypeOK, Contents, Files, Torn
<1>1. CASE Start
  BY <1>1 DEF Start, Setup, restart
<1>2. CASE ClearFile(f)
  BY <1>2 DEF ClearFile, restart
<1>3. CASE ClearFrontend
  BY <1>3 DEF ClearFrontend, restart
<1>4. CASE ClearManifest
  BY <1>4 DEF ClearManifest, restart
<1>5. CASE ClearFlag
  BY <1>5 DEF ClearFlag
<1>6. CASE BaselineBegins
  BY <1>6 DEF BaselineBegins, restart
<1>7. CASE BaselineEnds
  BY <1>7 DEF BaselineEnds, restart
<1>8. CASE OpenWindow
  BY <1>8 DEF OpenWindow, restart
<1>9. CASE Restore
  BY <1>9 DEF Restore
<1>10. CASE Unflag
  BY <1>10 DEF Unflag
<1>. QED BY <1>1, <1>2, <1>3, <1>4, <1>5, <1>6, <1>7, <1>8, <1>9, <1>10

\* The steps of the updater keep the types.
LEMMA UpdaterTypes ==
    ASSUME IInv, NEW f \in Files, NEW content \in Contents,
           FetchManifest \/ SaveManifest \/ Compare(f) \/ Download(content) \/ DownloadFails \/
           UnpackBegins \/ UnpackEnds \/ UnpackFails \/ CleanStale
    PROVE  TypeOK'
<1>. USE OtaAssumption DEF Contents, Files, Torn
<1>0. /\ RestOK /\ updater \in Updaters /\ UNCHANGED latest
      /\ latest \in Nat \ {0} /\ latest <= Releases /\ Releases \in Nat
      /\ {latest, updater.of} \subseteq 1..latest /\ updater.todo \subseteq Files /\ updater.file \in Files
  BY TypeParts, SMTT(30) DEF IInv, RestOK, Updaters, restart, FetchManifest, SaveManifest, Compare, Download,
     DownloadFails, UnpackBegins, UnpackEnds, UnpackFails, CleanStale
<1>1. CASE FetchManifest
  <2>1. RestOK'
    BY <1>0, <1>1 DEF IInv, OneProcess, LoaderSteps, RestOK, FetchManifest, restart
  <2>2. updater' \in Updaters
    <3>. DEFINE new == [updater EXCEPT !.pc = "save", !.of = latest]
    <3>1. new \in Updaters
      BY <1>0 DEF Updaters, Pcs
    <3>2. updater' = new
      BY <1>1 DEF FetchManifest, restart
    <3>. HIDE DEF new
    <3>. QED BY <3>1, <3>2
  <2>. QED BY <1>0, <2>1, <2>2, TypeParts
<1>2. CASE SaveManifest
  <2>1. RestOK'
    BY <1>0, <1>2 DEF IInv, OneProcess, LoaderSteps, RestOK, SaveManifest, restart
  <2>2. updater' \in Updaters
    BY <1>0, <1>2 DEF Updaters, Pcs, SaveManifest, restart
  <2>. QED BY <1>0, <2>1, <2>2, TypeParts
<1>3. CASE Compare(f)
  <2>1. RestOK'
    BY <1>0, <1>3 DEF IInv, OneProcess, LoaderSteps, RestOK, Compare, Done, restart
  <2>2. updater' \in Updaters
    <3>1. [updater EXCEPT !.pc = "download", !.file = f] \in Updaters
      BY <1>0 DEF Updaters, Pcs
    <3>2. [updater EXCEPT !.pc = "compare", !.todo = @ \ {f}] \in Updaters
      BY <1>0 DEF Updaters, Pcs
    <3>. QED BY <1>3, <3>1, <3>2 DEF Compare, Done
  <2>. QED BY <1>0, <2>1, <2>2, TypeParts
<1>4. CASE Download(content)
  <2>1. RestOK'
    BY <1>0, <1>4, WantedType, ServedType DEF IInv, OneProcess, LoaderSteps, RestOK, Download, Go, Done, restart
  <2>2. updater' \in Updaters
    <3>1. [updater EXCEPT !.pc = "unpack"] \in Updaters
      BY <1>0 DEF Updaters, Pcs
    <3>2. [updater EXCEPT !.pc = "compare", !.todo = @ \ {updater.file}] \in Updaters
      BY <1>0 DEF Updaters, Pcs
    <3>. QED BY <1>4, <3>1, <3>2 DEF Download, Go, Done
  <2>. QED BY <1>0, <2>1, <2>2, TypeParts
<1>5. CASE DownloadFails
  <2>1. RestOK'
    BY <1>0, <1>5 DEF IInv, OneProcess, LoaderSteps, RestOK, DownloadFails, Idle, restart
  <2>2. updater' \in Updaters
    BY <1>0, <1>5 DEF Updaters, Pcs, DownloadFails, Idle, restart
  <2>. QED BY <1>0, <2>1, <2>2, TypeParts
<1>6. CASE UnpackBegins
  <2>1. RestOK'
    BY <1>0, <1>6 DEF IInv, OneProcess, LoaderSteps, RestOK, UnpackBegins, Go, restart
  <2>2. updater' \in Updaters
    BY <1>0, <1>6 DEF Updaters, Pcs, UnpackBegins, Go, restart
  <2>. QED BY <1>0, <2>1, <2>2, TypeParts
<1>7. CASE UnpackEnds
  <2>1. RestOK'
    BY <1>0, <1>7 DEF IInv, OneProcess, LoaderSteps, RestOK, UnpackEnds, Done, restart
  <2>2. updater' \in Updaters
    BY <1>0, <1>7 DEF Updaters, Pcs, UnpackEnds, Done, restart
  <2>. QED BY <1>0, <2>1, <2>2, TypeParts
<1>8. CASE UnpackFails
  <2>1. RestOK'
    BY <1>0, <1>8 DEF IInv, OneProcess, LoaderSteps, RestOK, UnpackFails, Idle, restart
  <2>2. updater' \in Updaters
    BY <1>0, <1>8 DEF Updaters, Pcs, UnpackFails, Idle, restart
  <2>. QED BY <1>0, <2>1, <2>2, TypeParts
<1>9. CASE CleanStale
  <2>1. RestOK'
    BY <1>0, <1>9, WantedType DEF IInv, OneProcess, LoaderSteps, RestOK, CleanStale, PassEnds, Idle, restart
  <2>2. updater' \in Updaters
    BY <1>0, <1>9 DEF Updaters, Pcs, CleanStale, PassEnds, Idle, restart
  <2>. QED BY <1>0, <2>1, <2>2, TypeParts
<1>. QED BY <1>1, <1>2, <1>3, <1>4, <1>5, <1>6, <1>7, <1>8, <1>9

\* The steps of the loader keep the types.
LEMMA LoaderTypes ==
    ASSUME IInv, NEW f \in Files,
           LoaderStarts \/ LoaderReuses \/ LoaderFetches \/ LoaderKeeps \/ LoaderSyncs(f) \/
           LoaderFails \/ LoaderCleans \/ LoaderLaunches
    PROVE  TypeOK'
<1>f. LoaderFetches => /\ updater.pc = "ask" /\ manifest' = Torn
                       /\ UNCHANGED <<latest, embedded, cache, frontend, stage, window, boot, exits, flag, owed>>
  BY Zenon DEF LoaderFetches, restart
<1>. USE OtaAssumption DEF Contents, Files, Torn
<1>0. /\ RestOK /\ updater \in Updaters /\ UNCHANGED latest
      /\ latest \in Nat \ {0} /\ latest <= Releases /\ Releases \in Nat
      /\ {latest, updater.of} \subseteq 1..latest /\ updater.todo \subseteq Files /\ updater.file \in Files
  BY <1>f, TypeParts, SMTT(30) DEF IInv, RestOK, Updaters, restart, LoaderStarts, LoaderReuses, LoaderKeeps,
     LoaderSyncs, LoaderFails, LoaderCleans, LoaderLaunches
<1>1. CASE LoaderStarts
  <2>1. RestOK'
    BY <1>0, <1>1 DEF IInv, OneProcess, LoaderSteps, RestOK, LoaderStarts, Go, restart
  <2>2. updater' \in Updaters
    BY <1>0, <1>1 DEF Updaters, Pcs, LoaderStarts, Go, restart
  <2>. QED BY <1>0, <2>1, <2>2, TypeParts
<1>2. CASE LoaderReuses
  <2>1. RestOK'
    BY <1>0, <1>2 DEF IInv, OneProcess, LoaderSteps, RestOK, LoaderReuses, Syncs, restart
  <2>2. updater' \in Updaters
    <3>0. manifest \in 1..latest /\ {g \in Files : Published[manifest][g] # 0} \subseteq Files
      BY <1>0, <1>2 DEF LoaderReuses, RestOK
    <3>. DEFINE new == [updater EXCEPT !.pc = "sync", !.of = manifest,
                                    !.todo = {g \in Files : Published[manifest][g] # 0}]
    <3>1. new \in Updaters
      BY <1>0, <3>0 DEF Updaters, Pcs
    <3>2. updater' = new
      BY <1>2 DEF LoaderReuses, Syncs, restart
    <3>. HIDE DEF new
    <3>. QED BY <3>1, <3>2
  <2>. QED BY <1>0, <2>1, <2>2, TypeParts
<1>3. CASE LoaderFetches
  <2>1. RestOK'
    BY <1>0, <1>3, <1>f DEF IInv, OneProcess, LoaderSteps, RestOK
  <2>2. updater' \in Updaters
    <3>0. PICK r \in {latest - 1, latest} \cap 1..Releases :
            updater' = [updater EXCEPT !.pc = "keep", !.of = r]
      BY <1>3 DEF LoaderFetches
    <3>. DEFINE new == [updater EXCEPT !.pc = "keep", !.of = r]
    <3>r. r \in 1..latest
      BY <1>0, <3>0 DEF RestOK
    <3>1. new \in Updaters
      BY <1>0, <3>r DEF Updaters, Pcs
    <3>2. updater' = new
      BY <3>0
    <3>. HIDE DEF new
    <3>. QED BY <3>1, <3>2
  <2>. QED BY <1>0, <2>1, <2>2, TypeParts
<1>4. CASE LoaderKeeps
  <2>1. RestOK'
    BY <1>0, <1>4 DEF IInv, OneProcess, LoaderSteps, RestOK, LoaderKeeps, Syncs, restart
  <2>2. updater' \in Updaters
    BY <1>0, <1>4 DEF Updaters, Pcs, LoaderKeeps, Syncs, restart
  <2>. QED BY <1>0, <2>1, <2>2, TypeParts
<1>5. CASE LoaderSyncs(f)
  <2>1. RestOK'
    BY <1>0, <1>5, WantedType DEF IInv, OneProcess, LoaderSteps, RestOK, LoaderSyncs, restart
  <2>2. updater' \in Updaters
    BY <1>0, <1>5 DEF Updaters, Pcs, LoaderSyncs, restart
  <2>. QED BY <1>0, <2>1, <2>2, TypeParts
<1>6. CASE LoaderFails
  <2>1. RestOK'
    BY <1>0, <1>6 DEF IInv, OneProcess, LoaderSteps, RestOK, LoaderFails, Idle, restart
  <2>2. updater' \in Updaters
    BY <1>0, <1>6 DEF Updaters, Pcs, LoaderFails, Idle, restart
  <2>. QED BY <1>0, <2>1, <2>2, TypeParts
<1>7. CASE LoaderCleans
  <2>1. RestOK'
    BY <1>0, <1>7, WantedType DEF IInv, OneProcess, LoaderSteps, RestOK, LoaderCleans, Go, restart
  <2>2. updater' \in Updaters
    BY <1>0, <1>7 DEF Updaters, Pcs, LoaderCleans, Go, restart
  <2>. QED BY <1>0, <2>1, <2>2, TypeParts
<1>8. CASE LoaderLaunches
  <2>1. RestOK'
    BY <1>0, <1>8 DEF IInv, OneProcess, LoaderSteps, RestOK, LoaderLaunches, Setup, Idle, restart
  <2>2. updater' \in Updaters
    BY <1>0, <1>8 DEF Updaters, Pcs, LoaderLaunches, Setup, Idle, restart
  <2>. QED BY <1>0, <2>1, <2>2, TypeParts
<1>. QED BY <1>1, <1>2, <1>3, <1>4, <1>5, <1>6, <1>7, <1>8

\* The steps of a bootstrap keep the types.
LEMMA BootstrapTypes ==
    ASSUME IInv, NEW b \in Boots,
           GetAgent(b) \/ RemoveUnreadable(b) \/ DownloadAgent(b) \/ DownloadAgentFails(b) \/
           WriteBegins(b) \/ WriteEnds(b) \/ WriteFails(b) \/ Upload(b)
    PROVE  TypeOK'
<1>. USE OtaAssumption DEF IInv, TypeOK, Contents, Files, Torn
<1>1. CASE GetAgent(b)
  BY <1>1 DEF GetAgent, At, restart
<1>2. CASE DownloadAgent(b)
  BY <1>2, WantedType, ServedType DEF DownloadAgent, At, restart
<1>3. CASE DownloadAgentFails(b)
  BY <1>3 DEF DownloadAgentFails, At, restart
<1>4. CASE WriteBegins(b)
  BY <1>4 DEF WriteBegins, At, restart
<1>5. CASE WriteEnds(b)
  BY <1>5 DEF WriteEnds, At, restart
<1>6. CASE Upload(b)
  BY <1>6 DEF Upload, At, restart
<1>7. CASE RemoveUnreadable(b)
  BY <1>7 DEF RemoveUnreadable, At, restart
<1>8. CASE WriteFails(b)
  BY <1>8 DEF WriteFails, At, restart
<1>. QED BY <1>1, <1>2, <1>3, <1>4, <1>5, <1>6, <1>7, <1>8

\* The invariant holds of every cache an earlier version may have left.
LEMMA InitInvariant == Init => IInv
<1>. SUFFICES ASSUME Init PROVE IInv
  OBVIOUS
<1>1. PICK l \in Leftovers : cache = l.cache /\ frontend = l.frontend /\ manifest = l.manifest
  BY DEF Init
<1>2. cache \in [Files -> Contents] /\ frontend \in Contents /\ manifest \in {0, 1}
  BY <1>1, OtaAssumption
<1>3. TypeOK
  BY <1>2, OtaAssumption DEF Init, TypeOK, Idle, Resting, NoWindow, Contents, Files, Torn
<1>4. cache[Tarball] # Torn
  BY <1>2 DEF Contents, Torn, Files
<1>5. updater.pc = "idle" /\ stage = "down" /\ owed = "no" /\ \A b \in Boots : boot[b].pc = "idle"
  BY DEF Init, Idle, Resting
<1>. QED BY <1>3, <1>4, <1>5 DEF IInv, OneProcess, LoaderSteps, PassSteps, TarballListed, LoaderSynced,
            ManifestKept, OwedFlagged

-----------------------------------------------------------------------------
(* The steps *)

\* What the steps keep besides the types.
Kept == OneProcess /\ TarballListed /\ LoaderSynced /\ ManifestKept /\ OwedFlagged

\* A release, a new executable and an exit at any moment keep what the invariant says:
\* an exit ends all that is under way, and a new executable is owed nothing.
LEMMA WorldKeeps ==
    ASSUME IInv, Publish \/ Upgrade \/ Exit \/ PrepareRestart \/ ExitToRestart
    PROVE  Kept'
<1>. USE OtaAssumption DEF IInv, Kept, TypeOK, OneProcess, TarballListed, LoaderSynced, ManifestKept,
        OwedFlagged, LoaderSteps, PassSteps, Wanted, EmbeddedNewer, Contents, Files, Torn
<1>1. CASE Publish
  BY <1>1 DEF Publish, restart
<1>2. CASE Upgrade
  BY <1>2 DEF Upgrade
<1>3. CASE Exit
  BY <1>3 DEF Exit, Down, restart, Idle, Resting, NoWindow
<1>4. CASE PrepareRestart
  BY <1>4 DEF PrepareRestart
<1>5. CASE ExitToRestart
  BY <1>5 DEF ExitToRestart, Down, Idle, Resting, NoWindow
<1>. QED BY <1>1, <1>2, <1>3, <1>4, <1>5

\* A start that is owed sessions clears nothing, and the updater is not running yet.
LEMMA StartupKeeps ==
    ASSUME IInv, NEW f \in Files,
           Start \/ ClearFile(f) \/ ClearFrontend \/ ClearManifest \/ ClearFlag \/ BaselineBegins \/
           BaselineEnds \/ OpenWindow \/ Restore \/ Unflag
    PROVE  Kept'
<1>. USE OtaAssumption DEF IInv, Kept, TypeOK, OneProcess, TarballListed, LoaderSynced, ManifestKept,
        OwedFlagged, LoaderSteps, PassSteps, Wanted, EmbeddedNewer, Contents, Files, Torn
<1>1. CASE Start
  BY <1>1 DEF Start, Setup, restart
<1>2. CASE ClearFile(f)
  BY <1>2 DEF ClearFile, restart
<1>3. CASE ClearFrontend
  BY <1>3 DEF ClearFrontend, restart
<1>4. CASE ClearManifest
  BY <1>4 DEF ClearManifest, restart
<1>5. CASE ClearFlag
  BY <1>5 DEF ClearFlag
<1>6. CASE BaselineBegins
  BY <1>6 DEF BaselineBegins, restart
<1>7. CASE BaselineEnds
  BY <1>7 DEF BaselineEnds, restart
<1>8. CASE OpenWindow
  BY <1>8 DEF OpenWindow, restart
<1>9. CASE Restore
  BY <1>9 DEF Restore
<1>10. CASE Unflag
  BY <1>10 DEF Unflag
<1>. QED BY <1>1, <1>2, <1>3, <1>4, <1>5, <1>6, <1>7, <1>8, <1>9, <1>10

\* A pass changes what is missing or not the listed content, to the listed content.
LEMMA UpdaterKeeps ==
    ASSUME IInv, NEW f \in Files, NEW content \in Contents,
           FetchManifest \/ SaveManifest \/ Compare(f) \/ Download(content) \/ DownloadFails \/
           UnpackBegins \/ UnpackEnds \/ UnpackFails \/ CleanStale
    PROVE  Kept'
<1>. USE OtaAssumption DEF IInv, Kept, TypeOK, OneProcess, TarballListed, LoaderSynced, ManifestKept,
        OwedFlagged, LoaderSteps, PassSteps, Wanted, EmbeddedNewer, Contents, Files, Torn
<1>1. CASE FetchManifest
  BY <1>1 DEF FetchManifest, restart
<1>2. CASE SaveManifest
  BY <1>2, SMTT(30) DEF SaveManifest, restart
<1>3. CASE Compare(f)
  <2>1. /\ UNCHANGED <<latest, embedded, manifest, cache, frontend, stage, window, boot, exits, restart>>
        /\ updater.pc = "compare" /\ f \in updater.todo /\ updater'.of = updater.of
        /\ \/ NeedsUpdate(f) /\ updater'.pc = "download" /\ updater'.todo = updater.todo
           \/ ~NeedsUpdate(f) /\ updater'.pc = "compare" /\ updater'.todo = updater.todo \ {f}
    BY <1>3 DEF Compare, Done
  <2>2. ~NeedsUpdate(f) => cache[f] \in {0, Wanted(f)}
    BY DEF NeedsUpdate
  <2>. QED BY <2>1, <2>2 DEF restart
<1>4. CASE Download(content)
  <2>1. /\ UNCHANGED <<latest, embedded, manifest, frontend, stage, window, boot, exits, restart>>
        /\ updater.pc = "download" /\ updater'.of = updater.of /\ updater'.file = updater.file
        /\ cache' = [cache EXCEPT ![updater.file] = Wanted(updater.file)]
        /\ \/ updater.file = Tarball /\ updater'.pc = "unpack" /\ updater'.todo = updater.todo
           \/ updater.file # Tarball /\ updater'.pc = "compare" /\ updater'.todo = updater.todo \ {updater.file}
    BY <1>4, ZenonT(30) DEF Download, Go, Done
  <2>2. updater.file \in Files /\ Tarball \in Files /\ Wanted(updater.file) \in Contents
    BY WantedType
  <2>3. cache'[Tarball] = IF updater.file = Tarball THEN Wanted(Tarball) ELSE cache[Tarball]
    BY <2>1, <2>2
  <2>4. TarballListed'
    BY <2>1, <2>2, <2>3
  <2>5. (OneProcess /\ LoaderSynced /\ ManifestKept /\ OwedFlagged)'
    BY <2>1 DEF restart
  <2>. QED BY <2>4, <2>5
<1>5. CASE DownloadFails
  BY <1>5 DEF DownloadFails, Idle, restart
<1>6. CASE UnpackBegins
  BY <1>6 DEF UnpackBegins, Go, restart
<1>7. CASE UnpackEnds
  BY <1>7, WantedType DEF UnpackEnds, Done, restart
<1>8. CASE UnpackFails
  BY <1>8 DEF UnpackFails, Idle, restart
<1>9. CASE CleanStale
  BY <1>9, WantedType DEF CleanStale, PassEnds, Idle, restart
<1>. QED BY <1>1, <1>2, <1>3, <1>4, <1>5, <1>6, <1>7, <1>8, <1>9

\* The loader leaves the listed content of every file.
LEMMA LoaderStepsKeep ==
    ASSUME IInv, NEW f \in Files,
           LoaderStarts \/ LoaderReuses \/ LoaderFetches \/ LoaderKeeps \/ LoaderSyncs(f) \/
           LoaderFails \/ LoaderCleans \/ LoaderLaunches
    PROVE  Kept'
<1>. USE OtaAssumption DEF IInv, Kept, TypeOK, OneProcess, TarballListed, LoaderSynced, ManifestKept,
        OwedFlagged, LoaderSteps, PassSteps, Wanted, EmbeddedNewer, Contents, Files, Torn
<1>1. CASE LoaderStarts
  BY <1>1 DEF LoaderStarts, Go, restart
<1>2. CASE LoaderReuses
  BY <1>2, WantedType DEF LoaderReuses, Syncs, restart
<1>3. CASE LoaderFetches
  <2>1. /\ updater.pc = "ask" /\ manifest' = Torn
        /\ UNCHANGED <<latest, embedded, cache, frontend, stage, window, boot, exits, flag, owed>>
    BY <1>3, Zenon DEF LoaderFetches, restart
  <2>2. PICK r \in {latest - 1, latest} \cap 1..Releases :
          updater' = [updater EXCEPT !.pc = "keep", !.of = r]
    BY <1>3 DEF LoaderFetches
  <2>3. updater'.pc = "keep"
    BY <2>2
  <2>. QED BY <2>1, <2>3
<1>4. CASE LoaderKeeps
  BY <1>4 DEF LoaderKeeps, Syncs, restart
<1>5. CASE LoaderSyncs(f)
  BY <1>5, WantedType, SMTT(30) DEF LoaderSyncs, restart
<1>6. CASE LoaderFails
  BY <1>6 DEF LoaderFails, Idle, restart
<1>7. CASE LoaderCleans
  BY <1>7, WantedType, SMTT(30) DEF LoaderCleans, Go, restart
<1>8. CASE LoaderLaunches
  BY <1>8 DEF LoaderLaunches, Setup, Idle, restart
<1>. QED BY <1>1, <1>2, <1>3, <1>4, <1>5, <1>6, <1>7, <1>8

\* A bootstrap writes the agent binary only, and only while the application runs.
LEMMA BootstrapKeeps ==
    ASSUME IInv, NEW b \in Boots,
           GetAgent(b) \/ RemoveUnreadable(b) \/ DownloadAgent(b) \/ DownloadAgentFails(b) \/
           WriteBegins(b) \/ WriteEnds(b) \/ WriteFails(b) \/ Upload(b)
    PROVE  Kept'
<1>. USE OtaAssumption DEF IInv, Kept, TypeOK, OneProcess, TarballListed, LoaderSynced, ManifestKept,
        OwedFlagged, LoaderSteps, PassSteps, Wanted, EmbeddedNewer, Contents, Files, Torn
<1>1. CASE GetAgent(b)
  BY <1>1 DEF GetAgent, At, restart
<1>2. CASE DownloadAgent(b)
  BY <1>2 DEF DownloadAgent, At, restart
<1>3. CASE DownloadAgentFails(b)
  BY <1>3 DEF DownloadAgentFails, At, restart
<1>4. CASE WriteBegins(b)
  BY <1>4 DEF WriteBegins, At, restart
<1>5. CASE WriteEnds(b)
  BY <1>5 DEF WriteEnds, At, restart
<1>6. CASE Upload(b)
  BY <1>6 DEF Upload, At, restart
<1>7. CASE RemoveUnreadable(b)
  BY <1>7 DEF RemoveUnreadable, At, restart
<1>8. CASE WriteFails(b)
  BY <1>8 DEF WriteFails, At, restart
<1>. QED BY <1>1, <1>2, <1>3, <1>4, <1>5, <1>6, <1>7, <1>8

-----------------------------------------------------------------------------
\* Every step keeps the invariant.
LEMMA StepInvariant == IInv /\ [Next]_vars => IInv'
<1>. SUFFICES ASSUME IInv, [Next]_vars PROVE IInv'
  OBVIOUS
<1>1. IInv' <=> TypeOK' /\ Kept'
  BY DEF IInv, Kept
<1>2. CASE UNCHANGED vars
  BY <1>2 DEF vars, restart, IInv, TypeOK, OneProcess, TarballListed, LoaderSynced, ManifestKept, OwedFlagged,
     Wanted, EmbeddedNewer
<1>3. CASE Publish \/ Upgrade \/ Exit \/ PrepareRestart \/ ExitToRestart
  BY <1>1, <1>3, WorldTypes, WorldKeeps
<1>4. CASE Startup
  <2>1. PICK f \in Files : \/ Start \/ ClearFile(f) \/ ClearFrontend \/ ClearManifest \/ ClearFlag
                          \/ BaselineBegins \/ BaselineEnds \/ OpenWindow \/ Restore \/ Unflag
    BY <1>4 DEF Startup, Files
  <2>. QED BY <1>1, <2>1, StartupTypes, StartupKeeps
<1>5. CASE Updater
  <2>1. 0 \in Contents
    BY OtaAssumption DEF Contents
  <2>2. PICK f \in Files, content \in Contents :
          \/ FetchManifest \/ SaveManifest \/ Compare(f) \/ Download(content) \/ DownloadFails
          \/ UnpackBegins \/ UnpackEnds \/ UnpackFails \/ CleanStale
    BY <1>5, <2>1 DEF Updater, Files
  <2>. QED BY <1>1, <2>2, UpdaterTypes, UpdaterKeeps
<1>6. CASE LoaderStarts \/ Loader
  <2>1. PICK f \in Files :
          \/ LoaderStarts \/ LoaderReuses \/ LoaderFetches \/ LoaderKeeps \/ LoaderSyncs(f)
          \/ LoaderFails \/ LoaderCleans \/ LoaderLaunches
    BY <1>6 DEF Loader, Files
  <2>. QED BY <1>1, <2>1, LoaderTypes, LoaderStepsKeep
<1>7. ASSUME NEW b \in Boots, Bootstrap(b) PROVE IInv'
  BY <1>1, <1>7, BootstrapTypes, BootstrapKeeps DEF Bootstrap
<1>. QED BY <1>2, <1>3, <1>4, <1>5, <1>6, <1>7 DEF Next

-----------------------------------------------------------------------------
(* The theorems *)

\* The invariant holds of every behaviour of the updater, the loader, the starts
\* and the bootstraps.
LEMMA Invariant == Spec => []IInv
<1>. QED BY InitInvariant, StepInvariant, PTL DEF Spec

\* Every file in the cache has the content of a release, is missing or is torn.
THEOREM TypeCorrect == Spec => []TypeOK
<1>1. IInv => TypeOK
  BY DEF IInv
<1>. QED BY <1>1, Invariant, PTL

\* The tarball is never torn, a pass that ends leaves the listed one or none, and
\* the loader starts the application on the release of its manifest, whatever
\* crashes, bootstraps and old copies come between, for any releases.
THEOREM Installs == Spec => []PassInstalls
<1>1. IInv => PassInstalls
  BY DEF IInv, TarballListed, LoaderSynced, PassInstalls, PassEnds, PassSteps
<1>. QED BY <1>1, Invariant, PTL

\* No start that reaches the end leaves sessions unrestored that a restart for an
\* update saved, unless the executable was replaced or the loader kept a manifest
\* older than the executable's.
THEOREM Restored == Spec => []RestartRestored
<1>1. IInv => RestartRestored
  BY DEF IInv, OwedFlagged, RestartRestored
<1>. QED BY <1>1, Invariant, PTL
=============================================================================
