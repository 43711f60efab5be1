------------------------------ MODULE OtaCache ------------------------------
(***************************************************************************)
(* The local cache of downloaded components: the background updater        *)
(* (updater.rs), the startup that compares the embedded manifest with the  *)
(* cached one, picks the frontend and restores what a restart for an       *)
(* update saved (lib.rs, commands/restart.rs), the bootstraps that take    *)
(* the agent binary from the cache (bootstrap/uploader.rs), and the loader *)
(* that brings the cache up to date before it starts the application       *)
(* (ota-loader).                                                           *)
(*                                                                         *)
(* A release is a number, and its version orders like it.  The content of  *)
(* a file is the release that last changed it, 0 where there is none and   *)
(* Torn while, or after, it was half written.  Published[r][f] is the      *)
(* content of file f in release r, 0 where the manifest of r has no f.     *)
(***************************************************************************)
EXTENDS Integers

CONSTANTS
    Boots,          \* bootstraps, one per connection being made
    Tarball, Agent, \* frontend.tar.gz and agent-linux-x86_64
    Releases,       \* bound: number of releases
    Published,      \* the releases
    Leftovers,      \* caches an earlier version of the program may have left
    MaxExits        \* bound: exits, crashes, runs of the loader, and read errors

Files == {Tarball, Agent}
Torn == -1
Contents == 0..Releases

ASSUME OtaAssumption ==
    /\ Tarball # Agent
    /\ Releases \in Nat \ {0} /\ MaxExits \in Nat
    /\ Published \in [1..Releases -> [Files -> Contents]]
    /\ \A r \in 1..Releases, f \in Files : Published[r][f] <= r
    /\ Leftovers \subseteq [cache : [Files -> Contents], frontend : Contents, manifest : {0, 1}]

VARIABLES
    latest,         \* the release in dist/
    embedded,       \* the release whose manifest the executable carries
    manifest,       \* the release in the cache's manifest.json
    cache,          \* the files of the cache
    frontend,       \* what frontend/ was unpacked from
    stage,          \* how far the application has started
    window,         \* the frontend the window was opened with
    updater,        \* where the updater is, or the loader
    boot,           \* where each bootstrap is, and the binary it holds
    exits,
    flag,           \* .restart_pending: "none", "torn" or "set"
    owed            \* history: whether a restart saved sessions that no start has
                    \* restored; "behind" once the executable is ahead of the manifest

restart == <<flag, owed>>
vars == <<latest, embedded, manifest, cache, frontend, stage, window, updater, boot, exits, restart>>

Idle == [pc |-> "idle", of |-> 1, todo |-> {}, file |-> Agent]
Resting == [pc |-> "idle", data |-> 0]
NoWindow == [from |-> "none", content |-> 0]

\* Every file in the cache has the content of a release, is missing, or is torn.
TypeOK ==
    /\ latest \in 1..Releases /\ embedded \in 1..latest
    /\ manifest \in Contents \cup {Torn} /\ manifest <= latest
    /\ cache \in [Files -> Contents \cup {Torn}]
    /\ frontend \in Contents \cup {Torn}
    /\ stage \in {"down", "loader", "clear", "baseline", "window", "restore", "unflag", "running"}
    /\ window \in [from : {"none", "embedded", "cache"}, content : Contents \cup {Torn}]
    /\ updater \in [pc : {"idle", "save", "compare", "download", "unpack", "unpacking",
                          "ask", "keep", "sync", "launch"},
                    of : 1..latest, todo : SUBSET Files, file : Files]
    /\ boot \in [Boots -> [pc : {"idle", "download", "write", "writing", "upload"},
                           data : Contents \cup {Torn}]]
    /\ exits \in 0..MaxExits
    /\ flag \in {"none", "torn", "set"} /\ owed \in {"no", "yes", "behind"}
    /\ stage \in {"down", "loader"} => window = NoWindow

Init ==
    /\ latest = 1 /\ embedded = 1
    /\ \E l \in Leftovers :
        /\ cache = l.cache /\ frontend = l.frontend /\ manifest = l.manifest
    /\ stage = "down" /\ window = NoWindow
    /\ updater = Idle
    /\ boot = [b \in Boots |-> Resting]
    /\ exits = 0
    /\ flag = "none" /\ owed = "no"

-----------------------------------------------------------------------------
\* The world: releases, new executables, exits at any moment.

Publish ==
    /\ latest < Releases
    /\ latest' = latest + 1
    /\ UNCHANGED <<embedded, manifest, cache, frontend, stage, window, updater, boot, exits, restart>>

\* The user replaces the executable while the application is not running.
Upgrade ==
    /\ stage = "down"
    /\ embedded < latest
    /\ embedded' = latest
    /\ owed' = IF owed = "yes" THEN "behind" ELSE owed
    /\ UNCHANGED <<latest, manifest, cache, frontend, stage, window, updater, boot, exits, flag>>

Down ==
    /\ exits < MaxExits /\ exits' = exits + 1
    /\ stage' = "down" /\ window' = NoWindow
    /\ updater' = Idle /\ boot' = [b \in Boots |-> Resting]
    /\ UNCHANGED <<latest, embedded, manifest, cache, frontend>>

\* The application or the loader is closed or killed.
Exit == stage # "down" /\ Down /\ UNCHANGED restart

\* What a request for file f may be answered with: raw.githubusercontent.com
\* serves a cached copy for some minutes.
Served(f) == {Published[r][f] : r \in {latest - 1, latest} \cap 1..Releases} \ {0}

-----------------------------------------------------------------------------
\* prepare_restart writes the flag, begun and ended, and exits.

PrepareRestart ==
    /\ stage = "running" /\ flag = "none" /\ exits < MaxExits
    /\ flag' = "torn"
    /\ UNCHANGED <<latest, embedded, manifest, cache, frontend, stage, window, updater, boot, exits, owed>>

ExitToRestart ==
    /\ stage = "running" /\ flag = "torn"
    /\ flag' = "set" /\ owed' = "yes"
    /\ Down

-----------------------------------------------------------------------------
\* Startup.

EmbeddedNewer == manifest \in 1..Releases /\ embedded > manifest

Setup == stage' = IF EmbeddedNewer THEN "clear" ELSE "window"

Start ==
    /\ stage = "down"
    /\ Setup
    /\ UNCHANGED <<latest, embedded, manifest, cache, frontend, window, updater, boot, exits, restart>>

\* The cache is cleared entry by entry, in the order of the directory.
ClearFile(f) ==
    /\ stage = "clear" /\ cache[f] # 0
    /\ cache' = [cache EXCEPT ![f] = 0]
    /\ UNCHANGED <<latest, embedded, manifest, frontend, stage, window, updater, boot, exits, restart>>

ClearFrontend ==
    /\ stage = "clear" /\ frontend # 0
    /\ frontend' = 0
    /\ UNCHANGED <<latest, embedded, manifest, cache, stage, window, updater, boot, exits, restart>>

ClearManifest ==
    /\ stage = "clear" /\ manifest # 0
    /\ manifest' = 0
    /\ UNCHANGED <<latest, embedded, cache, frontend, stage, window, updater, boot, exits, restart>>

ClearFlag ==
    /\ stage = "clear" /\ flag # "none"
    /\ flag' = "none"
    /\ UNCHANGED <<latest, embedded, manifest, cache, frontend, stage, window, updater, boot, exits, owed>>

\* Writing the embedded manifest as the baseline, begun and ended.
BaselineBegins ==
    /\ stage = "clear"
    /\ manifest = 0 /\ frontend = 0 /\ flag = "none" /\ \A f \in Files : cache[f] = 0
    /\ manifest' = Torn /\ stage' = "baseline"
    /\ UNCHANGED <<latest, embedded, cache, frontend, window, updater, boot, exits, restart>>

BaselineEnds ==
    /\ stage = "baseline"
    /\ manifest' = embedded /\ stage' = "window"
    /\ UNCHANGED <<latest, embedded, cache, frontend, window, updater, boot, exits, restart>>

OpenWindow ==
    /\ stage = "window"
    /\ window' = IF frontend # 0
                 THEN [from |-> "cache", content |-> frontend]
                 ELSE [from |-> "embedded", content |-> Published[embedded][Tarball]]
    /\ stage' = "restore"
    /\ UNCHANGED <<latest, embedded, manifest, cache, frontend, updater, boot, exits, restart>>

\* The sessions in the flag are linked to their connections again, if it can be
\* parsed, and the flag is removed in any case.
Restore ==
    /\ stage = "restore"
    /\ stage' = IF flag = "none" THEN "running" ELSE "unflag"
    /\ owed' = IF flag = "set" THEN "no" ELSE owed
    /\ UNCHANGED <<latest, embedded, manifest, cache, frontend, window, updater, boot, exits, flag>>

Unflag ==
    /\ stage = "unflag"
    /\ stage' = "running" /\ flag' = "none"
    /\ UNCHANGED <<latest, embedded, manifest, cache, frontend, window, updater, boot, exits, owed>>

Startup ==
    \/ Start \/ ClearFrontend \/ ClearManifest \/ ClearFlag \/ BaselineBegins \/ BaselineEnds
    \/ OpenWindow \/ Restore \/ Unflag
    \/ \E f \in Files : ClearFile(f)

-----------------------------------------------------------------------------
\* The updater: one pass of check_and_update.

Go(pc) == updater' = [updater EXCEPT !.pc = pc]
Done(f) == updater' = [updater EXCEPT !.pc = "compare", !.todo = @ \ {f}]

\* fetch_manifest writes manifest.json, begun and ended, before anything is
\* compared.
FetchManifest ==
    /\ stage = "running" /\ updater.pc = "idle"
    /\ manifest' = Torn
    /\ updater' = [updater EXCEPT !.pc = "save", !.of = latest]
    /\ UNCHANGED <<latest, embedded, cache, frontend, stage, window, boot, exits, restart>>

SaveManifest ==
    /\ updater.pc = "save"
    /\ manifest' = updater.of
    /\ updater' = [updater EXCEPT !.pc = "compare",
                                  !.todo = {f \in Files : Published[updater.of][f] # 0}]
    /\ UNCHANGED <<latest, embedded, cache, frontend, stage, window, boot, exits, restart>>

Wanted(f) == Published[updater.of][f]

\* A file that is missing is taken to be embedded when the cached manifest
\* has the same hash for it.
CachedMatch(f) == manifest \in 1..Releases /\ Published[manifest][f] = Wanted(f)

\* Variant: a file that is there is not hashed.
NeedsUpdateMissing(f) == cache[f] = 0 /\ ~CachedMatch(f)

NeedsUpdate(f) == IF cache[f] # 0 THEN cache[f] # Wanted(f) ELSE ~CachedMatch(f)

Compare(f) ==
    /\ updater.pc = "compare" /\ f \in updater.todo
    /\ IF NeedsUpdate(f)
       THEN updater' = [updater EXCEPT !.pc = "download", !.file = f]
       ELSE Done(f)
    /\ UNCHANGED <<latest, embedded, manifest, cache, frontend, stage, window, boot, exits, restart>>

\* Variant: the content is not verified.
DownloadUnverified(content) ==
    LET f == updater.file IN
    /\ updater.pc = "download"
    /\ content \in Served(f)
    /\ cache' = [cache EXCEPT ![f] = content]
    /\ IF f = Tarball THEN Go("unpack") ELSE Done(f)
    /\ UNCHANGED <<latest, embedded, manifest, frontend, stage, window, boot, exits, restart>>

\* download_file: verified in a temporary file, then renamed.
Download(content) ==
    LET f == updater.file IN
    /\ updater.pc = "download"
    /\ content \in Served(f)
    /\ content = Wanted(f)
    /\ cache' = [cache EXCEPT ![f] = content]
    /\ IF f = Tarball THEN Go("unpack") ELSE Done(f)
    /\ UNCHANGED <<latest, embedded, manifest, frontend, stage, window, boot, exits, restart>>

\* No answer, a bad status, or content of another hash ends the pass.
DownloadFails ==
    /\ updater.pc = "download"
    /\ updater' = Idle
    /\ UNCHANGED <<latest, embedded, manifest, cache, frontend, stage, window, boot, exits, restart>>

UnpackBegins ==
    /\ updater.pc = "unpack"
    /\ frontend' = Torn
    /\ Go("unpacking")
    /\ UNCHANGED <<latest, embedded, manifest, cache, stage, window, boot, exits, restart>>

UnpackEnds ==
    /\ updater.pc = "unpacking"
    /\ frontend' = cache[Tarball]
    /\ Done(Tarball)
    /\ UNCHANGED <<latest, embedded, manifest, cache, stage, window, boot, exits, restart>>

\* The archive could not be unpacked to its end: the pass ends.
UnpackFails ==
    /\ updater.pc = "unpacking"
    /\ updater' = Idle
    /\ UNCHANGED <<latest, embedded, manifest, cache, frontend, stage, window, boot, exits, restart>>

PassEnds == updater.pc = "compare" /\ updater.todo = {}

\* Files the manifest does not list are removed; frontend/ is a directory.
CleanStale ==
    /\ PassEnds
    /\ cache' = [f \in Files |-> IF Wanted(f) = 0 THEN 0 ELSE cache[f]]
    /\ updater' = Idle
    /\ UNCHANGED <<latest, embedded, manifest, frontend, stage, window, boot, exits, restart>>

Updater ==
    \/ FetchManifest \/ SaveManifest \/ DownloadFails
    \/ UnpackBegins \/ UnpackEnds \/ UnpackFails \/ CleanStale
    \/ \E f \in Files : Compare(f)
    \/ \E content \in Contents : Download(content)

-----------------------------------------------------------------------------
\* The loader: fetch_manifest, sync_file of every file, clean_stale, launch_main.

LoaderStarts ==
    /\ stage = "down" /\ exits < MaxExits
    /\ exits' = exits + 1
    /\ stage' = "loader"
    /\ Go("ask")
    /\ UNCHANGED <<latest, embedded, manifest, cache, frontend, window, boot, restart>>

Syncs(release) ==
    updater' = [updater EXCEPT !.pc = "sync", !.of = release,
                               !.todo = {f \in Files : Published[release][f] # 0}]

\* The cached manifest is fresh, or there is no other.
LoaderReuses ==
    /\ updater.pc = "ask" /\ manifest \in 1..Releases
    /\ Syncs(manifest)
    /\ UNCHANGED <<latest, embedded, manifest, cache, frontend, stage, window, boot, exits, restart>>

\* Nothing keeps the loader from being answered with a copy of the manifest, which
\* may be older than the one the executable carries.
LoaderFetches ==
    /\ updater.pc = "ask"
    /\ manifest' = Torn
    /\ \E r \in {latest - 1, latest} \cap 1..Releases :
         updater' = [updater EXCEPT !.pc = "keep", !.of = r]
    /\ UNCHANGED <<latest, embedded, cache, frontend, stage, window, boot, exits, restart>>

LoaderKeeps ==
    /\ updater.pc = "keep"
    /\ manifest' = updater.of
    /\ Syncs(updater.of)
    /\ owed' = IF owed = "yes" /\ updater.of < embedded THEN "behind" ELSE owed
    /\ UNCHANGED <<latest, embedded, cache, frontend, stage, window, boot, exits, flag>>

\* A file is hashed, and downloaded if it is not what the manifest lists.
LoaderSyncs(f) ==
    /\ updater.pc = "sync" /\ f \in updater.todo
    /\ cache[f] # Wanted(f) => Wanted(f) \in Served(f)
    /\ cache' = [cache EXCEPT ![f] = Wanted(f)]
    /\ updater' = [updater EXCEPT !.todo = @ \ {f}]
    /\ UNCHANGED <<latest, embedded, manifest, frontend, stage, window, boot, exits, restart>>

\* A torn manifest, no answer, or content of another hash.
LoaderFails ==
    /\ updater.pc \in {"ask", "sync"}
    /\ stage' = "down" /\ updater' = Idle
    /\ UNCHANGED <<latest, embedded, manifest, cache, frontend, window, boot, exits, restart>>

\* Variant: hidden files are swept too.
LoaderCleansHidden ==
    /\ updater.pc = "sync" /\ updater.todo = {}
    /\ cache' = [f \in Files |-> IF Wanted(f) = 0 THEN 0 ELSE cache[f]]
    /\ frontend' = 0 /\ flag' = "none"
    /\ Go("launch")
    /\ UNCHANGED <<latest, embedded, manifest, stage, window, boot, exits, owed>>

\* What the manifest does not list is removed, frontend/ with it.
LoaderCleans ==
    /\ updater.pc = "sync" /\ updater.todo = {}
    /\ cache' = [f \in Files |-> IF Wanted(f) = 0 THEN 0 ELSE cache[f]]
    /\ frontend' = 0
    /\ Go("launch")
    /\ UNCHANGED <<latest, embedded, manifest, stage, window, boot, exits, restart>>

LoaderLaunches ==
    /\ updater.pc = "launch"
    /\ Setup
    /\ updater' = Idle
    /\ UNCHANGED <<latest, embedded, manifest, cache, frontend, window, boot, exits, restart>>

Loader ==
    \/ LoaderReuses \/ LoaderFetches \/ LoaderKeeps \/ LoaderFails \/ LoaderCleans \/ LoaderLaunches
    \/ \E f \in Files : LoaderSyncs(f)

-----------------------------------------------------------------------------
\* get_agent_binary of a bootstrap.

At(b, pc, data) == boot' = [boot EXCEPT ![b] = [pc |-> pc, data |-> data]]

GetAgent(b) ==
    /\ stage = "running" /\ boot[b].pc = "idle"
    /\ IF cache[Agent] # 0 THEN At(b, "upload", cache[Agent]) ELSE At(b, "download", 0)
    /\ UNCHANGED <<latest, embedded, manifest, cache, frontend, stage, window, updater, exits, restart>>

\* A file that cannot be read is removed.
RemoveUnreadable(b) ==
    /\ stage = "running" /\ boot[b].pc = "idle" /\ cache[Agent] # 0
    /\ exits < MaxExits /\ exits' = exits + 1
    /\ cache' = [cache EXCEPT ![Agent] = 0]
    /\ At(b, "download", 0)
    /\ UNCHANGED <<latest, embedded, manifest, frontend, stage, window, updater, restart>>

\* Variant: the body of an error response is taken for the binary.
DownloadAgentAnyStatus(b) ==
    /\ boot[b].pc = "download"
    /\ At(b, "write", Releases + 1)
    /\ UNCHANGED <<latest, embedded, manifest, cache, frontend, stage, window, updater, exits, restart>>

DownloadAgent(b) ==
    /\ boot[b].pc = "download"
    /\ \E content \in Served(Agent) : At(b, "write", content)
    /\ UNCHANGED <<latest, embedded, manifest, cache, frontend, stage, window, updater, exits, restart>>

DownloadAgentFails(b) ==
    /\ boot[b].pc = "download"
    /\ At(b, "idle", 0)
    /\ UNCHANGED <<latest, embedded, manifest, cache, frontend, stage, window, updater, exits, restart>>

\* The binary is written in place, begun and ended.
WriteBegins(b) ==
    /\ boot[b].pc = "write"
    /\ cache' = [cache EXCEPT ![Agent] = Torn]
    /\ At(b, "writing", boot[b].data)
    /\ UNCHANGED <<latest, embedded, manifest, frontend, stage, window, updater, exits, restart>>

WriteEnds(b) ==
    /\ boot[b].pc = "writing"
    /\ cache' = [cache EXCEPT ![Agent] = boot[b].data]
    /\ At(b, "upload", boot[b].data)
    /\ UNCHANGED <<latest, embedded, manifest, frontend, stage, window, updater, exits, restart>>

\* A write that fails at its beginning or later is logged, and what was
\* downloaded is used.
WriteFails(b) ==
    /\ boot[b].pc \in {"write", "writing"}
    /\ At(b, "upload", boot[b].data)
    /\ UNCHANGED <<latest, embedded, manifest, cache, frontend, stage, window, updater, exits, restart>>

\* upload_agent and whatever follows it.
Upload(b) ==
    /\ boot[b].pc = "upload"
    /\ At(b, "idle", 0)
    /\ UNCHANGED <<latest, embedded, manifest, cache, frontend, stage, window, updater, exits, restart>>

Bootstrap(b) ==
    \/ GetAgent(b) \/ RemoveUnreadable(b) \/ DownloadAgent(b) \/ DownloadAgentFails(b)
    \/ WriteBegins(b) \/ WriteEnds(b) \/ WriteFails(b) \/ Upload(b)

Next ==
    \/ Publish \/ Upgrade \/ Exit \/ PrepareRestart \/ ExitToRestart \/ Startup \/ Updater
    \/ LoaderStarts \/ Loader
    \/ \E b \in Boots : Bootstrap(b)

Spec == Init /\ [][Next]_vars

\* The application is started again, the loader, the updater's loop and the bootstraps
\* run on, and a download that is tried again and again is answered at last
\* with the latest content, as is an unpacking with its end.
Fairness ==
    /\ WF_vars(Startup)
    /\ WF_vars(Updater) /\ WF_vars(Loader)
    /\ SF_vars(Download(Published[latest][updater.file]))
    /\ SF_vars(UnpackEnds)
    /\ \A b \in Boots : WF_vars(Bootstrap(b))

LiveSpec == Spec /\ Fairness

-----------------------------------------------------------------------------
\* Properties.

\* What the updater and the loader install is whole and of their manifest: the
\* tarball is never torn; when a pass ends the tarball in the cache, if there is
\* one, is the listed one; when the loader starts the application the cache is the
\* release of the manifest, whatever a crash, a bootstrap or an old copy left.
PassInstalls ==
    /\ cache[Tarball] # Torn
    /\ PassEnds /\ Wanted(Tarball) # 0 => cache[Tarball] \in {0, Wanted(Tarball)}
    /\ updater.pc = "launch" => \A f \in Files : cache[f] = Wanted(f)

\* Sessions saved by a restart for an update are restored by the next start that
\* gets as far, whatever is cleared, downloaded or swept between and whoever is
\* killed at it, unless the executable was replaced, or the loader kept an older
\* manifest than the executable's.
RestartRestored == stage = "running" => owed # "yes"

Listed == {f \in Files : Published[latest][f] # 0}

\* In the end every file the latest release lists is the latest, if it is in the
\* cache at all: what was torn by a crash, served from an old copy, or left by an
\* earlier release is replaced.
CacheHeals == <>[](\A f \in Listed : cache[f] \in {0, Published[latest][f]})

-----------------------------------------------------------------------------
(* Said of the program and not kept by it: see README, Disagreements *)

\* What the window shows is never older than the executable behind it.
WindowIsNew == window.from # "none" => window.content >= Published[embedded][Tarball]

\* "so that SSH connections, sessions, and conversation history can be recovered
\* after the process restarts" (restart.rs:1-3): also by an executable that is
\* ahead of the manifest.
SessionsRecovered == stage = "running" => owed = "no"

\* A bootstrap never uploads half a binary.
AgentWhole == \A b \in Boots : boot[b].pc = "upload" => boot[b].data # Torn

\* A pass that ends has the frontend unpacked from the tarball it keeps.
Unpacked == PassEnds /\ cache[Tarball] # 0 => frontend = cache[Tarball]

\* In the end the updater has downloaded every component of the manifest.
AllDownloaded == <>[](\A f \in Files : cache[f] = Published[latest][f])
=============================================================================
