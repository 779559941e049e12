----------------------------- MODULE StaticSite -----------------------------
(***************************************************************************)
(* A static site, from the directory of its files to what a browser shows: *)
(*                                                                         *)
(*   disk --createStaticAssetsManifest--> manifest   (hash, mtime per file) *)
(*   disk, manifest --Wizer--> binary   (createStaticServer reads the bytes) *)
(*   binary --deployed--> live --serveRequest--> the client's copies       *)
(*                                                                         *)
(* The hash and the time of a file are recorded in one step of the build,  *)
(* its bytes are read in a later one, and the directory is not locked.     *)
(*                                                                         *)
(* A hash is modelled by the contents it was computed from.  One client    *)
(* stands for all: the server keeps nothing about them.                    *)
(***************************************************************************)
EXTENDS Integers, SequencesExt

CONSTANTS
    Key,               \* asset keys
    Bytes,             \* file contents
    Url,               \* request paths
    Extended,          \* the request paths with extended caching
    Nil,
    Settings           \* what a behaviour is about: one of these, for all of it

\* One setting.
Setting ==
    [versions : [Key -> SUBSET Bytes],      \* bound: the contents each file takes
     candidates : [Url -> Seq(Key)],        \* the keys tried for a path, in order
     spaEntrypoint : Key \cup {Nil},
     notFoundPage : Key \cup {Nil},
     conditions : SUBSET {"none", "etag", "since", "both"},   \* of the client's requests
     maxTime : Nat,                         \* bound: the instant of the last edit
     minGap : Nat,                          \* the least time between two edits
     ticksPerSecond : Nat \ {0},
     upToDate : BOOLEAN,     \* the developer snapshots only what the manifest was
                             \*   made of: nothing is edited in between
     mtimesGoBack : BOOLEAN] \* files may arrive with an older mtime (cp -p, tar, a
                             \*   checkout of an earlier release)

ASSUME StaticSiteAssumption ==
    /\ Nil \notin Key \cup Bytes
    /\ Extended \subseteq Url
    /\ \A s \in Settings : s \in Setting

VARIABLES
    setting,   \* of this behaviour
    clock,     \* the time of the last edit
    disk,      \* the public directory
    phase,     \* what the build tools are doing
    todo,      \* the files they have still to read
    draft,     \* what they have gathered so far
    manifest,  \* the manifest file
    binary,    \* the assets inside the last .wasm built
    live,      \* the assets inside the .wasm deployed
    copy,      \* copy[u]: what the client has stored for u
    reply      \* auxiliary: the answer just given, and what the client showed for it

buildVars == <<phase, todo, draft, manifest, binary>>
vars == <<setting, clock, disk, phase, todo, draft, manifest, binary, live, copy, reply>>

Versions == setting.versions
Candidates == setting.candidates
spaEntrypoint == setting.spaEntrypoint
notFoundPage == setting.notFoundPage
TicksPerSecond == setting.ticksPerSecond

File == [bytes : Bytes, mtime : Nat]
Meta == [hash : Bytes, lastModifiedTime : Nat]
Asset == [source : Bytes, hash : Bytes, lastModifiedTime : Nat]
Copy == [body : Bytes, etag : Bytes, date : Nat \cup {Nil}]
Reply == [asset : Key, shown : Bytes]

\* Types; a binary only ever holds whole assets, and a recorded time is not
\* negative.
TypeOK ==
    /\ setting \in Settings
    /\ clock \in 0 .. setting.maxTime
    /\ disk \in [Key -> File \cup {Nil}]
    /\ phase \in {"idle", "manifest", "snapshot"}
    /\ todo \subseteq Key
    /\ draft \in [Key -> Meta \cup Asset \cup {Nil}]
    /\ manifest \in [Key -> Meta \cup {Nil}]
    /\ {binary, live} \subseteq [Key -> Asset \cup {Nil}]
    /\ copy \in [Url -> Copy \cup {Nil}]
    /\ reply \in Reply \cup {Nil}

Nothing == [k \in Key |-> Nil]

Init ==
    /\ setting \in Settings
    /\ clock = 0
    /\ disk = Nothing
    /\ phase = "idle" /\ todo = {} /\ draft = Nothing
    /\ manifest = Nothing
    /\ binary = Nothing /\ live = Nothing
    /\ copy = [u \in Url |-> Nil]
    /\ reply = Nil

Has(site) == {k \in Key : site[k] # Nil}

-----------------------------------------------------------------------------
(* The directory.  External: editors, bundlers, checkouts. *)

MayEdit == setting.upToDate => phase = "idle"

\* When the next edit may be, and the mtime it may leave.
EditTimes == (clock + setting.minGap) .. setting.maxTime
Mtimes(t) == IF setting.mtimesGoBack THEN 0 .. t ELSE {t}

Edit(k, b, t, mtime) ==
    /\ MayEdit
    /\ clock' = t
    /\ disk' = [disk EXCEPT ![k] = [bytes |-> b, mtime |-> mtime]]
    /\ reply' = Nil
    /\ UNCHANGED <<buildVars, live, copy>>

Unlink(k) ==
    /\ MayEdit
    /\ disk[k] # Nil
    /\ disk' = [disk EXCEPT ![k] = Nil]
    /\ reply' = Nil
    /\ UNCHANGED <<clock, buildVars, live, copy>>

-----------------------------------------------------------------------------
(* fastedge-assets, and the first half of a build of type 'static' *)

Scan ==
    /\ phase = "idle"
    /\ phase' = "manifest"
    /\ todo' = Has(disk)
    /\ draft' = Nothing
    /\ reply' = Nil
    /\ UNCHANGED <<clock, disk, manifest, binary, live, copy>>

\* Mutant: a time on the second counts as the second before.
SecondBefore(mtime) == (mtime - 1) \div TicksPerSecond
Seconds(mtime) == mtime \div TicksPerSecond

\* Mutant: a file the manifest knows already is not read again.
RecordOnce(k) == IF manifest[k] # Nil THEN manifest[k]
                 ELSE [hash |-> disk[k].bytes, lastModifiedTime |-> Seconds(disk[k].mtime)]
\* createFileInfo
FileInfo(k) == [hash |-> disk[k].bytes, lastModifiedTime |-> Seconds(disk[k].mtime)]

Record(k) ==
    /\ phase = "manifest"
    /\ k \in todo
    /\ disk[k] # Nil
    /\ draft' = [draft EXCEPT ![k] = FileInfo(k)]
    /\ todo' = todo \ {k}
    /\ reply' = Nil
    /\ UNCHANGED <<clock, disk, phase, manifest, binary, live, copy>>

\* A static build goes on to the snapshot; fastedge-assets is done.
WriteManifest ==
    /\ phase = "manifest"
    /\ todo = {}
    /\ manifest' = draft
    /\ \/ phase' = "snapshot" /\ todo' = Has(draft) /\ UNCHANGED draft
       \/ phase' = "idle" /\ todo' = {} /\ draft' = Nothing
    /\ reply' = Nil
    /\ UNCHANGED <<clock, disk, binary, live, copy>>

-----------------------------------------------------------------------------
(* fastedge-build: the manifest is bundled, and createStaticServer runs    *)
(* under Wizer, reading each file of the manifest.                         *)

ManifestMatches ==
    /\ Has(manifest) = Has(disk)
    /\ \A k \in Has(disk) : manifest[k] = FileInfo(k)

StartSnapshot ==
    /\ phase = "idle"
    /\ setting.upToDate => ManifestMatches
    /\ phase' = "snapshot"
    /\ todo' = Has(manifest)
    /\ draft' = manifest
    /\ reply' = Nil
    /\ UNCHANGED <<clock, disk, manifest, binary, live, copy>>

Inline(k) ==
    /\ phase = "snapshot"
    /\ k \in todo
    /\ disk[k] # Nil
    /\ draft' = [draft EXCEPT ![k] =
          [source |-> disk[k].bytes, hash |-> draft[k].hash,
           lastModifiedTime |-> draft[k].lastModifiedTime]]
    /\ todo' = todo \ {k}
    /\ reply' = Nil
    /\ UNCHANGED <<clock, disk, phase, manifest, binary, live, copy>>

Snapshot ==
    /\ phase = "snapshot"
    /\ todo = {}
    /\ binary' = draft
    /\ phase' = "idle"
    /\ draft' = Nothing
    /\ reply' = Nil
    /\ UNCHANGED <<clock, disk, todo, manifest, live, copy>>

\* A file is gone, or the build fails or is killed elsewhere: what is on disk
\* from earlier builds stays.
BuildFails ==
    /\ phase # "idle"
    /\ phase' = "idle"
    /\ todo' = {}
    /\ draft' = Nothing
    /\ reply' = Nil
    /\ UNCHANGED <<clock, disk, manifest, binary, live, copy>>

\* External: the platform swaps the binary.
Deploy ==
    /\ binary # live
    /\ live' = binary
    /\ reply' = Nil
    /\ UNCHANGED <<clock, disk, buildVars, copy>>

-----------------------------------------------------------------------------
(* serveRequest *)

\* getMatchingAsset: the first candidate that is an asset.
MatchesOf(u) == {i \in DOMAIN Candidates[u] : live[Candidates[u][i]] # Nil}
MatchingAsset(u) ==
    {Candidates[u][i] : i \in {m \in MatchesOf(u) : \A j \in MatchesOf(u) : m <= j}}

LastModified(k) == IF live[k].lastModifiedTime = 0 THEN Nil ELSE live[k].lastModifiedTime

\* The validators a conditional request of kind `cond` carries.
IfNoneMatch(u, cond) ==
    IF copy[u] # Nil /\ cond \in {"etag", "both"} THEN copy[u].etag ELSE Nil
IfModifiedSince(u, cond) ==
    IF copy[u] # Nil /\ cond \in {"since", "both"} THEN copy[u].date ELSE Nil

\* Mutants: the date decides where the tag did not match; an off-by-one.
EitherMatches(k, tag, date) ==
    \/ tag = live[k].hash
    \/ date # Nil /\ live[k].lastModifiedTime <= date
JustModified(k, tag, date) ==
    IF tag # Nil THEN tag = live[k].hash
    ELSE date # Nil /\ live[k].lastModifiedTime <= date + 1
\* handlePreconditions: If-None-Match decides if it is there.
NotModified(k, tag, date) ==
    IF tag # Nil THEN tag = live[k].hash
    ELSE date # Nil /\ live[k].lastModifiedTime <= date

\* What the client stores; a 304 renews the headers it kept (RFC 9111, 4.3.4).
CopyAfter(u, k, status, cc) ==
    CASE cc = "no-store" -> Nil
      [] status = 304   -> [copy[u] EXCEPT !.etag = live[k].hash]
      [] OTHER -> [body |-> live[k].source, etag |-> live[k].hash, date |-> LastModified(k)]

\* serveAsset
ServeAsset(u, k, cond, status, cc) ==
    LET notModified == NotModified(k, IfNoneMatch(u, cond), IfModifiedSince(u, cond))
        sent == IF notModified THEN 304 ELSE status
    IN /\ reply' = [asset |-> k,
                    shown |-> IF notModified THEN copy[u].body ELSE live[k].source]
       /\ copy' = [copy EXCEPT ![u] = CopyAfter(u, k, sent, cc)]
       /\ UNCHANGED <<clock, disk, buildVars, live>>

ServeMatch(u, cond) ==
    \E k \in MatchingAsset(u) :
        ServeAsset(u, k, cond, 200, IF u \in Extended THEN "extended" ELSE "none")

\* These are raw asset keys, whatever the prefixes.
Fallback(k) == k # Nil /\ live[k] # Nil

\* acceptsHtml is what requestAcceptsTextHtml makes of the Accept header.
ServeSpa(u, cond, acceptsHtml) ==
    /\ MatchesOf(u) = {}
    /\ acceptsHtml
    /\ Fallback(spaEntrypoint)
    /\ ServeAsset(u, spaEntrypoint, cond, 200, "no-store")

ServeNotFound(u, cond, acceptsHtml) ==
    /\ MatchesOf(u) = {}
    /\ acceptsHtml
    /\ ~Fallback(spaEntrypoint)
    /\ Fallback(notFoundPage)
    /\ ServeAsset(u, notFoundPage, cond, 404, "no-store")

\* No response: the application answers, and the client forgets its copy.
ServeNothing(u, acceptsHtml) ==
    /\ MatchesOf(u) = {}
    /\ acceptsHtml => ~Fallback(spaEntrypoint) /\ ~Fallback(notFoundPage)
    /\ reply' = Nil
    /\ copy' = [copy EXCEPT ![u] = Nil]
    /\ UNCHANGED <<clock, disk, buildVars, live>>

-----------------------------------------------------------------------------
Develop ==
    \/ \E k \in Key, t \in EditTimes : \E b \in Versions[k], m \in Mtimes(t) : Edit(k, b, t, m)
    \/ \E k \in Key : Unlink(k)

Build ==
    \/ Scan \/ WriteManifest \/ StartSnapshot \/ Snapshot \/ BuildFails
    \/ \E k \in Key : Record(k) \/ Inline(k)

Serve ==
    \E u \in Url, cond \in setting.conditions :
        \/ ServeMatch(u, cond)
        \/ \E acceptsHtml \in BOOLEAN :
              \/ ServeSpa(u, cond, acceptsHtml)
              \/ ServeNotFound(u, cond, acceptsHtml)
              \/ ServeNothing(u, acceptsHtml)

Next == UNCHANGED setting /\ (Develop \/ Build \/ Deploy \/ Serve)

Spec == Init /\ [][Next]_vars

-----------------------------------------------------------------------------
\* The ETag an asset is served with is the hash of the bytes it is served with,
\* although the two are read from the directory in different steps.
EtagNamesBytes ==
    \A k \in Has(live) : live[k].hash = live[k].source

\* What the client shows is what the server has: a 304 is given only to a
\* client that has the very bytes, across rebuilds, rollbacks and fallbacks.
ShownIsCurrent ==
    reply # Nil => reply.shown = live[reply.asset].source

\* The tag of a stored copy is that of its bytes, so that no later exchange by
\* tag can confirm the wrong bytes.
CopyKeepsItsTag ==
    \A u \in Url : copy[u] # Nil => copy[u].etag = copy[u].body
=============================================================================
