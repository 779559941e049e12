----------------------------- MODULE AssetPaths -----------------------------
(***************************************************************************)
(* How files become asset keys and how request paths find them again: the  *)
(* walk of the public directory by getFilesRecursively, the normalization  *)
(* of configured paths, and the lookup of getMatchingAsset for the path    *)
(* that serveRequest takes out of a request's URL.                         *)
(*                                                                         *)
(* A path is a sequence of tokens: the slashes, the leading dot of "./",   *)
(* the names, and the extensions that autoExt may add to a name.           *)
(***************************************************************************)
EXTENDS Integers, SequencesExt

CONSTANTS
    Token,         \* what paths are made of, besides the slash and the dot of "./"
    Name,          \* the names of files and directories
    Tree,          \* the trees to list: sets of files, each its names from publicDir
    BuildConfig,   \* the configurations of the manifest
    ServerConfig,  \* the configurations of the server
    publicDir,     \* the names from the root of the file system to publicDir
    DotNames,      \* the names that begin with a dot
    wellKnown,     \* ".well-known"
    builtIn,       \* the content type rules of the SDK, in order
    Extension,     \* Extension[n]: the tokens of a name n with an extension
    Encoding       \* Encoding[t]: what a URL has for a token t that it
                   \* percent-encodes, like one with a space, "?" or "#"

Slash == <<"/">>
Tokens(name) == IF name \in DOMAIN Extension THEN Extension[name] ELSE <<name>>
Slashed(names) == FlattenSeq([i \in DOMAIN names |-> Slash \o Tokens(names[i])])

VARIABLES
    tree,    \* the public directory
    build,   \* the configuration
    dirs,    \* the directories still to be read
    files    \* the files found

vars == <<tree, build, dirs, files>>

\* Types; the walk only enters directories, and finds files of the tree.
TypeOK ==
    /\ tree \in Tree
    /\ build \in BuildConfig
    /\ \A d \in dirs : d = <<>> \/ \E f \in tree : IsStrictPrefix(d, f)
    /\ files \subseteq tree

-----------------------------------------------------------------------------
(* config-helpers.ts *)

NoDotSlash(p) == IF IsPrefix(<<".", "/">>, p) THEN SubSeq(p, 3, Len(p)) ELSE p
NoTrailingSlash(p) == SubSeq(p, 1, Max({0} \cup {i \in DOMAIN p : p[i] # "/"}))
Rooted(p) == IF IsPrefix(Slash, p) THEN p ELSE Slash \o p

NormalizePath(p) ==
    IF p \in {<<".">>, Slash} THEN Slash ELSE Rooted(NoTrailingSlash(NoDotSlash(p)))

-----------------------------------------------------------------------------
Path == Seq(Token \cup {"/", "."})

ASSUME AssetPathsAssumption ==
    /\ Token \cap {"/", "."} = {}
    /\ \A n \in Name : Tokens(n) \in Seq(Token) /\ Tokens(n) # <<>>
    /\ \A m, n \in Name : Tokens(m) = Tokens(n) => m = n
    /\ publicDir \in Seq(Name)
    \* A file is in a tree at the end of its names, and nothing is below it.
    /\ \A t \in Tree : \A f \in t :
          /\ f \in Seq(Name) /\ f # <<>>
          /\ \A g \in t : IsPrefix(f, g) => f = g
    /\ \A c \in BuildConfig :
          /\ {c.ignoreDotFiles, c.ignoreWellKnown} \subseteq BOOLEAN
          \* An ignored path as it is written, and the names it stands for: it is
          \* written from the public directory or from the root.
          /\ \A ig \in c.ignorePaths :
                /\ ig.means \in Seq(Name) /\ ig.means # <<>>
                /\ ig.written \in Path
                /\ NormalizePath(ig.written) \in {Slashed(ig.means), Slashed(publicDir \o ig.means)}
    /\ \A s \in ServerConfig :
          /\ {s.routePrefix, s.publicDirPrefix} \subseteq Path
          /\ {s.autoExt, s.autoIndex} \subseteq Seq(Token)
    \* The parser of URLs encodes a token once: what it made, it leaves alone.
    /\ DOMAIN Encoding \subseteq Token
    /\ \A t \in DOMAIN Encoding : Encoding[t] \in Token \ DOMAIN Encoding

-----------------------------------------------------------------------------
(* getFilesRecursively *)

\* Mutant: the name is compared, not the path.
IgnoredName(names) ==
    \E ig \in build.ignorePaths : NormalizePath(ig.written) = Slashed(<<Last(names)>>)
\* An entry is compared with the normalized paths by the path relative to the
\* public directory, with a slash before it, and by the full one.
IgnoredPath(names) ==
    \E ig \in build.ignorePaths :
        NormalizePath(ig.written) \in {Slashed(names), Slashed(publicDir \o names)}

Hidden(name) == name \in DotNames \ {wellKnown}

Skipped(names) ==
    \/ IgnoredPath(names)
    \/ build.ignoreWellKnown /\ Last(names) = wellKnown
    \/ build.ignoreDotFiles /\ Hidden(Last(names))

Entries(d) == {SubSeq(f, 1, Len(d) + 1) : f \in {f \in tree : IsStrictPrefix(d, f)}}

\* The entries of a directory that are neither ignored nor hidden.
Visible(d) == {e \in Entries(d) : ~Skipped(e)}
\* Mutant: every entry is taken for a directory.
Everything(d) == Visible(d)
SubDirs(d) == Visible(d) \ tree

ReadDir(d) ==
    /\ d \in dirs
    /\ files' = files \cup (Visible(d) \cap tree)
    /\ dirs' = (dirs \ {d}) \cup SubDirs(d)
    /\ UNCHANGED <<tree, build>>

Init ==
    /\ tree \in Tree
    /\ build \in BuildConfig
    /\ dirs = {<<>>}
    /\ files = {}

Next == \E d \in dirs : ReadDir(d)

Spec == Init /\ [][Next]_vars

\* createManifestFileMap: the key of a file is its path without publicDir.
Keys == {Slashed(f) : f \in files}

-----------------------------------------------------------------------------
(* content-types.ts.  A rule is the set of keys it matches, and the type. *)

\* normalizeString, which createStaticAssetsManifest applies to the elements of
\* contentTypes, has the empty string for everything that is no string; seen as
\* a rule that matches nothing and has no type.
NormalizeString(rule) == [matches |-> {}, contentType |-> ""]
IsRule(rule) == rule.contentType # ""

KnownContentTypes ==
    LET normalized == [i \in DOMAIN build.contentTypes |-> NormalizeString(build.contentTypes[i])]
    IN SelectSeq(normalized, IsRule) \o builtIn

FirstMatch(rules, key) ==
    LET matching == {i \in DOMAIN rules : key \in rules[i].matches}
    IN IF matching = {} THEN "application/octet-stream" ELSE rules[Min(matching)].contentType
ContentType(key) == FirstMatch(KnownContentTypes, key)

-----------------------------------------------------------------------------
(* getMatchingAsset, with a configuration normalized by createStaticServer *)

\* Mutant: the slash is not put back.
PrefixedOnly(s, path) ==
    s.publicDirPrefix \o ReplaceFirstSubSeq(<<>>, NormalizePath(s.routePrefix), path)
AssetKey(s, path) ==
    Rooted(s.publicDirPrefix \o ReplaceFirstSubSeq(<<>>, NormalizePath(s.routePrefix), path))

\* The keys tried for a path, in order.
ExactAndExt(s, key) ==
    IF IsSuffix(Slash, key) THEN <<>>
    ELSE <<key>> \o [i \in DOMAIN s.autoExt |-> key \o <<s.autoExt[i]>>]
Index(s, key) ==
    [i \in DOMAIN s.autoIndex |-> NoTrailingSlash(key) \o Slash \o <<s.autoIndex[i]>>]

\* Mutant: a directory comes before a file with an extension.
IndexFirst(s, path) == Index(s, AssetKey(s, path)) \o ExactAndExt(s, AssetKey(s, path))
Candidates(s, path) == ExactAndExt(s, AssetKey(s, path)) \o Index(s, AssetKey(s, path))

Nothing == <<>>
MatchingAsset(s, path) ==
    LET found == {i \in DOMAIN Candidates(s, path) : Candidates(s, path)[i] \in Keys}
    IN IF found = {} THEN Nothing ELSE Candidates(s, path)[Min(found)]

-----------------------------------------------------------------------------
(* serveRequest *)

\* new URL(request.url).pathname, for the URL of path p (the parser of URLs is
\* external).  Nothing decodes it.
Pathname(p) == [i \in DOMAIN p |-> IF p[i] \in DOMAIN Encoding THEN Encoding[p[i]] ELSE p[i]]

\* The asset that answers a request for path p, but for the fallback pages.
Served(s, p) == MatchingAsset(s, Pathname(p))

-----------------------------------------------------------------------------
Listed == dirs = {}

\* The files the configuration leaves, told file by file: no ignored path is
\* above it or is it, and no name on its way is hidden or ignored.
Wanted ==
    {f \in tree :
        /\ \A ig \in build.ignorePaths : ~IsPrefix(ig.means, f)
        /\ build.ignoreDotFiles => ToSet(f) \cap DotNames \subseteq {wellKnown}
        /\ build.ignoreWellKnown => wellKnown \notin ToSet(f)}

\* The walk, which prunes directories, finds exactly the wanted files.
ListsWhatIsWanted == Listed => files = Wanted

\* The directory of assets a server is limited to.
Base(s) == IF s.publicDirPrefix = <<>> THEN <<>> ELSE Rooted(s.publicDirPrefix)
\* publicDirPrefix and what is left of a path are joined as they are, so that a
\* server has to have a route prefix too, for the slash in between to be there.
Joined == {s \in ServerConfig : Base(s) = <<>> \/ NormalizePath(s.routePrefix) # Slash}
Below(s, k) == IsPrefix(Base(s) \o Slash, k)
\* The path a client uses for k: its path below Base(s), behind the prefix.
UrlOf(s, k) ==
    (IF NormalizePath(s.routePrefix) = Slash THEN <<>> ELSE NormalizePath(s.routePrefix))
        \o SubSeq(k, Len(Base(s)) + 1, Len(k))

\* A URL has the path as it is, without percent-encoding any of it.
SpelledAlike(p) == \A i \in DOMAIN p : p[i] \notin DOMAIN Encoding

\* An asset of a server's directory is served at the prefix followed by its
\* path, whatever other assets there are, also if a prefix occurs in it again,
\* provided that a URL spells this path as the file system does; otherwise it is
\* not served there: the encoded path is looked up, and is not its key.
ServedIffSpelledAlike ==
    Listed => \A s \in Joined : \A k \in Keys :
        Below(s, k) => (Served(s, UrlOf(s, k)) = k <=> SpelledAlike(UrlOf(s, k)))

\* A directory that a URL spells as the file system does is served by its index,
\* the one the configuration prefers, with or without a slash at the end, unless
\* a file or a page of that name is in the way, which is then served.
FriendlyUrls ==
    Listed => \A s \in Joined : \A f \in files :
        LET dir == Slashed(Front(f))
            taken == {dir} \cup {dir \o <<s.autoExt[i]>> : i \in DOMAIN s.autoExt}
            preferred == \E i \in DOMAIN s.autoIndex :
                /\ Slashed(f) = dir \o Slash \o <<s.autoIndex[i]>>
                /\ \A j \in 1 .. i - 1 : dir \o Slash \o <<s.autoIndex[j]>> \notin Keys
        IN preferred /\ Below(s, Slashed(f)) =>
             /\ SpelledAlike(UrlOf(s, dir \o Slash)) =>
                   Served(s, UrlOf(s, dir \o Slash)) = Slashed(f)
             /\ SpelledAlike(UrlOf(s, dir)) =>
                   IF taken \cap Keys = {}
                   THEN Served(s, UrlOf(s, dir)) = Slashed(f)
                   ELSE Served(s, UrlOf(s, dir)) \in taken

\* "Custom content types are evaluated before built-in defaults. The first
\* matching entry wins."
CustomTypesFirst ==
    \A k \in Keys : ContentType(k) = FirstMatch(build.contentTypes \o builtIn, k)

=============================================================================
