---------------------------- MODULE MCAssetPaths ----------------------------
\* Small trees and configurations for AssetPaths.
EXTENDS AssetPaths

Root == <<"home", "public">>
Dots == {".well-known", ".env", ".git"}
Names == {"home", "public", "a", "docs", "index.html", "other.html", "drafts", ".env",
          ".well-known", ".git", "static", "docs.html", "static.html", "a b", "a%20b"}
Words == (Names \ {"docs.html", "static.html"}) \cup {".html"}
Spelling == "docs.html" :> <<"docs", ".html">> @@ "static.html" :> <<"static", ".html">>

\* One name has a space; another is what a URL has for it.
Escapes == "a b" :> "a%20b"

\* Trees with what may be ignored, trees in which names repeat and stand in each
\* other's way, and trees with names that a URL spells otherwise.
Ignorable == SUBSET {<<"a">>, <<"docs", "index.html">>, <<"docs", "drafts", "a">>,
                     <<"drafts", "a">>, <<".well-known", ".env">>, <<".well-known", "a">>,
                     <<".git", "a">>}
Pages == SUBSET {<<"index.html">>, <<"static.html">>, <<"static", "index.html">>,
                 <<"static", "other.html">>, <<"static", "static", "a">>,
                 <<"static", "docs.html">>, <<"static", "docs", "index.html">>}
Spaced == SUBSET {<<"a b", "index.html">>, <<"a%20b", "index.html">>, <<"a b", "a b">>,
                  <<"static", "a b">>}
Trees == Ignorable \cup Pages \cup Spaced

\* From the public directory, as a key, and from the root.
Written == {<<"drafts">>, <<".", "/", "drafts">>, <<"/", "drafts", "/">>,
            Slashed(Root \o <<"drafts">>)}
Drafts == [written : Written, means : {<<"drafts">>}]
Nested == [written |-> <<"docs", "/", "drafts", "/">>, means |-> <<"docs", "drafts">>]
Builds == [ignorePaths : {{}, {Nested}} \cup {{d, Nested} : d \in Drafts},
           ignoreDotFiles : BOOLEAN, ignoreWellKnown : BOOLEAN,
           contentTypes : {<<>>}]
CustomType == [ignorePaths : {{}}, ignoreDotFiles : {TRUE}, ignoreWellKnown : {FALSE},
               contentTypes : {<<[matches |-> {<<"/", "a">>}, contentType |-> "image/webp"]>>}]

Html == <<[matches |-> {<<"/", "index.html">>, <<"/", "static", ".html">>},
           contentType |-> "text/html"]>>
Servers == [routePrefix : {<<>>, <<"static">>, <<"/", "static", "/">>, <<"/", "a b">>},
            publicDirPrefix : {<<>>, <<"/", "static">>}, autoExt : {<<>>, <<".html">>},
            autoIndex : {<<>>, <<"other.html", "index.html">>}]
=============================================================================
