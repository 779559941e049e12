---------------------------- MODULE MCStaticSite ----------------------------
\* Small sites for StaticSite.
EXTENDS StaticSite, TLC

CONSTANTS page, other, home, away, x, y, z

\* Nothing the site could hold answers for "/away".
Unknown == home :> <<page>> @@ away :> <<>>
OneEach == home :> <<page>> @@ away :> <<other>>

BothChange == [k \in Key |-> {x, y}]
\* The other file has one version, of its own.
OneChanges == page :> {x, y} @@ other :> {z}

\* Clients that send a tag with their date, against fallback pages that answer
\* for the same URL and files that may become older.
Tags ==
    [versions |-> OneChanges, candidates |-> Unknown,
     spaEntrypoint |-> other, notFoundPage |-> page, conditions |-> {"none", "both"},
     maxTime |-> 1, minGap |-> 0, ticksPerSecond |-> 1,
     upToDate |-> TRUE, mtimesGoBack |-> TRUE]

\* Clients that send a date alone, in the only setting that serves them right:
\* no fallback, edits a second apart, mtimes that grow.
Dates ==
    [versions |-> BothChange, candidates |-> OneEach,
     spaEntrypoint |-> Nil, notFoundPage |-> Nil,
     conditions |-> {"none", "etag", "since", "both"},
     maxTime |-> 6, minGap |-> 2, ticksPerSecond |-> 2,
     upToDate |-> TRUE, mtimesGoBack |-> FALSE]

\* Files edited at any time during a build.
Careless ==
    [versions |-> BothChange, candidates |-> OneEach,
     spaEntrypoint |-> Nil, notFoundPage |-> Nil, conditions |-> {"none", "etag"},
     maxTime |-> 1, minGap |-> 0, ticksPerSecond |-> 2,
     upToDate |-> FALSE, mtimesGoBack |-> FALSE]

Disciplined == {Tags, Dates}
Undisciplined == {Careless}

Contents == Permutations({x, y})
=============================================================================
