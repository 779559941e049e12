------------------------------ MODULE MCBuild ------------------------------
\* Small sets of config files and command lines for Build.
EXTENDS Build, TLC

CONSTANTS siteA, siteB, api, bad, gone, wasmA, wasmB, wasmC, man, p1, p2

Kinds == siteA :> "static" @@ siteB :> "static" @@ api :> "http"
         @@ bad :> "other" @@ gone :> "absent" @@ Direct :> "direct"

\* The two sites share the manifest, siteA and the direct build the output; the
\* http build shares nothing and may run beside any of them.
Shared == siteA :> man @@ siteB :> man @@ api :> Nil @@ bad :> Nil @@ gone :> Nil
          @@ Direct :> Nil
Outs == siteA :> wasmA @@ siteB :> wasmB @@ api :> wasmC @@ bad :> wasmC @@ gone :> wasmB
        @@ Direct :> wasmA

Files(s) == [flags |-> {"config"}, positional |-> 0, files |-> s]
Lines ==
    {Files(<<siteA, siteB>>), Files(<<siteB, gone, siteA>>), Files(<<bad, api>>),
     Files(<<siteA>>), Files(<<>>),
     [flags |-> {}, positional |-> 2, files |-> <<>>],
     [flags |-> {}, positional |-> 3, files |-> <<>>],
     [flags |-> {"input", "output", "config"}, positional |-> 0, files |-> <<bad>>],
     [flags |-> {"output", "valueless"}, positional |-> 1, files |-> <<>>],
     [flags |-> {"help"}, positional |-> 0, files |-> <<>>]}
Commands == [p \in Proc |-> Lines]
=============================================================================
