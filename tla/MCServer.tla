------------------------------ MODULE MCServer ------------------------------
(* Instances of Server for TLC: the configure payloads the client sends.   *)
EXTENDS Server

\* Two configure requests that enable different callbacks, and one whose
\* payload does not unmarshal.
MCConfigs ==
  { [valid |-> TRUE,  callbacks |-> <<"fileExists", "readFile">>],
    [valid |-> TRUE,  callbacks |-> <<"resolveModuleName">>],
    [valid |-> FALSE, callbacks |-> <<>>] }

\* Enable the two resolver and FS callbacks whose reply handling differs
\* from the other adapters'.
MCConfigAdapters ==
  { [valid |-> TRUE,
     callbacks |-> <<"getAccessibleEntries", "getPackageJsonScopeIfApplicable">>] }

\* A known name followed by an unknown one (section 8's test).
MCConfigUnknown ==
  { [valid |-> TRUE, callbacks |-> <<"readFile", "bogus">>],
    [valid |-> TRUE, callbacks |-> <<"fileExists">>] }

=============================================================================
