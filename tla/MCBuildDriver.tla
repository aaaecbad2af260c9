--------------------------- MODULE MCBuildDriver ---------------------------
(***************************************************************************)
(* BuildDriver on small instances: three steps, one saved directory below  *)
(* CT_BUILD_DIR, the prefix, and the companion libraries' directory, which *)
(* no state holds.                                                         *)
(***************************************************************************)
EXTENDS BuildDriver

MCDirs       == {"config_dir", "prefix_dir", "complibs_dir"}
MCBuildDirs  == {"config_dir", "complibs_dir"}
MCPrefixDirs == {"prefix_dir"}
MCSaveOrder  == <<"config_dir", "prefix_dir">>

\* Step 1 makes the configuration, step 2 fills all three (a companion library among
\* them), step 3 the prefix.
MCWrites == [k \in 0..3 |-> CASE k = 0 -> {"prefix_dir"}
                              [] k = 1 -> {"config_dir"}
                              [] k = 2 -> {"config_dir", "prefix_dir", "complibs_dir"}
                              [] k = 3 -> {"prefix_dir"}]
\* Step 3 needs the library: a restart at 3 lacks it, one at 2 builds it again.
MCNeeds == [k \in 1..3 |-> CASE k = 1 -> {}
                             [] k = 2 -> {<<"prefix_dir", 0>>, <<"config_dir", 1>>}
                             [] k = 3 -> {<<"config_dir", 2>>, <<"complibs_dir", 2>>}]

Config(save, gz, log) == [save |-> save, gz |-> gz, log |-> log, rm |-> TRUE, only |-> FALSE]

\* One .config for all invocations.
OneConfig == {Config(TRUE, FALSE, TRUE)}

\* The user changes the compression, or gives up saving, or removes no prefix.
ManyConfigs == {Config(TRUE, FALSE, TRUE), Config(TRUE, TRUE, TRUE),
                [Config(FALSE, FALSE, TRUE) EXCEPT !.rm = FALSE],
                [Config(FALSE, FALSE, TRUE) EXCEPT !.only = TRUE]}
=============================================================================
