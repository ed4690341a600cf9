--------------------------- MODULE MCDaemonCommand ---------------------------
(* Self and two other commands. Two others give two running commands while *)
(* a third registers, and a DICE update by one other command after another *)
(* has started or ended. Three configs: cfgOk builds, cfgNoRoot fails      *)
(* construct_dice_data only (no root cell config), cfgNoPrelude fails      *)
(* dice_updater only.                                                      *)
EXTENDS DaemonCommand, TLC

CONSTANTS c1, c2, c3, cfgOk, cfgNoRoot, cfgNoPrelude

MCCommands == {c1, c2, c3}
\* Each command is started with its own trace id, named after it.
MCTraceIds == MCCommands
MCTraceOf == [c \in MCCommands |-> c]

\* The two other commands are interchangeable.
MCSymmetry == Permutations(MCCommands \ {c1})
MCConfigs == {cfgOk, cfgNoRoot, cfgNoPrelude}
MCDataFails == {cfgNoRoot}
MCUpdaterFails == {cfgNoPrelude}
=============================================================================
