--------------------------- MODULE MCRestartGate ---------------------------
(* Two turns, one from a channel and one over a control connection, under a *)
(* supervisor that may start two boots.                                    *)
EXTENDS RestartGate

CONSTANTS channel, control
MCTurns == {channel, control}
MCProgrammatic == {control}
MCTooled == {channel}
=============================================================================
