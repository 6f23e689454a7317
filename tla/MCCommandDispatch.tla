-------------------------- MODULE MCCommandDispatch --------------------------
(* Instances of CommandDispatch small enough for TLC. *)
EXTENDS CommandDispatch

CONSTANTS wms, wcs, i1, i2

Command1(source, id, correlation) ==
  [sourceSystem |-> source, commandId |-> id, correlationId |-> correlation]

\* The first two have the same key though they are different commands; the
\* third has the ids of the second in the other system.
MCCommands == {Command1(wms, i1, i2), Command1(wms, i2, None), Command1(wcs, i2, None)}

\* The same command, submitted again and again.
OneCommand == {Command1(wms, i1, None)}

==============================================================================
