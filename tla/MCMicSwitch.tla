---------------------------- MODULE MCMicSwitch ----------------------------
(* Two processes and three devices for MicSwitch, the virtual cable and two *)
(* microphones, in the worlds the runs look at.                             *)
EXTENDS MicSwitch

CONSTANTS p1, p2, cable, usb, builtin

Anywhere == ProgramPoints \ {"dead"}

\* Kills everywhere except inside a restore pass; unplugged devices, a file of an old version.
Killed == [
  target |-> [p \in Procs |-> cable], legacy |-> {cable},
  scopes |-> {Roles}, picks |-> {usb, builtin}, unpluggable |-> {cable, usb},
  crash |-> Anywhere \ {"restore"}, lazy |-> FALSE, breaks |-> FALSE, faults |-> {"remove"},
  racing |-> FALSE, events |-> 6]

\* The same with an IPolicyConfig that may stop and start working, and kills outside the passes.
BrokenApi == [Killed EXCEPT
  !.crash = Anywhere \ {"switch", "restore"}, !.breaks = TRUE, !.events = 5]

\* Everything at once.  The Settings app sets the default device and the default communications
\* device apart.
Hostile == [
  target |-> [p \in Procs |-> IF p = p1 THEN cable ELSE builtin], legacy |-> {},
  scopes |-> {{"console", "multimedia"}, {"communications"}}, picks |-> Mics,
  unpluggable |-> {cable, usb}, crash |-> Anywhere, lazy |-> TRUE, breaks |-> TRUE,
  faults |-> {"switch", "restore", "remove"}, racing |-> TRUE, events |-> 2]

\* Orderly, but for a kill inside a restore pass.
KilledInRestore == [Killed EXCEPT
  !.legacy = {}, !.scopes = {}, !.unpluggable = {}, !.crash = Anywhere, !.events = 2]

AllWorlds == {Killed, BrokenApi, Hostile}
KillInRestoreWorld == {KilledInRestore}
=============================================================================
