----------------------------- MODULE RadioDevice ----------------------------
(***************************************************************************)
(* What the daemon and its clients make of /dev/radio0, with no socket, no *)
(* property and no retries: one open file at a time, passed on by those    *)
(* who have it, and loaded only while somebody does.                       *)
(***************************************************************************)
CONSTANT Process

VARIABLES
  holders,      \* the processes with a descriptor of the open file
  firmware      \* the chip has its firmware

vars == <<holders, firmware>>

Init == holders = {} /\ firmware = FALSE

\* The driver admits one file, and resets the chip when it is opened.
OpenFile(p) == holders = {} /\ holders' = {p} /\ firmware' = FALSE

PassOn(p) == holders # {} /\ holders' = holders \cup {p} /\ UNCHANGED firmware

\* One process closes or ends, or an application with several descriptors ends.
LetGo(S) == holders' = holders \ S /\ UNCHANGED firmware

Load == holders # {} /\ firmware' = TRUE /\ UNCHANGED holders

Next ==
  \/ \E p \in Process : OpenFile(p) \/ PassOn(p)
  \/ \E S \in SUBSET Process : LetGo(S)
  \/ Load

Spec == Init /\ [][Next]_vars
=============================================================================
