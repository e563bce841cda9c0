------------------------------ MODULE MCRelay ------------------------------
(***************************************************************************)
(* Relay for TLC: a time reply, an unknown frame with the magic in it, a   *)
(* time query and a feed command.                                          *)
(***************************************************************************)
EXTENDS Relay

Feeder == <<172, 11, 251, 222, 255, 11>>

Messages ==
  {[seq |-> <<0, 1>>, mac |-> Feeder, payload |-> <<2, 82, 4, 82>>],
   [seq |-> <<0, 252>>, mac |-> Feeder, payload |-> <<1, 82, 9, 82, 252, 0, 1>>]}

Reports == {[seq |-> <<152, 11>>, mac |-> Feeder, payload |-> <<4, 82, 4, 82>>]}

Commands == {[seq |-> <<0, 1>>, mac |-> Feeder, payload |-> <<1, 82, 5, 82, 1>>]}

\* Status, time, feed, feed report and visit.
FeederCommands == {<<3, 82>>, <<4, 82>>, <<5, 82>>, <<2, 82>>, <<0, 82>>}

\* No magic: the start of a frame cannot be told from a magic in the noise.
Noises == {<<7, 0, 251>>}

ASSUME QuietAssumption == NoiseHasNoMagic

=============================================================================
