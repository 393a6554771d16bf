---------------------------- MODULE MCIrcServer ----------------------------
(***************************************************************************)
(* Instances of IrcServer for TLC.                                         *)
(***************************************************************************)
EXTENDS IrcServer, TLC

\* Nicknames, keys and channel names are only compared for equality.
Symmetry == Permutations(Nicks) \cup Permutations(Names) \cup Permutations(Keys)

\* No action reads `sent' or `actor', and the properties that speak of them are
\* action properties on their primed values, evaluated on every step.  A process
\* that has died takes no further step, and but for `crashed' its state is that
\* of the step before, so one such state stands for all.
View == IF crashed THEN <<>> ELSE <<clients, accepted, channels, busy>>
=============================================================================
