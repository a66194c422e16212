---------------------------- MODULE MCPcmStream ----------------------------
(***************************************************************************)
(* Instances of PcmStream: rings of two and three periods of two frames,   *)
(* one with a stop threshold of its own; a ring of two periods of three    *)
(* frames, which are no whole number of words; and the configurations the  *)
(* driver refuses at one stage or another.                                 *)
(***************************************************************************)
EXTENDS PcmStream

MCDefault == [period |-> 2, count |-> 2, start |-> 0, stop |-> 0,
              sane |-> TRUE, rate |-> TRUE]

MCRefused ==
    {[MCDefault EXCEPT !.sane = FALSE], [MCDefault EXCEPT !.rate = FALSE],
     [MCDefault EXCEPT !.period = 0], [MCDefault EXCEPT !.count = 4]}

MCConfigs ==
    {MCDefault, [MCDefault EXCEPT !.count = 3, !.start = 6, !.stop = 5],
     [MCDefault EXCEPT !.period = 3]} \cup MCRefused

MCSmall == {MCDefault}
MCOdd == MCSmall \cup {[MCDefault EXCEPT !.period = 3]}
=============================================================================
