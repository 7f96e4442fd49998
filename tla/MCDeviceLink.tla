---------------------------- MODULE MCDeviceLink ----------------------------
(* Words of eight values.  A measurement of two words in coarse counts, one *)
(* of a single word whose bounds leave out what a sample holds, and two     *)
(* setpoints, one signed with a coarse count.                               *)
EXTENDS DeviceLink, TLC

R(words, signed, writable, scale, min, max) ==
  [words |-> words, signed |-> signed, writable |-> writable, scale |-> scale,
   min |-> min, max |-> max]

MCProfile == << R(1, FALSE, FALSE, 1, 3, 6),
                R(1, TRUE, TRUE, 2, -6, 7),
                R(2, TRUE, FALSE, 2, -40, 40),
                R(2, FALSE, TRUE, 1, 0, 40) >>

MCSamples == { (1 :> 5) @@ (3 :> 17), (1 :> 4) @@ (3 :> -21), (1 :> 7) @@ (3 :> 30) }
MCCommands == {-5, 50}

=============================================================================
