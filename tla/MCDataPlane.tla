---------------------------- MODULE MCDataPlane ----------------------------
(***************************************************************************)
(* Instances of DataPlane for TLC.                                         *)
(***************************************************************************)
EXTENDS DataPlane, TLC

CONSTANTS w1, w2

Input(enabled, failOpen, body, big, w) ==
    [enabled |-> enabled, failOpen |-> failOpen, body |-> body, big |-> big,
     worker |-> w]

(* One location that is not inspected, and inspected ones that fail closed *)
(* or open, with every kind of body; two workers.                          *)
MCInputs ==
    { Input(FALSE, FALSE, "none", FALSE, w1),
      Input(TRUE, FALSE, "none", FALSE, w1),
      Input(TRUE, FALSE, "memory", TRUE, w1),
      Input(TRUE, TRUE, "file", FALSE, w1),
      Input(TRUE, TRUE, "none", FALSE, w2) }

(* Messages that fit the socket buffers, on one worker.                    *)
SmallInputs ==
    { Input(FALSE, FALSE, "none", FALSE, w1),
      Input(TRUE, FALSE, "memory", FALSE, w1),
      Input(TRUE, TRUE, "chunked", FALSE, w1) }

(* A message that does not.                                                *)
BigInputs == { Input(TRUE, FALSE, "memory", TRUE, w1) }

Sym == Permutations(Requests)
=============================================================================
