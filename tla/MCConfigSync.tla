---------------------------- MODULE MCConfigSync ----------------------------
(* One model, one channel; a row priced by token, one switched off and one  *)
(* priced by request; a chat or an image request for the model.             *)
EXTENDS ConfigSync

Row(on, modality, mode, miss, num) ==
  [on |-> on, modality |-> modality, mode |-> mode, input |-> 3, output |-> 2,
   hit |-> 1, miss |-> miss, request |-> 3, mult |-> [num |-> num, den |-> 4]]

MCModelRows ==
  { Row(TRUE, "text", "token", 0, 5), Row(FALSE, "text", "token", 0, 5),
    Row(TRUE, "image", "request", 0, 5) }

MCChannelRows == {[on |-> TRUE]}

Ask(type, n, max) ==
  [model |-> "m1", type |-> type, n |-> n, prompt |-> 3, max |-> max, defaultMax |-> 2]

(* The last two do not fit in HalfRange = 32: 3 * 3 + 20 * 2 wraps around,  *)
(* and 10 * 3 does after the multiplier.                                    *)
MCAsks == { Ask("chat", 0, 0), Ask("image_generation", 2, 0),
            Ask("chat", 0, 20), Ask("image_generation", 10, 0) }

MCUsages == { [prompt |-> 3, completion |-> 2, hit |-> 0, miss |-> 0],
              [prompt |-> 3, completion |-> 2, hit |-> 1, miss |-> 2],
              [prompt |-> 3, completion |-> 4, hit |-> 0, miss |-> 0],
              [prompt |-> 3, completion |-> 2, hit |-> -1, miss |-> 2] }
=============================================================================
