-------------------------------- MODULE Lists --------------------------------
(***************************************************************************)
(* The linked lists of src/include/sugar.h, as sequences.  LIST_APPEND is  *)
(* Append and LIST_FOREACH the order of the sequence.                      *)
(***************************************************************************)
EXTENDS Naturals, Sequences

Members(s) == {s[i] : i \in DOMAIN s}

(* LIST_REMOVE for every member of S that is in the list s.                *)
Without(s, S) ==
    LET kept[i \in 0 .. Len(s)] ==
            IF i = 0 THEN << >>
            ELSE IF s[i] \in S THEN kept[i - 1] ELSE Append(kept[i - 1], s[i])
    IN  kept[Len(s)]
===============================================================================
