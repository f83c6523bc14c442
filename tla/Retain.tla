------------------------------- MODULE Retain -------------------------------
(***************************************************************************)
(* Vec::retain, as the application uses it: what is left of a sequence     *)
(* without some of its values, in order.  A recursive function, so that    *)
(* what it leaves can be proved for sequences of any length.               *)
(***************************************************************************)
EXTENDS Naturals, Sequences

Retain(seq, gone) ==
    LET kept[n \in 0 .. Len(seq)] ==
            IF n = 0 THEN <<>>
            ELSE IF seq[n] \in gone THEN kept[n - 1] ELSE Append(kept[n - 1], seq[n])
    IN  kept[Len(seq)]
=============================================================================
