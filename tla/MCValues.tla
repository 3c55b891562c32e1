-------------------------------- MODULE MCValues -------------------------------
(* Two parameters; texts and blobs of up to two bytes: a digit, a byte that
   is no UTF-8, and NUL; longer blobs with every remainder modulo three and
   bytes at the borders of the six-bit groups; short reals, a long one and one
   that is not finite. *)
EXTENDS Values

MCBytes == BoundedSeq({0, 55, 255}, 2)
MCUlps  == 0..2
MCBlobs == {<<0, 1, 251>>, <<255, 255, 255>>, <<251, 107, 0, 255>>,
            <<248, 107, 251, 1, 0>>}
MCValue == {Null}
    \cup {[type |-> "int", v |-> <<n>>] : n \in {0, 7}}
    \cup {[type |-> "real", v |-> h] : h \in {<<1, 0>>, <<14, 0>>, <<1, 1>>, <<>>}}
    \cup {[type |-> t, v |-> s] : t \in {"text", "blob"}, s \in MCBytes}
    \cup {[type |-> "blob", v |-> s] : s \in MCBlobs}
=============================================================================
