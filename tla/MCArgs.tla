------------------------------- MODULE MCArgs -------------------------------
(* Every line of up to five bytes over a letter, the blank, both           *)
(* separators and both quotes, and shorter ones padded with NULs.          *)
EXTENDS Args

MCChar == {"a", " ", ";", "&"} \cup Quote
Strings(n) == UNION {[1..k -> Char] : k \in 0..n}
Padding == {<<>>, <<NUL>>, <<NUL, NUL>>}
MCText == Strings(5) \cup {s \o pad : s \in Strings(3), pad \in Padding}
=============================================================================
